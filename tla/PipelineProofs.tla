--------------------------- MODULE PipelineProofs ---------------------------
(***************************************************************************)
(* Proofs about a render pipeline: the record / wait / play protocol, for  *)
(* pipelines of any length and any number of threads that play, with its   *)
(* refinement of RecordedPipeline; then the clock (FramePacing) and the    *)
(* table of stages (StageTable).                                           *)
(*                                                                         *)
(* m_thread has no lock: its users are safe only if one client thread      *)
(* records, waits and destroys (LoneRecorder), and play() is safe only if  *)
(* that is also the thread that plays (LoneClient).                        *)
(***************************************************************************)
EXTENDS PipelineProps, StageTable, FramePacing, SequenceTheorems, TLAPS

LoneRecorder == \A s, t \in Recorders : s = t
LoneClient   == \A s, t \in Clients : s = t

PCs == {"idle", "wait", "sleep", "join?", "join", "arm", "spawn", "compile",
        "draw", "delete", "edit"}
Ops == {"none", "record", "await", "play", "destroy", "edit"}

\* the types of the variables that the protocol moves on
TypeOK ==
  /\ pc \in [Clients -> PCs]
  /\ op \in [Clients -> Ops]
  /\ rec \in {"off", "clear", "data", "type", "seal", "notify"}
  /\ isRecording \in BOOLEAN
  /\ joinable \in BOOLEAN
  /\ terminated \in BOOLEAN
  /\ destroyed \in BOOLEAN

\* where a thread can be inside each operation; players only play
Phase(t) ==
  /\ t \notin Recorders => op[t] \in {"none", "play"}
  /\ pc[t] \in {"wait", "sleep"} => op[t] \in {"play", "await"}
  /\ pc[t] \in {"join?", "join"} => op[t] \in {"record", "await", "destroy"}
  /\ pc[t] \in {"arm", "spawn"} => op[t] = "record"
  /\ pc[t] \in {"compile", "draw"} => op[t] = "play"
  /\ pc[t] = "delete" => op[t] = "destroy"
  /\ pc[t] = "edit" => op[t] = "edit"

\* what a thread knows of m_thread and of the recording flag
Knows(t) ==
  /\ pc[t] = "join" => joinable
  /\ pc[t] \in {"arm", "spawn", "delete"} => ~joinable
  /\ pc[t] = "spawn" => isRecording
  /\ (op[t] = "destroy" /\ pc[t] # "idle") =>
       \A u \in Clients : u # t => pc[u] = "idle"

\* a running recorder is in m_thread and the flag is up; nothing is left to run
\* when the backend is gone
Running ==
  /\ rec # "off" => joinable /\ isRecording
  /\ destroyed => ~joinable /\ \A t \in Clients : pc[t] = "idle"

PInv ==
  /\ TypeOK
  /\ \A t \in Clients : Phase(t) /\ Knows(t)
  /\ Running

-----------------------------------------------------------------------------

\* The initial state satisfies the protocol invariant.
LEMMA ProtocolInit == Init => PInv
  BY DEF Init, PInv, TypeOK, Phase, Knows, Running, PCs, Ops

\* notify_one() moves at most one thread, from its sleep back to its test.
LEMMA WakeOneMoves ==
  ASSUME NEW ctl \in [Clients -> PCs], WakeOne(ctl)
  PROVE  /\ pc' \in [Clients -> PCs]
         /\ \A u \in Clients :
              pc'[u] = ctl[u] \/ (pc[u] = "sleep" /\ pc'[u] = "wait")
<1>1. CASE Sleepers = {}
  BY <1>1 DEF WakeOne
<1>2. CASE Sleepers # {}
  <2>1. PICK s \in Sleepers : pc' = [ctl EXCEPT ![s] = "wait"]
    BY <1>2 DEF WakeOne
  <2>2. s \in Clients /\ pc[s] = "sleep"
    BY DEF Sleepers
  <2> QED
    BY <2>1, <2>2 DEF PCs
<1> QED
  BY <1>1, <1>2

\* Entering an operation.
LEMMA StartInv ==
  ASSUME LoneRecorder, PInv, NEW t \in Clients, Start(t)
  PROVE  PInv'
<1> USE DEF PInv, TypeOK, PCs, Ops
<1>1. UNCHANGED <<rec, isRecording, joinable, terminated, destroyed>> /\ ~destroyed
  BY DEF Start, Record, WaitForRecording, Destroy, BeginEdit, Play, Call, sync, fate
<1>2. /\ pc[t] = "idle"
      /\ \A u \in Clients : op[u] = "destroy" => pc[u] = "idle"
      /\ \/ /\ t \in Recorders
            /\ \/ op' = [op EXCEPT ![t] = "record"] /\ pc' = [pc EXCEPT ![t] = "join?"]
               \/ op' = [op EXCEPT ![t] = "await"] /\ pc' = [pc EXCEPT ![t] = "wait"]
               \/ /\ op' = [op EXCEPT ![t] = "destroy"]
                  /\ pc' = [pc EXCEPT ![t] = "join?"]
                  /\ \A u \in Clients \ {t} : pc[u] = "idle"
               \/ op' = [op EXCEPT ![t] = "edit"] /\ pc' = [pc EXCEPT ![t] = "edit"]
         \/ op' = [op EXCEPT ![t] = "play"] /\ pc' = [pc EXCEPT ![t] = "wait"]
  BY DEF Start, Record, WaitForRecording, Destroy, BeginEdit, Play, Call, Goto
<1>3. TypeOK' /\ Running'
  BY <1>1, <1>2 DEF Running
<1>4. ASSUME NEW u \in Clients PROVE Phase(u)' /\ Knows(u)'
  BY <1>1, <1>2 DEF Phase, Knows
<1> QED
  BY <1>3, <1>4

\* The steps of an operation that was entered, the condition variable included.
LEMMA ContinueInv ==
  ASSUME LoneRecorder, PInv, NEW t \in Clients, Continue(t) \/ SpuriousWake(t)
  PROVE  PInv'
<1> USE DEF PInv, TypeOK, PCs, Ops
<1>0. \A u \in Clients : Phase(u) /\ Knows(u)
  OBVIOUS
<1>1. CASE WaitForRecordingState(t)
  <2>1. /\ pc[t] = "wait"
        /\ \/ pc' = [pc EXCEPT ![t] = "sleep"]
           \/ op[t] = "play" /\ pc' = [pc EXCEPT ![t] = "compile"]
           \/ op[t] # "play" /\ pc' = [pc EXCEPT ![t] = "join?"]
        /\ UNCHANGED <<op, rec, isRecording, joinable, terminated, destroyed>>
    BY <1>1 DEF WaitForRecordingState, sync, fate
  <2>2. TypeOK' /\ Running'
    BY <2>1 DEF Running
  <2>3. ASSUME NEW u \in Clients PROVE Phase(u)' /\ Knows(u)'
    BY <1>0, <2>1 DEF Phase, Knows
  <2> QED
    BY <2>2, <2>3
<1>2. CASE SpuriousWake(t)
  <2>1. /\ pc[t] = "sleep"
        /\ pc' = [pc EXCEPT ![t] = "wait"]
        /\ UNCHANGED <<op, rec, isRecording, joinable, terminated, destroyed>>
    BY <1>2 DEF SpuriousWake, Goto, sync, fate
  <2>2. TypeOK' /\ Running'
    BY <2>1 DEF Running
  <2>3. ASSUME NEW u \in Clients PROVE Phase(u)' /\ Knows(u)'
    BY <1>0, <2>1 DEF Phase, Knows
  <2> QED
    BY <2>2, <2>3
<1>3. CASE CheckJoinable(t)
  <2>1. /\ pc[t] = "join?"
        /\ \/ joinable /\ pc' = [pc EXCEPT ![t] = "join"]
           \/ ~joinable /\ pc' = [pc EXCEPT ![t] = AfterJoin(t)]
        /\ UNCHANGED <<op, rec, isRecording, joinable, terminated, destroyed>>
    BY <1>3 DEF CheckJoinable, sync, fate
  <2>2. \/ op[t] = "record" /\ AfterJoin(t) = "arm"
        \/ op[t] = "await" /\ AfterJoin(t) = "idle"
        \/ op[t] = "destroy" /\ AfterJoin(t) = "delete"
    BY <1>0, <2>1 DEF AfterJoin, Phase
  <2>3. TypeOK' /\ Running'
    BY <2>1, <2>2 DEF Running
  <2>4. ASSUME NEW u \in Clients PROVE Phase(u)' /\ Knows(u)'
    BY <1>0, <2>1, <2>2 DEF Phase, Knows
  <2> QED
    BY <2>3, <2>4
<1>4. CASE Join(t)
  <2>1. /\ pc[t] = "join"
        /\ pc' = [pc EXCEPT ![t] = AfterJoin(t)]
        /\ rec = "off"
        /\ joinable' = FALSE
        /\ terminated' \in BOOLEAN
        /\ UNCHANGED <<op, rec, isRecording, destroyed>>
    BY <1>4 DEF Join, Goto
  <2>2. \/ op[t] = "record" /\ AfterJoin(t) = "arm"
        \/ op[t] = "await" /\ AfterJoin(t) = "idle"
        \/ op[t] = "destroy" /\ AfterJoin(t) = "delete"
    BY <1>0, <2>1 DEF AfterJoin, Phase
  <2>3. TypeOK' /\ Running'
    BY <2>1, <2>2 DEF Running
  <2>4. ASSUME NEW u \in Clients PROVE Phase(u)' /\ Knows(u)'
    <3>1. u # t => pc[u] # "join"
      BY <1>0, <2>1 DEF Phase, LoneRecorder
    <3> QED
      BY <1>0, <2>1, <2>2, <3>1 DEF Phase, Knows
  <2> QED
    BY <2>3, <2>4
<1>5. CASE ArmRecording(t)
  <2> DEFINE ctl == [pc EXCEPT ![t] = "spawn"]
  <2>1. /\ pc[t] = "arm"
        /\ isRecording' = TRUE
        /\ WakeOne(ctl)
        /\ UNCHANGED <<op, rec, joinable, terminated, destroyed>>
    BY <1>5 DEF ArmRecording, fate
  <2>2. ctl \in [Clients -> PCs]
    OBVIOUS
  <2>3. /\ pc' \in [Clients -> PCs]
        /\ \A u \in Clients :
             pc'[u] = ctl[u] \/ (pc[u] = "sleep" /\ pc'[u] = "wait")
    BY <2>1, <2>2, WakeOneMoves
  <2>4. TypeOK' /\ Running'
    BY <1>0, <2>1, <2>3 DEF Running, Knows
  <2>5. ASSUME NEW u \in Clients PROVE Phase(u)' /\ Knows(u)'
    BY <1>0, <2>1, <2>3 DEF Phase, Knows
  <2> QED
    BY <2>4, <2>5
<1>6. CASE Spawn(t)
  <2>1. /\ pc[t] = "spawn"
        /\ pc' = [pc EXCEPT ![t] = "idle"]
        /\ joinable' = TRUE
        /\ rec' = "clear"
        /\ terminated' \in BOOLEAN
        /\ UNCHANGED <<op, isRecording, destroyed>>
    BY <1>6 DEF Spawn, Goto
  <2>2. \A u \in Clients : u # t => pc[u] \notin {"arm", "spawn", "delete"}
    BY <1>0, <2>1 DEF Phase, LoneRecorder
  <2>3. TypeOK' /\ Running'
    BY <1>0, <2>1 DEF Running, Knows
  <2>4. ASSUME NEW u \in Clients PROVE Phase(u)' /\ Knows(u)'
    BY <1>0, <2>1, <2>2 DEF Phase, Knows
  <2> QED
    BY <2>3, <2>4
<1>7. CASE Compile(t) \/ Draw(t)
  <2>1. /\ pc[t] \in {"compile", "draw"}
        /\ \/ pc[t] = "compile" /\ pc' = [pc EXCEPT ![t] = "draw"]
           \/ pc[t] = "draw" /\ pc' = [pc EXCEPT ![t] = "idle"]
        /\ terminated' \in BOOLEAN
        /\ UNCHANGED <<op, rec, isRecording, joinable, destroyed>>
    BY <1>7 DEF Compile, Draw, Goto, sync
  <2>2. TypeOK' /\ Running'
    BY <2>1 DEF Running
  <2>3. ASSUME NEW u \in Clients PROVE Phase(u)' /\ Knows(u)'
    BY <1>0, <2>1 DEF Phase, Knows
  <2> QED
    BY <2>2, <2>3
<1>8. CASE DeleteBackend(t)
  <2>1. /\ pc[t] = "delete"
        /\ pc' = [pc EXCEPT ![t] = "idle"]
        /\ destroyed' = TRUE
        /\ UNCHANGED <<op, rec, isRecording, joinable, terminated>>
    BY <1>8 DEF DeleteBackend, Goto, sync
  <2>2. ~joinable /\ \A u \in Clients : u # t => pc[u] = "idle"
    BY <1>0, <2>1 DEF Phase, Knows
  <2>3. TypeOK' /\ Running'
    BY <2>1, <2>2 DEF Running
  <2>4. ASSUME NEW u \in Clients PROVE Phase(u)' /\ Knows(u)'
    BY <1>0, <2>1, <2>2 DEF Phase, Knows
  <2> QED
    BY <2>3, <2>4
<1>9. CASE EndEdit(t)
  <2>1. /\ pc[t] = "edit"
        /\ pc' = [pc EXCEPT ![t] = "idle"]
        /\ UNCHANGED <<op, rec, isRecording, joinable, terminated, destroyed>>
    BY <1>9 DEF EndEdit, Goto, sync, fate
  <2>2. TypeOK' /\ Running'
    BY <2>1 DEF Running
  <2>3. ASSUME NEW u \in Clients PROVE Phase(u)' /\ Knows(u)'
    BY <1>0, <2>1 DEF Phase, Knows
  <2> QED
    BY <2>2, <2>3
<1> QED
  BY <1>1, <1>2, <1>3, <1>4, <1>5, <1>6, <1>7, <1>8, <1>9 DEF Continue

\* The recording thread clears the flag and is done in one step.
LEMMA RecorderInv ==
  ASSUME PInv, Recorder
  PROVE  PInv'
<1> USE DEF PInv, TypeOK
<1>0. \A u \in Clients : Phase(u) /\ Knows(u)
  OBVIOUS
<1>1. CASE RecClear \/ RecData \/ RecType \/ RecSeal
  <2>1. /\ rec # "off"
        /\ rec' \in {"clear", "data", "type", "seal", "notify"}
        /\ UNCHANGED <<pc, op, isRecording, joinable, terminated, destroyed>>
    BY <1>1 DEF RecClear, RecData, RecType, RecSeal, fate
  <2> QED
    BY <1>0, <2>1 DEF Running, Phase, Knows
<1>2. CASE RecNotify
  <2>1. /\ rec # "off"
        /\ rec' = "off"
        /\ isRecording' = FALSE
        /\ WakeOne(pc)
        /\ UNCHANGED <<op, joinable, terminated, destroyed>>
    BY <1>2 DEF RecNotify, fate
  <2>2. /\ pc' \in [Clients -> PCs]
        /\ \A u \in Clients :
             pc'[u] = pc[u] \/ (pc[u] = "sleep" /\ pc'[u] = "wait")
    BY <2>1, WakeOneMoves
  <2>3. TypeOK' /\ Running'
    BY <2>1, <2>2 DEF Running
  <2>4. ASSUME NEW u \in Clients PROVE Phase(u)' /\ Knows(u)'
    <3>1. pc[u] # "spawn"
      BY <1>0, <2>1 DEF Knows, Running
    <3> QED
      BY <1>0, <2>1, <2>2, <3>1 DEF Phase, Knows
  <2> QED
    BY <2>3, <2>4
<1> QED
  BY <1>1, <1>2 DEF Recorder

\* Every step preserves the protocol invariant when one thread records.
LEMMA ProtocolNext == LoneRecorder /\ PInv /\ [Next]_vars => PInv'
<1> SUFFICES ASSUME LoneRecorder, PInv, [Next]_vars PROVE PInv'
  OBVIOUS
<1>1. ASSUME NEW t \in Clients, Start(t) PROVE PInv'
  BY <1>1, StartInv
<1>2. ASSUME NEW t \in Clients, Continue(t) \/ SpuriousWake(t) PROVE PInv'
  BY <1>2, ContinueInv
<1>3. CASE Recorder
  BY <1>3, RecorderInv
<1>4. CASE ToggleMinimized \/ Finished \/ UNCHANGED vars
  <2>1. UNCHANGED <<pc, op, rec, isRecording, joinable, terminated, destroyed>>
    BY <1>4 DEF ToggleMinimized, Finished, vars, sync, fate
  <2> QED
    BY <2>1 DEF PInv, TypeOK, Phase, Knows, Running
<1> QED
  BY <1>1, <1>2, <1>3, <1>4 DEF Next

\* The protocol invariant holds as long as one thread records.
THEOREM Protocol ==
  ASSUME LoneRecorder
  PROVE  Spec => []PInv
<1>1. Init => PInv
  BY ProtocolInit
<1>2. PInv /\ [Next]_vars => PInv'
  BY ProtocolNext
<1> QED
  BY <1>1, <1>2, PTL DEF Spec

\* m_thread is joined only while it holds a thread and assigned only while it
\* holds none, whatever the other threads play (record(), waitForRecording()), and
\* the recording thread never outlives the backend it works on
\* (~RenderPipeline() joins it first).
THEOREM HandleIsSafe ==
  ASSUME LoneRecorder
  PROVE  Spec => []HandleFollowsRecorder
<1>1. PInv => ThreadHandleSafe
  BY DEF PInv, Knows, ThreadHandleSafe
<1>2. PInv => RecorderWithinLifetime
  BY DEF PInv, Running, RecorderWithinLifetime
<1>3. PInv => HandleFollowsRecorder
  BY <1>1, <1>2 DEF HandleFollowsRecorder
<1> QED
  BY <1>3, Protocol, PTL

\* The control states of the client threads and of the recorder keep their types.
THEOREM ProtocolTypes ==
  ASSUME LoneRecorder
  PROVE  Spec => []TypeOK
<1>1. PInv => TypeOK
  BY DEF PInv
<1> QED
  BY <1>1, Protocol, PTL

-----------------------------------------------------------------------------
(* One thread does everything *)

LInv == PInv /\ PlayExcludesRecorder /\ NeverTerminates

\* With one client thread nothing can start a recording between the wait of
\* play() and its end, and every join and assignment finds the handle right.
LEMMA LoneNext ==
  ASSUME LoneClient, LInv, [Next]_vars
  PROVE  LInv'
<1>1. LoneRecorder
  BY DEF LoneClient, LoneRecorder, Clients
<1>2. PInv'
  BY <1>1, ProtocolNext DEF LInv
<1>3. /\ \A t \in Clients : Phase(t) /\ Knows(t)
      /\ \A s, t \in Clients : s = t
      /\ pc \in [Clients -> PCs]
      /\ rec # "off" => isRecording
      /\ \A t \in Clients : pc[t] \in {"compile", "draw"} => rec = "off"
      /\ ~terminated
  BY DEF LInv, PInv, LoneClient, Running, TypeOK, PlayExcludesRecorder,
         NeverTerminates
<1> USE DEF PlayExcludesRecorder, NeverTerminates
<1>4. ASSUME NEW t \in Clients, Start(t)
      PROVE  (PlayExcludesRecorder /\ NeverTerminates)'
  <2>1. /\ pc'[t] \in {"join?", "wait", "edit"}
        /\ UNCHANGED <<rec, terminated>>
    BY <1>3, <1>4 DEF Start, Record, WaitForRecording, Destroy, BeginEdit, Play,
                      Call, Goto, sync, fate
  <2> QED
    BY <1>3, <2>1
<1>5. ASSUME NEW t \in Clients, Continue(t) \/ SpuriousWake(t)
      PROVE  (PlayExcludesRecorder /\ NeverTerminates)'
  <2>1. CASE WaitForRecordingState(t)
    BY <1>3, <2>1 DEF WaitForRecordingState, sync, fate
  <2>2. CASE SpuriousWake(t) \/ CheckJoinable(t) \/ DeleteBackend(t) \/ EndEdit(t)
    <3>1. UNCHANGED <<rec, terminated>>
      BY <2>2 DEF SpuriousWake, CheckJoinable, DeleteBackend, EndEdit, sync, fate
    <3>2. pc'[t] \in {"wait", "join", "arm", "idle", "delete"}
      BY <1>3, <2>2 DEF SpuriousWake, CheckJoinable, DeleteBackend, EndEdit, Goto,
                        AfterJoin, Phase
    <3> QED
      BY <1>3, <3>1, <3>2
  <2>3. CASE Join(t)
    <3>1. pc[t] = "join" /\ rec' = rec /\ terminated' = ~joinable
          /\ pc'[t] \in {"arm", "idle", "delete"}
      BY <1>3, <2>3 DEF Join, Goto, AfterJoin, Phase
    <3> QED
      BY <1>3, <3>1 DEF Knows
  <2>4. CASE ArmRecording(t)
    <3>1. pc[t] = "arm" /\ WakeOne([pc EXCEPT ![t] = "spawn"])
          /\ UNCHANGED <<rec, terminated>>
      BY <2>4 DEF ArmRecording, fate
    <3>2. [pc EXCEPT ![t] = "spawn"] \in [Clients -> PCs]
      BY <1>3 DEF PCs
    <3>3. pc'[t] = "spawn"
      BY <1>3, <3>1, <3>2, WakeOneMoves
    <3> QED
      BY <1>3, <3>1, <3>3
  <2>5. CASE Spawn(t)
    <3>1. pc[t] = "spawn" /\ terminated' = joinable /\ pc'[t] = "idle"
      BY <1>3, <2>5 DEF Spawn, Goto
    <3> QED
      BY <1>3, <3>1 DEF Knows
  <2>6. CASE Compile(t) \/ Draw(t)
    <3>1. pc[t] \in {"compile", "draw"} /\ rec' = rec /\ terminated' = (rec # "off")
      BY <2>6 DEF Compile, Draw, Goto, sync
    <3> QED
      BY <1>3, <3>1
  <2> QED
    BY <1>5, <2>1, <2>2, <2>3, <2>4, <2>5, <2>6 DEF Continue
<1>6. CASE Recorder
  <2>1. rec # "off" /\ terminated' = terminated
    BY <1>6 DEF Recorder, RecClear, RecData, RecType, RecSeal, RecNotify, fate
  <2>2. \A u \in Clients : pc'[u] = pc[u] \/ pc'[u] = "wait"
    <3>1. CASE RecNotify
      BY <1>3, <3>1, WakeOneMoves DEF RecNotify
    <3>2. CASE ~RecNotify
      BY <1>6, <3>2 DEF Recorder, RecClear, RecData, RecType, RecSeal
    <3> QED
      BY <3>1, <3>2
  <2> QED
    BY <1>2, <1>3, <2>1, <2>2 DEF LInv
<1>7. CASE ToggleMinimized \/ Finished \/ UNCHANGED vars
  BY <1>2, <1>3, <1>7 DEF LInv, ToggleMinimized, Finished, vars, sync, fate
<1> QED
  BY <1>2, <1>4, <1>5, <1>6, <1>7 DEF LInv, Next

\* With one client thread the program never terminates in the pipeline and
\* play() never touches the lists while the recorder writes them, whatever the
\* length of the pipeline and the order of the calls (play(), record()).
THEOREM LoneClientIsSafe ==
  ASSUME LoneClient
  PROVE  Spec => [](PlayExcludesRecorder /\ NeverTerminates)
<1>1. Init => LInv
  <2>1. Init => PlayExcludesRecorder /\ NeverTerminates
    BY DEF Init, PlayExcludesRecorder, NeverTerminates
  <2> QED
    BY <2>1, ProtocolInit DEF LInv
<1>2. LInv /\ [Next]_vars => LInv'
  BY LoneNext
<1>3. LInv => PlayExcludesRecorder /\ NeverTerminates
  BY DEF LInv
<1> QED
  BY <1>1, <1>2, <1>3, PTL DEF Spec

-----------------------------------------------------------------------------
(* notify_one() finds the one who sleeps                                   *)

\* the flag is up from updateRecordingState(true) until the recorder's last step
FlagFollowsRecorder == isRecording => rec # "off" \/ \E t \in Clients : pc[t] = "spawn"

\* somebody is there to wake a thread that sleeps
SleepersAreWoken == \A t \in Clients : pc[t] = "sleep" => rec # "off"

\* A single client never sleeps but while the recorder runs.
LEMMA WakeNext ==
  ASSUME LoneClient, LInv, FlagFollowsRecorder, SleepersAreWoken, [Next]_vars
  PROVE  FlagFollowsRecorder' /\ SleepersAreWoken'
<1>1. /\ \A t \in Clients : Phase(t) /\ Knows(t)
      /\ \A s, t \in Clients : s = t
      /\ pc \in [Clients -> PCs]
      /\ rec # "off" => isRecording
      /\ isRecording \in BOOLEAN
  BY DEF LInv, PInv, LoneClient, Running, TypeOK
<1> USE DEF FlagFollowsRecorder, SleepersAreWoken
<1>2. ASSUME NEW t \in Clients, Start(t)
      PROVE  FlagFollowsRecorder' /\ SleepersAreWoken'
  <2>1. /\ pc[t] = "idle" /\ pc'[t] \in {"join?", "wait", "edit"}
        /\ UNCHANGED <<rec, isRecording>>
    BY <1>1, <1>2 DEF Start, Record, WaitForRecording, Destroy, BeginEdit, Play, Call, Goto, sync
  <2> QED
    BY <1>1, <2>1
<1>3. ASSUME NEW t \in Clients, Continue(t) \/ SpuriousWake(t)
      PROVE  FlagFollowsRecorder' /\ SleepersAreWoken'
  <2>1. CASE WaitForRecordingState(t)
    <3>1. /\ pc[t] = "wait" /\ pc'[t] \in {"sleep", "compile", "join?"}
          /\ pc'[t] = "sleep" => isRecording
          /\ UNCHANGED <<rec, isRecording>>
      BY <1>1, <2>1 DEF WaitForRecordingState, sync
    <3> QED
      BY <1>1, <3>1
  <2>2. CASE ArmRecording(t)
    <3>1. pc[t] = "arm" /\ WakeOne([pc EXCEPT ![t] = "spawn"])
      BY <2>2 DEF ArmRecording
    <3>2. [pc EXCEPT ![t] = "spawn"] \in [Clients -> PCs]
      BY <1>1 DEF PCs
    <3>3. pc'[t] = "spawn"
      BY <1>1, <3>1, <3>2, WakeOneMoves
    <3> QED
      BY <1>1, <3>3
  <2>3. CASE Spawn(t)
    <3>1. rec' = "clear" /\ pc[t] = "spawn" /\ pc'[t] = "idle"
      BY <1>1, <2>3 DEF Spawn, Goto
    <3> QED
      BY <1>1, <3>1
  <2>4. CASE \/ SpuriousWake(t) \/ CheckJoinable(t) \/ Join(t) \/ Compile(t) \/ Draw(t)
             \/ DeleteBackend(t) \/ EndEdit(t)
    <3>1. UNCHANGED <<rec, isRecording>>
      BY <2>4 DEF SpuriousWake, CheckJoinable, Join, Compile, Draw, DeleteBackend, EndEdit, sync
    <3>2. pc[t] # "spawn" /\ pc'[t] # "sleep"
      BY <1>1, <2>4 DEF SpuriousWake, CheckJoinable, Join, Compile, Draw, DeleteBackend, EndEdit,
                        Goto, AfterJoin, Phase
    <3> QED
      BY <1>1, <3>1, <3>2
  <2> QED
    BY <1>3, <2>1, <2>2, <2>3, <2>4 DEF Continue
<1>4. CASE Recorder
  <2>1. CASE RecNotify
    <3>1. isRecording' = FALSE /\ WakeOne(pc)
      BY <2>1 DEF RecNotify
    <3>2. ASSUME NEW t \in Clients, pc'[t] = "sleep" PROVE FALSE
      <4>1. pc[t] = "sleep"
        BY <1>1, <3>1, <3>2, WakeOneMoves
      <4>2. PICK s \in Sleepers : pc' = [pc EXCEPT ![s] = "wait"]
        BY <3>1, <4>1 DEF WakeOne, Sleepers
      <4>3. s = t
        BY <1>1 DEF Sleepers
      <4> QED
        BY <1>1, <3>2, <4>2, <4>3
    <3> QED
      BY <3>1, <3>2
  <2>2. CASE ~RecNotify
    <3>1. rec' # "off" /\ pc' = pc
      BY <1>4, <2>2 DEF Recorder, RecClear, RecData, RecType, RecSeal
    <3> QED
      BY <3>1
  <2> QED
    BY <2>1, <2>2
<1>5. CASE ToggleMinimized \/ Finished \/ UNCHANGED vars
  <2>1. UNCHANGED <<pc, rec, isRecording>>
    BY <1>5 DEF ToggleMinimized, Finished, vars, sync
  <2> QED
    BY <2>1
<1> QED
  BY <1>2, <1>3, <1>4, <1>5 DEF Next

\* With one client thread no wakeup is lost: whenever the thread sleeps in play() or
\* in waitForRecording(), the recorder is still to reach the notify_one() that ends
\* it (updateRecordingState(), waitForRecordingState()).
THEOREM NoWakeupIsLost ==
  ASSUME LoneClient
  PROVE  Spec => []SleepersAreWoken
<1>1. Init => LInv /\ FlagFollowsRecorder /\ SleepersAreWoken
  <2>1. Init => PlayExcludesRecorder /\ NeverTerminates /\ FlagFollowsRecorder /\ SleepersAreWoken
    BY DEF Init, PlayExcludesRecorder, NeverTerminates, FlagFollowsRecorder, SleepersAreWoken
  <2> QED
    BY <2>1, ProtocolInit DEF LInv
<1>2. LInv /\ FlagFollowsRecorder /\ SleepersAreWoken /\ [Next]_vars
        => (LInv /\ FlagFollowsRecorder /\ SleepersAreWoken)'
  BY LoneNext, WakeNext
<1> QED
  BY <1>1, <1>2, PTL DEF Spec

-----------------------------------------------------------------------------
(* What is recorded                                                        *)
(*                                                                         *)
(* execute() reads the payload of a stage and later its type.  That the two *)
(* match needs more than that no edit overlaps the recording: a stage that  *)
(* is between its two writes must not be there when a recording starts,    *)
(* and what an older recording left in m_todo or m_cmdBuff must match too. *)

Entry == Stage \cup {Cleanup, Finalize}

Matches(e) == e.data.tag = e.type

\* the client that is inside an edit knows the stage
EditKnown == editing # 0 <=> \E t \in Clients : pc[t] = "edit"

StagesTyped ==
  /\ stages \in Seq(Stage) /\ Len(stages) = N
  /\ asked \in Seq(Stage) /\ Len(asked) = N
  /\ cmds \in Seq(Stage)
  /\ todo \in Seq(Entry)
  /\ editing \in 0 .. N /\ edits \in 0 .. MaxEdits

\* a stage matches unless it is being edited; a command always does
StagesMatch   == \A i \in 1 .. N : i # editing => Matches(stages[i])
CommandsMatch == \A i \in DOMAIN cmds : Matches(cmds[i])

\* m_todo, inside its cleanup and finalize, and what the recorder has put there
TodoMatches == \A i \in 2 .. Len(todo) - 1 : todo[i] \in Stage /\ Matches(todo[i])
Recording ==
  /\ rec # "off" => editing = 0
  /\ rec \in {"data", "type", "seal"} => /\ Len(todo) >= 1
                                         /\ \A i \in 2 .. Len(todo) : todo[i] = stages[i - 1]
  /\ rec \in {"data", "type"} => Len(todo) <= N
  /\ rec = "type" => copied = stages[Len(todo)].data
  /\ rec = "seal" => Len(todo) = N + 1
  /\ rec = "notify" => /\ Len(todo) = N + 2
                       /\ todo[N + 2] = Finalize
                       /\ \A i \in 2 .. N + 1 : todo[i] = stages[i - 1]

RInv ==
  /\ raced \in BOOLEAN
  /\ raced \/ /\ StagesTyped /\ EditKnown /\ StagesMatch /\ CommandsMatch
              /\ terminated \/ (TodoMatches /\ Recording)

LEMMA RecordingStarts == Init => RInv
<1> SUFFICES ASSUME Init PROVE RInv
  OBVIOUS
<1>1. PICK types \in [1 .. N -> StageTypes] :
        stages = [i \in 1 .. N |-> [type |-> types[i], data |-> [tag |-> types[i], ver |-> 0]]]
  BY DEF Init
<1>2. N \in Nat /\ MaxEdits \in Nat
  BY PipelineAssumption
<1>3. \A i \in 1 .. N : stages[i] \in Stage /\ Matches(stages[i])
  <2> SUFFICES ASSUME NEW i \in 1 .. N PROVE stages[i] \in Stage /\ Matches(stages[i])
    OBVIOUS
  <2>1. stages[i] = [type |-> types[i], data |-> [tag |-> types[i], ver |-> 0]]
    BY <1>1
  <2>2. types[i] \in StageTypes /\ 0 \in 0 .. MaxEdits
    BY <1>2
  <2> QED
    BY <2>1, <2>2 DEF Stage, Payload, Matches
<1>4. stages \in [1 .. N -> Stage] /\ Len(stages) = N
  <2>1. DOMAIN stages = 1 .. N
    BY <1>1
  <2>2. stages = [i \in 1 .. N |-> stages[i]]
    BY <1>1
  <2>3. stages \in [1 .. N -> Stage]
    BY <1>3, <2>1, <2>2
  <2> QED
    BY <1>2, <2>3
<1>5. StagesTyped
  <2>1. stages \in Seq(Stage)
    BY <1>2, <1>4
  <2>2. cmds = <<>> /\ todo = <<>> /\ asked = stages /\ editing = 0 /\ edits = 0
    BY DEF Init
  <2> QED
    BY <1>2, <1>4, <2>1, <2>2 DEF StagesTyped
<1>6. EditKnown /\ StagesMatch /\ CommandsMatch
  BY <1>3 DEF Init, EditKnown, StagesMatch, CommandsMatch
<1>7. TodoMatches /\ Recording
  BY DEF Init, TodoMatches, Recording
<1> QED
  BY <1>5, <1>6, <1>7 DEF Init, RInv

\* The steps that touch neither the lists nor the recorder.
LEMMA ElsewhereRecording ==
  ASSUME RInv, UNCHANGED <<stages, editing, edits, raced, todo, copied, cmds, rec>>,
         asked' = asked \/ asked' = stages,
         \A u \in Clients : pc'[u] = "edit" <=> pc[u] = "edit",
         terminated => terminated'
  PROVE  RInv'
<1> SUFFICES ASSUME ~raced PROVE RInv'
  BY DEF RInv
<1>1. StagesTyped' /\ EditKnown' /\ StagesMatch' /\ CommandsMatch'
  BY DEF RInv, StagesTyped, EditKnown, StagesMatch, CommandsMatch
<1>2. terminated' \/ (TodoMatches' /\ Recording')
  BY DEF RInv, TodoMatches, Recording
<1> QED
  BY <1>1, <1>2 DEF RInv

\* The two steps of an edit, outside a recording.
LEMMA EditRecording ==
  ASSUME LoneRecorder, PInv, RInv, NEW t \in Clients, BeginEdit(t) \/ EndEdit(t), ~raced'
  PROVE  RInv'
<1>1. /\ ~raced /\ raced' = FALSE /\ rec = "off" /\ rec' = "off"
      /\ UNCHANGED <<todo, copied, cmds, asked, terminated>>
  BY DEF BeginEdit, EndEdit, buffer, sync, fate, hist, PInv, TypeOK, RInv
<1>2. /\ StagesTyped /\ EditKnown /\ StagesMatch /\ CommandsMatch
      /\ terminated \/ TodoMatches
      /\ pc \in [Clients -> PCs]
      /\ N \in Nat /\ MaxEdits \in Nat
  BY <1>1, PipelineAssumption DEF RInv, PInv, TypeOK
<1>3. TodoMatches' \/ terminated'
  BY <1>1, <1>2 DEF TodoMatches
<1>4. Recording'
  BY <1>1 DEF Recording
<1>5. CommandsMatch'
  BY <1>1, <1>2 DEF CommandsMatch
<1>6. CASE BeginEdit(t)
  <2>1. /\ editing = 0 /\ edits < MaxEdits /\ edits' = edits + 1
        /\ pc' = [pc EXCEPT ![t] = "edit"]
    BY <1>6 DEF BeginEdit, Call, Goto
  <2>2. PICK i \in 1 .. N, type \in StageTypes :
          editing' = i /\ stages' = [stages EXCEPT ![i].type = type]
    BY <1>6 DEF BeginEdit
  <2>3. stages[i] \in Stage
    BY <1>2 DEF StagesTyped
  <2>4. [stages[i] EXCEPT !.type = type] \in Stage
    BY <2>3 DEF Stage
  <2>8. /\ stages' \in Seq(Stage) /\ Len(stages') = N
        /\ \A j \in 1 .. N : j # i => stages'[j] = stages[j]
    <3>1. stages' = [stages EXCEPT ![i] = [stages[i] EXCEPT !.type = type]]
      BY <2>2
    <3> QED
      BY <1>2, <2>4, <3>1, ExceptSeq DEF StagesTyped
  <2>5. StagesTyped'
    BY <1>1, <1>2, <2>1, <2>2, <2>8 DEF StagesTyped
  <2>6. EditKnown'
    BY <1>2, <2>1, <2>2 DEF EditKnown
  <2>7. StagesMatch'
    BY <1>2, <2>1, <2>2, <2>8 DEF StagesMatch
  <2> QED
    BY <1>1, <1>3, <1>4, <1>5, <2>5, <2>6, <2>7 DEF RInv
<1>7. CASE EndEdit(t)
  <2>1. /\ pc[t] = "edit" /\ pc' = [pc EXCEPT ![t] = "idle"]
        /\ editing' = 0 /\ edits' = edits
        /\ stages' = [stages EXCEPT ![editing].data =
                        [tag |-> stages[editing].type, ver |-> edits]]
    BY <1>7 DEF EndEdit, Goto
  <2>2. \A u \in Clients : pc[u] = "edit" => u = t
    BY <2>1 DEF PInv, Phase, LoneRecorder
  <2>3. editing \in 1 .. N
    BY <1>2, <2>1 DEF StagesTyped, EditKnown
  <2> DEFINE new == [stages[editing] EXCEPT !.data = [tag |-> stages[editing].type, ver |-> edits]]
  <2>4. stages[editing] \in Stage /\ edits \in 0 .. MaxEdits
    BY <1>2, <2>3 DEF StagesTyped
  <2>5. new \in Stage /\ Matches(new)
    BY <2>4 DEF Stage, Payload, Matches
  <2>6. stages' = [stages EXCEPT ![editing] = new]
    BY <2>1
  <2> HIDE DEF new
  <2>7. /\ stages' \in Seq(Stage) /\ Len(stages') = N /\ stages'[editing] = new
        /\ \A j \in 1 .. N : j # editing => stages'[j] = stages[j]
    BY <1>2, <2>3, <2>5, <2>6, ExceptSeq DEF StagesTyped
  <2>8. StagesTyped'
    BY <1>1, <1>2, <2>1, <2>7 DEF StagesTyped
  <2>9. EditKnown'
    BY <1>2, <2>1, <2>2 DEF EditKnown
  <2>10. StagesMatch'
    BY <1>2, <2>5, <2>7 DEF StagesMatch
  <2> QED
    BY <1>1, <1>3, <1>4, <1>5, <2>8, <2>9, <2>10 DEF RInv
<1> QED
  BY <1>6, <1>7

\* A recording starts outside an edit, because its client is the one that edits.
LEMMA SpawnRecording ==
  ASSUME LoneRecorder, PInv, RInv, NEW t \in Clients, Spawn(t)
  PROVE  RInv'
<1>1. /\ pc[t] = "spawn" /\ pc' = [pc EXCEPT ![t] = "idle"] /\ rec' = "clear"
      /\ ~terminated
      /\ UNCHANGED <<stages, editing, edits, raced, todo, copied, cmds, asked>>
  BY DEF Spawn, Goto, pipe, buffer, hist
<1> SUFFICES ASSUME ~raced PROVE RInv'
  BY <1>1 DEF RInv
<1>2. \A u \in Clients : pc[u] # "edit"
  BY <1>1 DEF PInv, Phase, LoneRecorder
<1>3. editing = 0
  BY <1>2 DEF RInv, EditKnown
<1>4. StagesTyped' /\ StagesMatch' /\ CommandsMatch' /\ TodoMatches'
  BY <1>1 DEF RInv, StagesTyped, StagesMatch, CommandsMatch, TodoMatches
<1>5. EditKnown'
  BY <1>1, <1>2, <1>3 DEF EditKnown, PInv, TypeOK
<1>6. Recording'
  BY <1>1, <1>3 DEF Recording
<1> QED
  BY <1>1, <1>4, <1>5, <1>6 DEF RInv

\* the inside of a sequence
LEMMA Inside ==
  ASSUME NEW S, NEW s, NEW n \in Nat, \A i \in 2 .. n - 1 : s[i] \in S
  PROVE  /\ SubSeq(s, 2, n - 1) \in Seq(S)
         /\ Len(SubSeq(s, 2, n - 1)) = IF n >= 2 THEN n - 2 ELSE 0
         /\ \A i \in 1 .. n - 2 : SubSeq(s, 2, n - 1)[i] = s[i + 1]
<1>1. /\ SubSeq(s, 2, n - 1) \in Seq(S)
      /\ Len(SubSeq(s, 2, n - 1)) = IF 2 <= n - 1 THEN n - 1 - 2 + 1 ELSE 0
      /\ \A i \in 1 .. n - 1 - 2 + 1 : SubSeq(s, 2, n - 1)[i] = s[2 + i - 1]
  <2>1. n - 1 \in Int /\ 2 \in Int
    OBVIOUS
  <2> QED
    BY <2>1, SubSeqProperties
<1>2. (IF 2 <= n - 1 THEN n - 1 - 2 + 1 ELSE 0) = IF n >= 2 THEN n - 2 ELSE 0
  OBVIOUS
<1>3. \A i \in 1 .. n - 2 : 2 + i - 1 = i + 1 /\ i \in 1 .. n - 1 - 2 + 1
  OBVIOUS
<1> QED
  BY <1>1, <1>2, <1>3

\* play() turns the inside of m_todo into commands.
LEMMA CompileRecording ==
  ASSUME PInv, RInv, NEW t \in Clients, Compile(t)
  PROVE  RInv'
<1>1. /\ pc[t] = "compile" /\ pc' = [pc EXCEPT ![t] = "draw"]
      /\ ~terminated /\ terminated' = (rec # "off")
      /\ cmds' = cmds \o SubSeq(todo, 2, Len(todo) - 1)
      /\ todo' = <<>>
      /\ UNCHANGED <<stages, editing, edits, raced, asked, rec>>
  BY DEF Compile, Goto, StageEntries, pipe, sync, hist
<1> SUFFICES ASSUME ~raced PROVE RInv'
  BY <1>1 DEF RInv
<1>2. StagesTyped /\ EditKnown /\ StagesMatch /\ CommandsMatch /\ TodoMatches
  BY <1>1 DEF RInv
<1>3. PICK n \in Nat : n = Len(todo)
  BY <1>2 DEF StagesTyped
<1> DEFINE new == SubSeq(todo, 2, n - 1)
<1>4. /\ new \in Seq(Stage)
      /\ \A i \in DOMAIN new : Matches(new[i])
  <2>1. \A i \in 2 .. n - 1 : todo[i] \in Stage
    BY <1>2, <1>3 DEF TodoMatches
  <2>2. /\ new \in Seq(Stage)
        /\ Len(new) = IF n >= 2 THEN n - 2 ELSE 0
        /\ \A i \in 1 .. n - 2 : new[i] = todo[i + 1]
    BY <2>1, Inside
  <2>3. \A i \in 1 .. n - 2 : i + 1 \in 2 .. Len(todo) - 1
    BY <1>3
  <2> HIDE DEF new
  <2>4. DOMAIN new \subseteq 1 .. n - 2
    BY <2>2
  <2> QED
    BY <1>2, <2>2, <2>3, <2>4 DEF TodoMatches
<1> HIDE DEF new
<1>5. cmds' = cmds \o new
  BY <1>1, <1>3 DEF new
<1>6. /\ cmds' \in Seq(Stage)
      /\ \A i \in DOMAIN cmds' : Matches(cmds'[i])
  <2>1. cmds \in Seq(Stage)
    BY <1>2 DEF StagesTyped
  <2>2. /\ cmds \o new \in Seq(Stage)
        /\ Len(cmds \o new) = Len(cmds) + Len(new)
        /\ \A i \in 1 .. Len(cmds) + Len(new) :
             (cmds \o new)[i] = IF i <= Len(cmds) THEN cmds[i] ELSE new[i - Len(cmds)]
    BY <1>4, <2>1, ConcatProperties
  <2>3. \A i \in 1 .. Len(cmds) : Matches(cmds[i])
    BY <1>2, <2>1 DEF CommandsMatch
  <2>4. \A i \in 1 .. Len(new) : Matches(new[i])
    BY <1>4
  <2> QED
    BY <1>4, <1>5, <2>1, <2>2, <2>3, <2>4
<1>7. StagesTyped' /\ StagesMatch' /\ CommandsMatch'
  BY <1>1, <1>2, <1>6 DEF StagesTyped, StagesMatch, CommandsMatch
<1>8. EditKnown'
  BY <1>1, <1>2 DEF EditKnown, PInv, TypeOK
<1>9. TodoMatches'
  BY <1>1 DEF TodoMatches
<1>10. terminated' \/ Recording'
  BY <1>1 DEF RInv, Recording
<1> QED
  BY <1>1, <1>7, <1>8, <1>9, <1>10 DEF RInv

\* The recorder copies the payload and then the type of a stage that nobody edits.
LEMMA RecorderRecording ==
  ASSUME PInv, RInv, Recorder
  PROVE  RInv'
<1>1. /\ rec # "off" /\ ~terminated
      /\ UNCHANGED <<stages, editing, edits, raced, asked, terminated>>
  BY DEF Recorder, RecClear, RecData, RecType, RecSeal, RecNotify, pipe, fate, hist
<1> SUFFICES ASSUME ~raced PROVE RInv'
  BY <1>1 DEF RInv
<1>2. /\ StagesTyped /\ EditKnown /\ StagesMatch /\ CommandsMatch /\ TodoMatches /\ Recording
      /\ editing = 0 /\ N \in Nat
  BY <1>1, PipelineAssumption DEF RInv, Recording
<1>3. \A u \in Clients : pc'[u] = "edit" <=> pc[u] = "edit"
  <2>1. CASE RecNotify
    <3>1. /\ pc \in [Clients -> PCs] /\ WakeOne(pc)
      BY <2>1 DEF RecNotify, PInv, TypeOK
    <3>2. \A u \in Clients : pc'[u] = pc[u] \/ (pc[u] = "sleep" /\ pc'[u] = "wait")
      BY <3>1, WakeOneMoves
    <3> QED
      BY <3>2
  <2>2. CASE ~RecNotify
    BY <2>2 DEF Recorder, RecClear, RecData, RecType, RecSeal
  <2> QED
    BY <2>1, <2>2
<1>4. EditKnown' /\ StagesMatch'
  BY <1>1, <1>2, <1>3 DEF EditKnown, StagesMatch
<1>5. \A i \in 1 .. N : stages[i] \in Stage /\ Matches(stages[i])
  BY <1>2 DEF StagesTyped, StagesMatch
<1>6. SUFFICES StagesTyped' /\ CommandsMatch' /\ TodoMatches' /\ Recording'
  BY <1>1, <1>4 DEF RInv
<1>7. CASE RecClear
  <2>1. /\ cmds' = <<>> /\ todo' = <<Cleanup>>
        /\ rec' = IF N = 0 THEN "seal" ELSE "data"
    BY <1>7 DEF RecClear
  <2>2. Cleanup \in Entry /\ todo' \in Seq(Entry) /\ Len(todo') = 1
    BY <2>1 DEF Entry
  <2>3. StagesTyped' /\ CommandsMatch'
    BY <1>1, <1>2, <2>1, <2>2 DEF StagesTyped, CommandsMatch
  <2>4. TodoMatches' /\ Recording'
    BY <1>1, <1>2, <2>1, <2>2 DEF TodoMatches, Recording
  <2> QED
    BY <2>3, <2>4
<1>8. CASE RecData
  <2>1. /\ rec = "data" /\ rec' = "type" /\ copied' = stages[Len(todo)].data
        /\ UNCHANGED <<todo, cmds>>
    BY <1>8 DEF RecData
  <2>2. StagesTyped' /\ CommandsMatch' /\ TodoMatches'
    BY <1>1, <1>2, <2>1 DEF StagesTyped, CommandsMatch, TodoMatches
  <2>3. Recording'
    BY <1>1, <1>2, <2>1 DEF Recording
  <2> QED
    BY <2>2, <2>3
<1>9. CASE RecType
  <2>1. PICK k \in Nat : k = Len(todo) /\ k \in 1 .. N
    BY <1>2, <1>9 DEF RecType, Recording, StagesTyped
  <2> DEFINE new == [type |-> stages[k].type, data |-> copied]
  <2>2. /\ todo' = Append(todo, new) /\ cmds' = cmds
        /\ rec' = IF k = N THEN "seal" ELSE "data"
    BY <1>9, <2>1 DEF RecType
  <2>3. stages[k] \in Stage /\ copied = stages[k].data
    BY <1>2, <1>5, <1>9, <2>1 DEF RecType, Recording
  <2>4. new = stages[k]
    BY <2>3 DEF Stage
  <2>5. stages[k] \in Entry /\ todo \in Seq(Entry)
    BY <1>2, <2>3 DEF Entry, StagesTyped
  <2> HIDE DEF new
  <2>6. /\ todo' \in Seq(Entry) /\ Len(todo') = k + 1
        /\ \A i \in 1 .. k : todo'[i] = todo[i]
        /\ todo'[k + 1] = stages[k]
    BY <2>1, <2>2, <2>4, <2>5, AppendProperties
  <2>7. \A i \in 2 .. k + 1 : todo'[i] = stages[i - 1]
    <3> SUFFICES ASSUME NEW i \in 2 .. k + 1 PROVE todo'[i] = stages[i - 1]
      OBVIOUS
    <3>1. CASE i = k + 1
      BY <2>1, <2>6, <3>1
    <3>2. CASE i # k + 1
      <4>1. i \in 2 .. Len(todo) /\ i \in 1 .. k
        BY <2>1, <3>2
      <4>2. todo[i] = stages[i - 1]
        BY <1>2, <1>9, <4>1 DEF RecType, Recording
      <4> QED
        BY <2>6, <4>1, <4>2
    <3> QED
      BY <3>1, <3>2
  <2>8. StagesTyped' /\ CommandsMatch'
    BY <1>1, <1>2, <2>2, <2>6 DEF StagesTyped, CommandsMatch
  <2>9. TodoMatches'
    <3> SUFFICES ASSUME NEW i \in 2 .. Len(todo') - 1
                 PROVE  todo'[i] \in Stage /\ Matches(todo'[i])
      BY DEF TodoMatches, Matches
    <3>1. i \in 2 .. k + 1 /\ i - 1 \in 1 .. N
      BY <1>2, <2>1, <2>6
    <3> QED
      BY <1>5, <2>7, <3>1
  <2>10. Recording'
    BY <1>1, <1>2, <2>1, <2>2, <2>6, <2>7 DEF Recording
  <2> QED
    BY <2>8, <2>9, <2>10
<1>10. CASE RecSeal
  <2>1. /\ rec = "seal" /\ rec' = "notify" /\ cmds' = cmds
        /\ todo' = Append(todo, Finalize)
    BY <1>10 DEF RecSeal
  <2>2. Finalize \in Entry /\ todo \in Seq(Entry) /\ Len(todo) = N + 1
    BY <1>2, <2>1 DEF Entry, StagesTyped, Recording
  <2>3. /\ todo' \in Seq(Entry) /\ Len(todo') = N + 2
        /\ \A i \in 1 .. N + 1 : todo'[i] = todo[i]
        /\ todo'[N + 2] = Finalize
    <3>1. /\ todo' \in Seq(Entry) /\ Len(todo') = Len(todo) + 1
          /\ \A i \in 1 .. Len(todo) : todo'[i] = todo[i]
          /\ todo'[Len(todo) + 1] = Finalize
      BY <2>1, <2>2, AppendProperties
    <3>2. N + 1 + 1 = N + 2
      BY <1>2
    <3> QED
      BY <2>2, <3>1, <3>2
  <2>4. \A i \in 2 .. N + 1 : todo'[i] = stages[i - 1]
    <3> SUFFICES ASSUME NEW i \in 2 .. N + 1 PROVE todo'[i] = stages[i - 1]
      OBVIOUS
    <3>1. i \in 1 .. N + 1 /\ i \in 2 .. Len(todo)
      BY <1>2, <2>2
    <3>2. todo[i] = stages[i - 1]
      BY <1>2, <2>1, <3>1 DEF Recording
    <3> QED
      BY <2>3, <3>1, <3>2
  <2>5. StagesTyped' /\ CommandsMatch'
    BY <1>1, <1>2, <2>1, <2>3 DEF StagesTyped, CommandsMatch
  <2>6. TodoMatches'
    <3> SUFFICES ASSUME NEW i \in 2 .. Len(todo') - 1
                 PROVE  todo'[i] \in Stage /\ Matches(todo'[i])
      BY DEF TodoMatches, Matches
    <3>1. i \in 2 .. N + 1 /\ i - 1 \in 1 .. N
      BY <1>2, <2>3
    <3> QED
      BY <1>5, <2>4, <3>1
  <2>7. Recording'
    BY <1>1, <1>2, <2>1, <2>3, <2>4 DEF Recording
  <2> QED
    BY <2>5, <2>6, <2>7
<1>11. CASE RecNotify
  <2>1. rec' = "off" /\ UNCHANGED <<todo, cmds>>
    BY <1>11 DEF RecNotify, buffer
  <2>2. StagesTyped' /\ CommandsMatch' /\ TodoMatches'
    BY <1>1, <1>2, <2>1 DEF StagesTyped, CommandsMatch, TodoMatches
  <2>3. Recording'
    BY <2>1 DEF Recording
  <2> QED
    BY <2>2, <2>3
<1> QED
  BY <1>7, <1>8, <1>9, <1>10, <1>11 DEF Recorder

\* Every step keeps what is recorded whole.
LEMMA RecordingNext ==
  ASSUME LoneRecorder, PInv, RInv, [Next]_vars
  PROVE  RInv'
<1>0. pc \in [Clients -> PCs] /\ raced \in BOOLEAN
  BY DEF PInv, TypeOK, RInv
<1>1. ASSUME NEW t \in Clients, Start(t), ~BeginEdit(t)
      PROVE  RInv'
  <2>1. /\ UNCHANGED <<stages, editing, edits, raced, todo, copied, cmds, rec, terminated>>
        /\ asked' = asked \/ asked' = stages
        /\ \E from \in {"join?", "wait"} : pc[t] = "idle" /\ pc' = [pc EXCEPT ![t] = from]
    BY <1>1 DEF Start, Record, WaitForRecording, Destroy, Play, Call, Goto,
                pipe, buffer, sync, fate, hist
  <2>2. \A u \in Clients : pc'[u] = "edit" <=> pc[u] = "edit"
    BY <1>0, <2>1
  <2> QED
    BY <2>1, <2>2, ElsewhereRecording
<1>2. ASSUME NEW t \in Clients, BeginEdit(t) \/ EndEdit(t)
      PROVE  RInv'
  <2>1. raced' \in BOOLEAN
    BY <1>0, <1>2 DEF BeginEdit, EndEdit
  <2>2. CASE raced'
    BY <2>1, <2>2 DEF RInv
  <2>3. CASE ~raced'
    BY <1>2, <2>3, EditRecording
  <2> QED
    BY <2>2, <2>3
<1>3. ASSUME NEW t \in Clients,
             \/ WaitForRecordingState(t) \/ SpuriousWake(t) \/ CheckJoinable(t)
             \/ Join(t) \/ Draw(t) \/ DeleteBackend(t)
      PROVE  RInv'
  <2>1. /\ UNCHANGED <<stages, editing, edits, raced, todo, copied, cmds, rec, asked>>
        /\ terminated => terminated'
    BY <1>3 DEF WaitForRecordingState, SpuriousWake, CheckJoinable, Join, Draw, DeleteBackend,
                pipe, buffer, sync, fate, hist
  <2>2. \E to \in {"wait", "sleep", "compile", "join?", "join", "arm", "idle", "delete"} :
           pc[t] # "edit" /\ pc' = [pc EXCEPT ![t] = to]
    <3>1. pc[t] \in {"join?", "join"} => AfterJoin(t) \in {"arm", "idle", "delete"}
      BY DEF PInv, Phase, AfterJoin
    <3> QED
      BY <1>3, <3>1 DEF WaitForRecordingState, SpuriousWake, CheckJoinable, Join, Draw,
                        DeleteBackend, Goto
  <2>3. \A u \in Clients : pc'[u] = "edit" <=> pc[u] = "edit"
    BY <1>0, <2>2
  <2> QED
    BY <2>1, <2>3, ElsewhereRecording
<1>4. ASSUME NEW t \in Clients, ArmRecording(t)
      PROVE  RInv'
  <2> DEFINE ctl == [pc EXCEPT ![t] = "spawn"]
  <2>1. /\ pc[t] = "arm" /\ WakeOne(ctl)
        /\ UNCHANGED <<stages, editing, edits, raced, todo, copied, cmds, rec, asked, terminated>>
    BY <1>4 DEF ArmRecording, pipe, buffer, fate, hist
  <2>2. ctl \in [Clients -> PCs]
    BY <1>0 DEF PCs
  <2>3. \A u \in Clients : pc'[u] = ctl[u] \/ (pc[u] = "sleep" /\ pc'[u] = "wait")
    BY <2>1, <2>2, WakeOneMoves
  <2>4. \A u \in Clients : pc'[u] = "edit" <=> pc[u] = "edit"
    BY <1>0, <2>1, <2>3
  <2> QED
    BY <2>1, <2>4, ElsewhereRecording
<1>5. ASSUME NEW t \in Clients, Spawn(t)
      PROVE  RInv'
  BY <1>5, SpawnRecording
<1>6. ASSUME NEW t \in Clients, Compile(t)
      PROVE  RInv'
  BY <1>6, CompileRecording
<1>7. CASE Recorder
  BY <1>7, RecorderRecording
<1>8. CASE ToggleMinimized \/ Finished \/ UNCHANGED vars
  <2>1. UNCHANGED <<stages, editing, edits, raced, todo, copied, cmds, rec, asked, terminated, pc>>
    BY <1>8 DEF ToggleMinimized, Finished, vars, pipe, buffer, sync, fate, hist
  <2> QED
    BY <2>1, ElsewhereRecording
<1> QED
  BY <1>1, <1>2, <1>3, <1>4, <1>5, <1>6, <1>7, <1>8 DEF Next, Start, Continue

\* No command holds the type of one stage and the payload of another, unless an
\* edit overlapped a recording (execute(), getStage()): for pipelines of any
\* length, whoever plays, when one thread edits and records.
THEOREM CommandsAreWhole ==
  ASSUME LoneRecorder
  PROVE  Spec => []NoTornCommand
<1>1. Init => PInv /\ RInv
  BY ProtocolInit, RecordingStarts
<1>2. PInv /\ RInv /\ [Next]_vars => (PInv /\ RInv)'
  BY ProtocolNext, RecordingNext
<1>3. RInv => NoTornCommand
  BY DEF RInv, NoTornCommand, CommandsMatch, Matches
<1> QED
  BY <1>1, <1>2, <1>3, PTL DEF Spec

-----------------------------------------------------------------------------
(* What is drawn, with one client thread                                   *)

InRecord(t) == op[t] = "record" /\ pc[t] # "idle"

\* m_todo holds a whole recording of the stages as they were asked for
Full ==
  /\ Len(todo) = N + 2
  /\ todo[N + 2] = Finalize
  /\ \A i \in 2 .. N + 1 : todo[i] = asked[i - 1]

\* after a recording: it is still in m_todo, or has become the commands
Outcome ==
  \/ records = 0 /\ todo = <<>> /\ cmds = <<>> /\ recorded = FALSE
  \/ records > 0 /\ todo = <<>> /\ cmds = asked /\ recorded = TRUE
  \/ records > 0 /\ Full /\ cmds = <<>> /\ recorded = FALSE

Newest ==
  /\ \A t \in Clients : InRecord(t) => asked = stages /\ records > 0
  /\ rec # "off" => asked = stages /\ records > 0
  /\ rec \in {"data", "type", "seal", "notify"} => cmds = <<>> /\ recorded = FALSE
  /\ (rec = "off" /\ \A t \in Clients : ~InRecord(t)) => Outcome
  /\ \A t \in Clients : pc[t] = "draw" => todo = <<>>

DInv == LInv /\ RInv /\ records \in Nat /\ (raced \/ Newest)

\* The steps that leave the lists, the stages and the recorder alone.
LEMMA ElsewhereNewest ==
  ASSUME Newest,
         UNCHANGED <<stages, asked, records, todo, cmds, recorded, rec>>,
         \A u \in Clients : /\ InRecord(u)' <=> InRecord(u)
                            /\ pc'[u] = "draw" => pc[u] = "draw"
  PROVE  Newest'
<1>1. Outcome' <=> Outcome
  BY DEF Outcome, Full
<1> QED
  BY <1>1 DEF Newest

\* play() makes the commands of the newest recording, once.
LEMMA CompileNewest ==
  ASSUME LoneClient, DInv, ~raced, NEW t \in Clients, Compile(t)
  PROVE  Newest'
<1>1. /\ pc[t] = "compile" /\ pc' = [pc EXCEPT ![t] = "draw"]
      /\ cmds' = cmds \o SubSeq(todo, 2, Len(todo) - 1)
      /\ recorded' = (recorded \/ Contains(todo, Finalize))
      /\ todo' = <<>>
      /\ UNCHANGED <<stages, asked, records, rec, op>>
  BY DEF Compile, Goto, StageEntries, pipe, sync, hist
<1>2. /\ rec = "off"
      /\ \A u \in Clients : u = t /\ ~InRecord(u) /\ ~InRecord(u)'
      /\ Newest /\ StagesTyped /\ N \in Nat
  BY <1>1, PipelineAssumption
     DEF DInv, RInv, LInv, PInv, Phase, PlayExcludesRecorder, LoneClient, InRecord
<1>3. Outcome
  BY <1>2 DEF Newest
<1>4. CASE todo = <<>>
  <2>1. SubSeq(todo, 2, Len(todo) - 1) = <<>>
    <3>1. PICK k \in Int : k = Len(todo) - 1 /\ k < 2 /\ 2 \in Int
      BY <1>4
    <3>2. SubSeq(todo, 2, k) = <<>>
      BY <3>1, SubSeqEmpty
    <3> QED
      BY <3>1, <3>2
  <2>2. cmds' = cmds
    <3>1. cmds' = cmds \o <<>> /\ cmds \in Seq(Stage)
      BY <1>1, <1>2, <2>1 DEF StagesTyped
    <3> QED
      BY <3>1, ConcatEmptySeq
  <2>3. ~Contains(todo, Finalize)
    BY <1>4 DEF Contains
  <2>4. ~Full
    BY <1>2, <1>4 DEF Full
  <2>5. Outcome'
    <3>1. CASE records = 0 /\ cmds = <<>> /\ recorded = FALSE
      BY <1>1, <2>2, <2>3, <3>1 DEF Outcome
    <3>2. CASE records > 0 /\ cmds = asked /\ recorded = TRUE
      BY <1>1, <2>2, <3>2 DEF Outcome
    <3> QED
      BY <1>3, <2>4, <3>1, <3>2 DEF Outcome
  <2> QED
    BY <1>1, <1>2, <2>5 DEF Newest
<1>5. CASE todo # <<>>
  <2>1. records > 0 /\ Full /\ cmds = <<>>
    BY <1>3, <1>5 DEF Outcome
  <2> DEFINE new == SubSeq(todo, 2, (N + 2) - 1)
  <2>2. \A i \in 2 .. (N + 2) - 1 : todo[i] = asked[i - 1] /\ todo[i] \in Stage
    <3> SUFFICES ASSUME NEW i \in 2 .. (N + 2) - 1
                 PROVE  todo[i] = asked[i - 1] /\ todo[i] \in Stage
      OBVIOUS
    <3>1. i \in 2 .. N + 1 /\ i - 1 \in 1 .. N
      BY <1>2
    <3>2. asked[i - 1] \in Stage
      BY <1>2, <3>1 DEF StagesTyped
    <3> QED
      BY <2>1, <3>1, <3>2 DEF Full
  <2>3. /\ new \in Seq(Stage)
        /\ Len(new) = IF N + 2 >= 2 THEN (N + 2) - 2 ELSE 0
        /\ \A i \in 1 .. (N + 2) - 2 : new[i] = todo[i + 1]
    <3>1. N + 2 \in Nat
      BY <1>2
    <3> QED
      BY <2>2, <3>1, Inside
  <2>4. new = asked
    <3>1. asked \in Seq(Stage) /\ Len(asked) = N /\ Len(new) = N
      BY <1>2, <2>3 DEF StagesTyped
    <3>2. \A i \in 1 .. N : new[i] = asked[i]
      <4> SUFFICES ASSUME NEW i \in 1 .. N PROVE new[i] = asked[i]
        OBVIOUS
      <4>1. i \in 1 .. (N + 2) - 2 /\ i + 1 \in 2 .. (N + 2) - 1 /\ (i + 1) - 1 = i
        BY <1>2
      <4> HIDE DEF new
      <4> QED
        BY <2>2, <2>3, <4>1
    <3> HIDE DEF new
    <3> QED
      BY <2>3, <3>1, <3>2
  <2>5. cmds' = asked
    <3>1. cmds' = <<>> \o new
      BY <1>1, <2>1 DEF Full
    <3> HIDE DEF new
    <3> QED
      BY <1>2, <2>4, <3>1 DEF StagesTyped
  <2>6. recorded' = TRUE
    <3>1. N + 2 \in 1 .. Len(todo) /\ todo[N + 2] = Finalize
      BY <1>2, <2>1 DEF Full
    <3>2. Contains(todo, Finalize)
      BY <3>1 DEF Contains
    <3> QED
      BY <1>1, <3>2
  <2>7. Outcome'
    BY <1>1, <2>1, <2>5, <2>6 DEF Outcome
  <2> QED
    BY <1>1, <1>2, <2>7 DEF Newest
<1> QED
  BY <1>4, <1>5

\* Every step keeps it, unless it is the first to race.
LEMMA NewestNext ==
  ASSUME LoneClient, DInv, [Next]_vars
  PROVE  DInv'
<1>1. LoneRecorder
  BY DEF LoneClient, LoneRecorder, Clients
<1>2. LInv' /\ RInv'
  BY <1>1, LoneNext, RecordingNext DEF DInv, LInv
<1>3. records' \in Nat /\ raced' \in BOOLEAN /\ (raced => raced')
  <2>1. records' = records \/ records' = records + 1
    BY DEF Next, Start, Continue, Recorder, Record, WaitForRecording, Destroy, BeginEdit, Play,
           WaitForRecordingState, SpuriousWake, CheckJoinable, Join, ArmRecording, Spawn, Compile,
           Draw, DeleteBackend, EndEdit, RecClear, RecData, RecType, RecSeal, RecNotify,
           ToggleMinimized, Finished, vars, hist
  <2>2. raced => raced'
    BY DEF Next, Start, Continue, Recorder, Record, WaitForRecording, Destroy, BeginEdit, Play,
           WaitForRecordingState, SpuriousWake, CheckJoinable, Join, ArmRecording, Spawn, Compile,
           Draw, DeleteBackend, EndEdit, RecClear, RecData, RecType, RecSeal, RecNotify,
           ToggleMinimized, Finished, vars, pipe
  <2> QED
    BY <1>2, <2>1, <2>2 DEF DInv, RInv
<1> SUFFICES ASSUME ~raced, ~raced' PROVE Newest'
  BY <1>2, <1>3 DEF DInv
<1>4. /\ Newest /\ PInv /\ PlayExcludesRecorder /\ StagesTyped /\ records \in Nat /\ ~terminated
      /\ \A s, t \in Clients : s = t
      /\ \A t \in Clients : Phase(t)
      /\ pc \in [Clients -> PCs] /\ op \in [Clients -> Ops]
  BY DEF DInv, LInv, RInv, PInv, TypeOK, LoneClient, NeverTerminates
<1>5. ASSUME NEW t \in Clients, Record(t)
      PROVE  Newest'
  <2>1. /\ pc' = [pc EXCEPT ![t] = "join?"] /\ op' = [op EXCEPT ![t] = "record"]
        /\ asked' = stages /\ records' = records + 1
        /\ UNCHANGED <<stages, todo, cmds, recorded, rec>>
    BY <1>5 DEF Record, Call, Goto, pipe, buffer, sync
  <2>2. \A u \in Clients : InRecord(u)' /\ pc'[u] = "join?"
    BY <1>4, <2>1 DEF InRecord
  <2>3. records' > 0
    BY <1>4, <2>1
  <2> QED
    BY <1>4, <1>5, <2>1, <2>2, <2>3 DEF Newest
<1>6. ASSUME NEW t \in Clients, WaitForRecording(t) \/ Destroy(t) \/ Play(t)
      PROVE  Newest'
  <2>1. /\ UNCHANGED <<stages, asked, records, todo, cmds, recorded, rec>>
        /\ pc[t] = "idle" /\ op'[t] \in {"await", "destroy", "play"}
        /\ pc'[t] \in {"wait", "join?"}
    BY <1>4, <1>6 DEF WaitForRecording, Destroy, Play, Call, Goto, pipe, buffer, sync, hist
  <2>2. \A u \in Clients : (InRecord(u)' <=> InRecord(u)) /\ (pc'[u] = "draw" => pc[u] = "draw")
    BY <1>4, <2>1 DEF InRecord
  <2> QED
    BY <1>4, <2>1, <2>2, ElsewhereNewest
<1>7. ASSUME NEW t \in Clients, BeginEdit(t) \/ EndEdit(t)
      PROVE  Newest'
  <2>1. /\ UNCHANGED <<asked, records, todo, cmds, recorded, rec>>
        /\ pc[t] \in {"idle", "edit"} /\ pc'[t] \in {"idle", "edit"}
        /\ rec = "off"
        /\ op'[t] = "edit"
    BY <1>4, <1>7 DEF BeginEdit, EndEdit, Call, Goto, Phase, buffer, sync, hist
  <2>2. \A u \in Clients : ~InRecord(u)' /\ ~InRecord(u) /\ pc'[u] # "draw"
    BY <1>4, <2>1 DEF InRecord, Phase
  <2>3. Outcome' <=> Outcome
    BY <2>1 DEF Outcome, Full
  <2> QED
    BY <1>4, <2>1, <2>2, <2>3 DEF Newest
<1>8. ASSUME NEW t \in Clients,
             \/ WaitForRecordingState(t) \/ SpuriousWake(t) \/ CheckJoinable(t)
             \/ Join(t) \/ Draw(t) \/ DeleteBackend(t)
      PROVE  Newest'
  <2>1. UNCHANGED <<stages, asked, records, todo, cmds, recorded, rec, op>>
    BY <1>8 DEF WaitForRecordingState, SpuriousWake, CheckJoinable, Join, Draw, DeleteBackend,
                pipe, buffer, sync, hist
  <2>2. /\ pc'[t] # "draw" /\ (op[t] = "record" => pc[t] # "idle" /\ pc'[t] # "idle")
    <3>1. pc[t] \in {"join?", "join"} =>
            \/ op[t] = "record" /\ AfterJoin(t) = "arm"
            \/ op[t] # "record" /\ AfterJoin(t) \in {"idle", "delete"}
      BY <1>4 DEF Phase, AfterJoin
    <3> QED
      BY <1>4, <1>8, <3>1 DEF WaitForRecordingState, SpuriousWake, CheckJoinable, Join, Draw,
                              DeleteBackend, Goto, Phase
  <2>3. \A u \in Clients : (InRecord(u)' <=> InRecord(u)) /\ (pc'[u] = "draw" => pc[u] = "draw")
    BY <1>4, <2>1, <2>2 DEF InRecord
  <2> QED
    BY <1>4, <2>1, <2>3, ElsewhereNewest
<1>9. ASSUME NEW t \in Clients, ArmRecording(t)
      PROVE  Newest'
  <2> DEFINE ctl == [pc EXCEPT ![t] = "spawn"]
  <2>1. /\ pc[t] = "arm" /\ WakeOne(ctl)
        /\ UNCHANGED <<stages, asked, records, todo, cmds, recorded, rec, op>>
    BY <1>9 DEF ArmRecording, pipe, buffer, hist
  <2>2. ctl \in [Clients -> PCs]
    BY <1>4 DEF PCs
  <2>3. \A u \in Clients : pc'[u] = ctl[u] \/ (pc[u] = "sleep" /\ pc'[u] = "wait")
    BY <2>1, <2>2, WakeOneMoves
  <2>4. \A u \in Clients : (InRecord(u)' <=> InRecord(u)) /\ (pc'[u] = "draw" => pc[u] = "draw")
    BY <1>4, <2>1, <2>3 DEF InRecord
  <2> QED
    BY <1>4, <2>1, <2>4, ElsewhereNewest
<1>10. ASSUME NEW t \in Clients, Spawn(t)
       PROVE  Newest'
  <2>1. /\ pc[t] = "spawn" /\ pc' = [pc EXCEPT ![t] = "idle"] /\ rec' = "clear"
        /\ UNCHANGED <<stages, asked, records, todo, cmds, recorded, op>>
    BY <1>10 DEF Spawn, Goto, pipe, buffer, hist
  <2>2. InRecord(t) /\ \A u \in Clients : ~InRecord(u)' /\ pc'[u] = "idle"
    BY <1>4, <2>1 DEF Phase, InRecord
  <2> QED
    BY <1>4, <2>1, <2>2 DEF Newest
<1>11. ASSUME NEW t \in Clients, Compile(t)
       PROVE  Newest'
  BY <1>11, CompileNewest
<1>12. CASE Recorder
  <2>1. /\ rec # "off" /\ UNCHANGED <<stages, asked, records, op>>
        /\ asked = stages /\ records > 0
    BY <1>4, <1>12
       DEF Newest, Recorder, RecClear, RecData, RecType, RecSeal, RecNotify, pipe, hist
  <2>2. \A u \in Clients : pc[u] # "draw"
    BY <1>4, <2>1 DEF PlayExcludesRecorder
  <2>3. CASE ~RecNotify
    <3>1. /\ rec' \in {"data", "type", "seal", "notify"} /\ pc' = pc
          /\ cmds' = <<>> /\ recorded' = FALSE
      BY <1>4, <1>12, <2>3 DEF Newest, Recorder, RecClear, RecData, RecType, RecSeal
    <3> QED
      BY <2>1, <2>2, <3>1 DEF Newest
  <2>4. CASE RecNotify
    <3>1. rec = "notify" /\ rec' = "off" /\ WakeOne(pc) /\ UNCHANGED <<todo, cmds, recorded>>
      BY <2>4 DEF RecNotify, buffer
    <3>2. \A u \in Clients : pc'[u] = pc[u] \/ (pc[u] = "sleep" /\ pc'[u] = "wait")
      BY <1>4, <3>1, WakeOneMoves
    <3>3. cmds = <<>> /\ recorded = FALSE /\ Full
      BY <1>4, <2>1, <3>1 DEF Newest, DInv, RInv, Recording, Full
    <3>4. Outcome'
      BY <2>1, <3>1, <3>3 DEF Outcome, Full
    <3> QED
      BY <2>1, <2>2, <3>1, <3>2, <3>4 DEF Newest
  <2> QED
    BY <2>3, <2>4
<1>13. CASE ToggleMinimized \/ Finished \/ UNCHANGED vars
  <2>1. UNCHANGED <<stages, asked, records, todo, cmds, recorded, rec, pc, op>>
    BY <1>13 DEF ToggleMinimized, Finished, vars, pipe, buffer, sync, hist
  <2> QED
    BY <1>4, <2>1, ElsewhereNewest DEF InRecord
<1> QED
  BY <1>5, <1>6, <1>7, <1>8, <1>9, <1>10, <1>11, <1>12, <1>13 DEF Next, Start, Continue

\* The frame that a call of play() ends with executes the newest recording.
LEMMA NewestIsDrawn ==
  ASSUME LoneClient, DInv, NEW t \in Clients, Draw(t), ~raced
  PROVE  executed' = IF minimized \/ records = 0 THEN <<>> ELSE asked
<1>1. pc[t] = "draw" /\ executed' = IF minimized \/ ~recorded THEN <<>> ELSE cmds
  BY DEF Draw, Goto
<1>2. todo = <<>> /\ rec = "off" /\ N \in Nat
  BY <1>1, PipelineAssumption
     DEF DInv, RInv, Newest, LInv, PlayExcludesRecorder
<1>3. \A u \in Clients : ~InRecord(u)
  BY <1>1 DEF DInv, LInv, PInv, Phase, LoneClient, InRecord
<1>4. Outcome /\ ~Full
  BY <1>2, <1>3 DEF DInv, Newest, Full
<1>5. CASE records = 0 /\ recorded = FALSE
  BY <1>1, <1>5
<1>6. CASE records > 0 /\ cmds = asked /\ recorded = TRUE
  BY <1>1, <1>6 DEF DInv
<1> QED
  BY <1>4, <1>5, <1>6 DEF Outcome

-----------------------------------------------------------------------------
(* The protocol implements the pipeline that RecordedPipeline promises     *)

\* The list of stages keeps its shape even where edits and recordings overlap.
Shaped ==
  /\ stages \in [1 .. N -> Stage]
  /\ editing \in 0 .. N /\ edits \in 0 .. MaxEdits
  /\ EditKnown

\* a call of play() is on its way
Playing == \E t \in Clients : op[t] = "play" /\ pc[t] # "idle"

\* Each of the two writes of an edit puts a stage into one place of the list.
LEMMA EditWrites ==
  ASSUME LoneClient, PInv, Shaped, NEW t \in Clients, BeginEdit(t) \/ EndEdit(t)
  PROVE  /\ Shaped'
         /\ \E i \in 1 .. N, stage \in Stage : stages' = [stages EXCEPT ![i] = stage]
<1>1. /\ stages \in [1 .. N -> Stage] /\ EditKnown
      /\ editing \in 0 .. N /\ edits \in 0 .. MaxEdits
      /\ pc \in [Clients -> PCs] /\ \A u \in Clients : u = t
      /\ N \in Nat /\ MaxEdits \in Nat
  BY PipelineAssumption DEF Shaped, PInv, TypeOK, LoneClient
<1>2. CASE BeginEdit(t)
  <2>1. PICK i \in 1 .. N, type \in StageTypes :
          editing' = i /\ stages' = [stages EXCEPT ![i].type = type]
    BY <1>2 DEF BeginEdit
  <2> DEFINE new == [stages[i] EXCEPT !.type = type]
  <2>2. new \in Stage
    BY <1>1 DEF Stage
  <2>3. stages' = [stages EXCEPT ![i] = new]
    BY <2>1
  <2>4. /\ edits < MaxEdits /\ edits' = edits + 1
        /\ pc' = [pc EXCEPT ![t] = "edit"]
    BY <1>2 DEF BeginEdit, Call, Goto
  <2>5. EditKnown'
    BY <1>1, <2>1, <2>4 DEF EditKnown
  <2> HIDE DEF new
  <2>6. stages' \in [1 .. N -> Stage]
    BY <1>1, <2>2, <2>3
  <2>7. editing' \in 0 .. N /\ edits' \in 0 .. MaxEdits
    BY <1>1, <2>1, <2>4
  <2> QED
    BY <2>2, <2>3, <2>5, <2>6, <2>7 DEF Shaped
<1>3. CASE EndEdit(t)
  <2>1. /\ pc[t] = "edit" /\ pc' = [pc EXCEPT ![t] = "idle"]
        /\ editing' = 0 /\ edits' = edits
        /\ stages' = [stages EXCEPT ![editing].data =
                        [tag |-> stages[editing].type, ver |-> edits]]
    BY <1>3 DEF EndEdit, Goto
  <2>2. editing \in 1 .. N
    BY <1>1, <2>1 DEF EditKnown
  <2> DEFINE new == [stages[editing] EXCEPT !.data = [tag |-> stages[editing].type, ver |-> edits]]
  <2>3. new \in Stage
    BY <1>1, <2>2 DEF Stage, Payload
  <2>4. stages' = [stages EXCEPT ![editing] = new]
    BY <2>1
  <2>5. EditKnown'
    BY <1>1, <2>1 DEF EditKnown
  <2> HIDE DEF new
  <2>6. stages' \in [1 .. N -> Stage]
    BY <1>1, <2>2, <2>3, <2>4
  <2>7. editing' \in 0 .. N /\ edits' \in 0 .. MaxEdits
    BY <1>1, <2>1
  <2> QED
    BY <2>2, <2>3, <2>4, <2>5, <2>6, <2>7 DEF Shaped
<1> QED
  BY <1>2, <1>3

\* What a step of a client does to the list, seen from outside of the pipeline.
LEMMA ClientSteps ==
  ASSUME LoneClient, DInv, Shaped, NEW t \in Clients,
         Start(t) \/ Continue(t) \/ SpuriousWake(t)
  PROVE  /\ Shaped'
         /\ [Promised!PNext]_(Promised!pvars)
<1>1. /\ PInv /\ records \in Nat /\ raced \in BOOLEAN
      /\ \A u \in Clients : u = t
      /\ Phase(t)
      /\ pc \in [Clients -> PCs] /\ op \in [Clients -> Ops]
  BY DEF DInv, LInv, RInv, PInv, TypeOK, LoneClient
<1>2. /\ Playing <=> (op[t] = "play" /\ pc[t] # "idle")
      /\ Playing' <=> (op'[t] = "play" /\ pc'[t] # "idle")
  BY <1>1 DEF Playing
<1>3. ASSUME UNCHANGED <<stages, editing, edits>>, pc'[t] = "edit" <=> pc[t] = "edit"
      PROVE  Shaped'
  BY <1>1, <1>3 DEF Shaped, EditKnown
<1>4. ASSUME UNCHANGED <<stages, asked, records, executed, minimized, raced>>, Playing' <=> Playing
      PROVE  UNCHANGED Promised!pvars
  BY <1>4 DEF Promised!pvars, Playing
<1>5. CASE Record(t)
  <2>1. /\ pc[t] = "idle" /\ pc'[t] = "join?" /\ op'[t] = "record"
        /\ asked' = stages /\ records' = records + 1
        /\ UNCHANGED <<stages, editing, edits, raced, executed, minimized>>
    BY <1>1, <1>5 DEF Record, Call, Goto, pipe, world
  <2>2. records' # 0 /\ ~Playing /\ ~Playing'
    BY <1>1, <1>2, <2>1
  <2>3. Promised!Record
    BY <2>1, <2>2 DEF Promised!Record, Playing
  <2> QED
    BY <1>3, <2>1, <2>3 DEF Promised!PNext
<1>6. CASE WaitForRecording(t) \/ Destroy(t)
  <2>1. /\ pc[t] = "idle" /\ pc'[t] \in {"join?", "wait"} /\ op'[t] \in {"await", "destroy"}
        /\ UNCHANGED <<stages, editing, edits, raced, asked, records, executed, minimized>>
    BY <1>1, <1>6 DEF WaitForRecording, Destroy, Call, Goto, pipe, world, hist
  <2>2. ~Playing /\ ~Playing'
    BY <1>2, <2>1
  <2> QED
    BY <1>3, <1>4, <2>1, <2>2
<1>7. CASE Play(t)
  <2>1. /\ pc[t] = "idle" /\ pc'[t] = "wait" /\ op'[t] = "play"
        /\ UNCHANGED <<stages, editing, edits, raced, asked, records, executed, minimized>>
    BY <1>1, <1>7 DEF Play, Call, Goto, pipe, world, hist
  <2>2. ~Playing /\ Playing'
    BY <1>2, <2>1
  <2>3. Promised!Play
    BY <2>1, <2>2 DEF Promised!Play, Playing
  <2> QED
    BY <1>3, <2>1, <2>3 DEF Promised!PNext
<1>8. CASE BeginEdit(t) \/ EndEdit(t)
  <2>1. /\ op'[t] = "edit" /\ (pc[t] = "idle" \/ op[t] = "edit")
        /\ raced' \in {raced, TRUE}
        /\ UNCHANGED <<asked, records, executed, minimized>>
    BY <1>1, <1>8 DEF BeginEdit, EndEdit, Call, Goto, Phase, world, hist
  <2>2. ~Playing /\ ~Playing'
    BY <1>2, <2>1
  <2>3. PICK i \in 1 .. N, stage \in Stage : stages' = [stages EXCEPT ![i] = stage]
    BY <1>1, <1>8, EditWrites
  <2>4. Promised!Edit(i, stage)
    BY <2>1, <2>2, <2>3 DEF Promised!Edit, Playing
  <2> QED
    BY <1>1, <1>8, <2>4, EditWrites DEF Promised!PNext
<1>9. CASE Draw(t)
  <2>1. /\ pc[t] = "draw" /\ pc'[t] = "idle" /\ op[t] = "play"
        /\ UNCHANGED <<stages, editing, edits, raced, asked, records, minimized>>
    BY <1>1, <1>9 DEF Draw, Goto, Phase, pipe, hist
  <2>2. Playing /\ ~Playing'
    BY <1>2, <2>1
  <2>3. raced \/ executed' = IF minimized THEN <<>> ELSE IF records = 0 THEN <<>> ELSE asked
    BY <1>9, NewestIsDrawn
  <2>4. Promised!Show
    BY <2>1, <2>2, <2>3 DEF Promised!Show, Playing
  <2> QED
    BY <1>3, <2>1, <2>4 DEF Promised!PNext
<1>10. CASE \/ WaitForRecordingState(t) \/ SpuriousWake(t) \/ CheckJoinable(t) \/ Join(t)
            \/ Spawn(t) \/ Compile(t) \/ DeleteBackend(t)
  <2>1. UNCHANGED <<stages, editing, edits, raced, asked, records, executed, minimized, op>>
    BY <1>10 DEF WaitForRecordingState, SpuriousWake, CheckJoinable, Join, Spawn, Compile,
                 DeleteBackend, pipe, world, hist
  <2>2. /\ pc[t] # "edit" /\ pc'[t] # "edit"
        /\ op[t] = "play" => pc[t] # "idle" /\ pc'[t] # "idle"
    BY <1>1, <1>10
       DEF WaitForRecordingState, SpuriousWake, CheckJoinable, Join, Spawn, Compile,
           DeleteBackend, Goto, AfterJoin, Phase
  <2> QED
    BY <1>2, <1>3, <1>4, <2>1, <2>2
<1>11. CASE ArmRecording(t)
  <2>1. /\ pc[t] = "arm" /\ WakeOne([pc EXCEPT ![t] = "spawn"])
        /\ UNCHANGED <<stages, editing, edits, raced, asked, records, executed, minimized, op>>
    BY <1>11 DEF ArmRecording, pipe, world, hist
  <2>2. [pc EXCEPT ![t] = "spawn"] \in [Clients -> PCs]
    BY <1>1 DEF PCs
  <2>3. pc'[t] = "spawn" /\ op[t] = "record"
    BY <1>1, <2>1, <2>2, WakeOneMoves DEF Phase
  <2> QED
    BY <1>2, <1>3, <1>4, <2>1, <2>3
<1> QED
  BY <1>5, <1>6, <1>7, <1>8, <1>9, <1>10, <1>11 DEF Start, Continue

\* The recorder works out of the client's sight, and the window may be minimized.
LEMMA OtherSteps ==
  ASSUME LoneClient, DInv, Shaped, Recorder \/ ToggleMinimized \/ Finished \/ UNCHANGED vars
  PROVE  /\ Shaped'
         /\ [Promised!PNext]_(Promised!pvars)
<1>1. UNCHANGED <<stages, editing, edits, raced, asked, records, executed, op>>
  BY DEF Recorder, RecClear, RecData, RecType, RecSeal, RecNotify, ToggleMinimized, Finished,
         vars, pipe, world, hist
<1>2. \A u \in Clients : pc'[u] = pc[u] \/ (pc[u] = "sleep" /\ pc'[u] = "wait")
  <2>1. CASE RecNotify
    BY <2>1, WakeOneMoves DEF RecNotify, DInv, LInv, PInv, TypeOK
  <2>2. CASE ~RecNotify
    BY <2>2 DEF Recorder, RecClear, RecData, RecType, RecSeal, ToggleMinimized, Finished, vars
  <2> QED
    BY <2>1, <2>2
<1>3. Shaped'
  BY <1>1, <1>2 DEF Shaped, EditKnown
<1>4. Playing' <=> Playing
  BY <1>1, <1>2 DEF Playing
<1>5. CASE ToggleMinimized
  <2>1. minimized' = ~minimized
    BY <1>5 DEF ToggleMinimized
  <2>2. Promised!Minimize
    BY <1>1, <1>4, <2>1 DEF Promised!Minimize, Playing
  <2> QED
    BY <1>3, <2>2 DEF Promised!PNext
<1>6. CASE ~ToggleMinimized
  <2>1. minimized' = minimized
    BY <1>6 DEF Recorder, RecClear, RecData, RecType, RecSeal, RecNotify, Finished, vars, world
  <2>2. UNCHANGED Promised!pvars
    BY <1>1, <1>4, <2>1 DEF Promised!pvars, Playing
  <2> QED
    BY <1>3, <2>2
<1> QED
  BY <1>5, <1>6

\* The pipeline shows what was recorded: with one client thread, record(), play(),
\* the edits through getStage(), the recording thread and its buffers implement
\* RecordedPipeline.  Each step is one of its steps or cannot be seen, for pipelines
\* of any length and any order of the calls.
THEOREM RecordingIsShown ==
  ASSUME LoneClient
  PROVE  Spec => ShowsWhatWasRecorded
<1>1. ASSUME Init PROVE DInv
  <2>1. PInv /\ RInv
    BY <1>1, ProtocolInit, RecordingStarts
  <2>2. PlayExcludesRecorder /\ NeverTerminates
    BY <1>1 DEF Init, PlayExcludesRecorder, NeverTerminates
  <2>3. Outcome /\ rec = "off" /\ records = 0
    BY <1>1 DEF Init, Outcome
  <2>4. \A t \in Clients : ~InRecord(t) /\ pc[t] # "draw"
    BY <1>1 DEF Init, InRecord
  <2> QED
    BY <2>1, <2>2, <2>3, <2>4 DEF DInv, LInv, Newest
<1>2. ASSUME Init PROVE Shaped /\ Promised!PInit
  <2>1. stages \in Seq(Stage) /\ Len(stages) = N /\ edits \in 0 .. MaxEdits /\ N \in Nat
    BY <1>1, <1>2, PipelineAssumption DEF DInv, RInv, StagesTyped, Init
  <2>2. stages \in [1 .. N -> Stage]
    BY <2>1
  <2>3. Shaped
    BY <1>2, <2>1, <2>2 DEF Init, Shaped, EditKnown
  <2>4. Promised!PInit
    BY <1>2, <2>2 DEF Init, Promised!PInit
  <2> QED
    BY <2>3, <2>4
<1>3. DInv /\ Shaped /\ [Next]_vars => (DInv /\ Shaped)' /\ [Promised!PNext]_(Promised!pvars)
  <2> SUFFICES ASSUME DInv, Shaped, [Next]_vars
               PROVE  (DInv /\ Shaped)' /\ [Promised!PNext]_(Promised!pvars)
    OBVIOUS
  <2>1. DInv'
    BY NewestNext
  <2>2. ASSUME NEW t \in Clients, Start(t) \/ Continue(t) \/ SpuriousWake(t)
        PROVE  Shaped' /\ [Promised!PNext]_(Promised!pvars)
    BY <2>2, ClientSteps
  <2>3. ASSUME Recorder \/ ToggleMinimized \/ Finished \/ UNCHANGED vars
        PROVE  Shaped' /\ [Promised!PNext]_(Promised!pvars)
    BY <2>3, OtherSteps
  <2> QED
    BY <2>1, <2>2, <2>3 DEF Next
<1> QED
  BY <1>1, <1>2, <1>3, PTL DEF Spec, ShowsWhatWasRecorded, Promised!PSpec

-----------------------------------------------------------------------------
(* The clock, for all periods, works and delays *)

\* A delta is 0 only until the first frame has been measured, because every
\* frame takes time: this is why play() may take 0 for "can't be trusted".
Measured ==
  \/ first = -1 /\ doing = "idle" /\ delta = 0 /\ total = 0
  \/ first # -1 /\ doing = "work" /\ delta = 0 /\ total = 0 /\ last = first
  \/ first # -1 /\ delta > 0 /\ total = last - first

\* A sleep that was slept through is over.
Slept == doing = "idle" => wake <= now

PacingInv == ClockTypes /\ Measured /\ Slept

\* The inductive invariant of the clock holds for every set of periods and every
\* time that frames take or sleeps are late by.
THEOREM PacingInvariant == ClockSpec => []PacingInv
<1>1. ClockInit => PacingInv
  BY PacingAssumption DEF ClockInit, PacingInv, ClockTypes, Measured, Slept
<1>2. PacingInv /\ [ClockNext]_clockVars => PacingInv'
  <2>. SUFFICES ASSUME PacingInv, [ClockNext]_clockVars
                PROVE  PacingInv'
    OBVIOUS
  <2>. USE PacingAssumption DEF PacingInv, ClockTypes, Measured, Slept
  <2>1. ASSUME NEW p \in Periods, SetIterationRate(p)
        PROVE  PacingInv'
    BY <2>1 DEF SetIterationRate, face
  <2>2. CASE Pass
    BY <2>2 DEF Pass
  <2>3. CASE Begin
    BY <2>3 DEF Begin
  <2>4. ASSUME NEW work \in 1 .. MaxWork, Finish(now + work)
        PROVE  PacingInv'
    <3>1. /\ now' = now + work /\ last' = now + work
          /\ delta' = now + work - last /\ total' = total + delta'
          /\ doing = "work" /\ doing' = "sleep"
          /\ start' = start /\ period' = period /\ first' = first
      BY <2>4 DEF Finish, Measure
    <3>2. wake' \in Nat /\ wake' >= now'
      BY <2>4, <3>1 DEF Finish, ToWait
    <3>3. ClockTypes'
      BY <3>1, <3>2
    <3>4. Measured' /\ Slept'
      BY <3>1
    <3>. QED
      BY <3>3, <3>4
  <2>5. ASSUME NEW late \in 0 .. MaxLate, Wake(late)
        PROVE  PacingInv'
    BY <2>5 DEF Wake
  <2>6. CASE UNCHANGED clockVars
    BY <2>6 DEF clockVars, face
  <2>. QED
    BY <2>1, <2>2, <2>3, <2>4, <2>5, <2>6 DEF ClockNext
<1>. QED
  BY <1>1, <1>2, PTL DEF ClockSpec

\* The variables of the clock keep their types.
THEOREM ClockKeepsTypes == ClockSpec => []ClockTypes
<1>1. PacingInv => ClockTypes
  BY DEF PacingInv
<1>. QED
  BY <1>1, PacingInvariant, PTL

\* The deltas that an application was given add up to the time it has run, from
\* any number of frames, waits and changes of the rate.
THEOREM NoTimeLost == ClockSpec => []DeltasAddUp
<1>1. PacingInv => DeltasAddUp
  BY PacingAssumption DEF PacingInv, ClockTypes, Measured, DeltasAddUp
<1>. QED
  BY <1>1, PacingInvariant, PTL

\* Frames never follow each other faster than the iteration rate allows, for
\* every rate and every time that a frame takes.
THEOREM RateIsMaximal == ClockSpec => NeverAboveTheRate
<1>. DEFINE Paced == /\ doing = "work" /\ doing' = "sleep" => wake' >= start + period
                     /\ doing = "idle" /\ doing' = "work"  => now >= wake
<1>1. PacingInv /\ [ClockNext]_clockVars => [Paced]_clockVars
  <2>. SUFFICES ASSUME PacingInv, ClockNext
                PROVE  Paced
    OBVIOUS
  <2>. USE PacingAssumption DEF PacingInv, ClockTypes, Slept
  <2>1. doing = "idle" => now >= wake
    OBVIOUS
  <2>2. ASSUME doing = "work", doing' = "sleep"
        PROVE  wake' >= start + period
    <3>1. PICK work \in 1 .. MaxWork : Finish(now + work)
      BY <2>2 DEF ClockNext, SetIterationRate, Pass, Begin, Wake, face
    <3>. QED
      BY <3>1 DEF Finish, ToWait
  <2>. QED
    BY <2>1, <2>2
<1>. QED
  BY <1>1, PacingInvariant, PTL DEF ClockSpec, NeverAboveTheRate

-----------------------------------------------------------------------------
(* The table of stages, for every set of names and stages and for lists and
   edits of any number *)

USE TableAssumption

\* Nothing was changed through getStage() while the table is being filled.
UneditedYet == Constructed \/ wanted = [i \in DOMAIN given |-> given[i].stage]

\* Each place of a pipeline made from pairs has the stage of that place of the list,
\* whatever the names are: a stage whose name comes again is not overridden.
StagesFollowTheList == way = "pairs" => \A i \in DOMAIN filled : filled[i] = wanted[i]

\* The conjunction that the steps preserve.
TableInv == TableTypes /\ UneditedYet /\ NamesFindLastPlace /\ StagesFollowTheList

\* The constructor starts with an empty table.
LEMMA TableStarts == TableInit => TableInv
<1> SUFFICES ASSUME TableInit PROVE TableInv
  OBVIOUS
<1>1. given \in Seq(Named)
  BY DEF TableInit, Lists
<1>2. filled = <<>> /\ filled \in Seq(Values) /\ Len(filled) = 0 /\ DOMAIN filled = {}
  BY DEF TableInit
<1>3. DOMAIN keyMap = {}
  BY DEF TableInit
<1>4. Len(given) \in Nat /\ DOMAIN given = 1 .. Len(given)
  BY <1>1
<1>5. wanted \in [DOMAIN given -> Values]
  <2>1. \A i \in DOMAIN given : given[i] \in Named
    BY <1>1
  <2>2. \A i \in DOMAIN given : given[i].stage \in Values
    BY <2>1 DEF Named
  <2> QED
    BY <2>2 DEF TableInit
<1>6. TableTypes
  BY <1>1, <1>2, <1>3, <1>4, <1>5 DEF TableInit, TableTypes
<1>7. UneditedYet
  BY DEF TableInit, UneditedYet
<1>8. StagesFollowTheList
  BY <1>2 DEF StagesFollowTheList
<1>9. NamesFindLastPlace
  <2>1. \A n \in Names : {i \in Places(n) : i <= Len(filled)} = {}
    BY <1>2, <1>4 DEF Places
  <2> QED
    BY <1>3, <2>1 DEF NamesFindLastPlace
<1> QED
  BY <1>6, <1>7, <1>8, <1>9 DEF TableInv

\* One round of either loop keeps the types: the index that is stored is the
\* place of the stage that is pushed.
LEMMA AddKeepsTypes ==
  ASSUME TableTypes, NEW e \in Named, AddStage(e)
  PROVE  TableTypes'
<1>1. filled' \in Seq(Values) /\ Len(filled') = Len(filled) + 1
  BY DEF TableTypes, AddStage, Named
<1>2. Len(filled') <= Len(given')
  BY <1>1 DEF TableTypes, AddStage, Constructed
<1>3. DOMAIN keyMap' \subseteq Names
  BY DEF TableTypes, AddStage, InsertOrAssign, Named
<1>4. \A n \in DOMAIN keyMap' : keyMap'[n] \in 1 .. Len(filled')
  BY <1>1 DEF TableTypes, AddStage, InsertOrAssign
<1> QED
  BY <1>1, <1>2, <1>3, <1>4 DEF TableTypes, AddStage

\* A change through getStage() keeps the types and the length of the vector.
LEMMA EditKeepsTypes ==
  ASSUME TableTypes, NEW n \in Names, NEW v \in Values, EditStage(n, v)
  PROVE  TableTypes' /\ Len(filled') = Len(filled) /\ DOMAIN filled' = DOMAIN filled
<1>1. filled' \in Seq(Values) /\ Len(filled') = Len(filled)
  <2>1. Len(filled) \in Nat /\ DOMAIN filled = 1 .. Len(filled)
    BY DEF TableTypes
  <2>2. filled' \in [1 .. Len(filled) -> Values]
    BY <2>1 DEF TableTypes, EditStage
  <2> QED
    BY <2>1, <2>2
<1>2. wanted' \in [DOMAIN given' -> Values]
  BY DEF TableTypes, EditStage
<1>3. changes' \in 0 .. MaxChanges
  BY DEF TableTypes, EditStage
<1>4. DOMAIN filled' = DOMAIN filled
  BY DEF EditStage
<1> QED
  BY <1>1, <1>2, <1>3, <1>4 DEF TableTypes, EditStage

\* A round over the pairs extends what the names find by one place.
LEMMA AddPairKeepsNames ==
  ASSUME TableInv, AddPair
  PROVE  NamesFindLastPlace'
<1> DEFINE p == Len(filled) + 1
<1>1. p \in DOMAIN given /\ given[p] \in Named /\ Len(filled) \in Nat
  BY DEF TableInv, TableTypes, AddPair, AddStage, Constructed
<1>2. Len(filled') = p /\ given' = given
  BY <1>1 DEF TableInv, TableTypes, AddPair, AddStage, Named
<1>3. keyMap' = [m \in DOMAIN keyMap \cup {given[p].name} |->
                  IF m = given[p].name THEN p ELSE keyMap[m]]
  BY DEF AddPair, AddStage, InsertOrAssign
<1>4. way = "pairs"
  BY DEF AddPair
<1> SUFFICES ASSUME NEW n \in Names
             PROVE  LET sofar == {i \in Places(n) : i <= p} IN
                    /\ n \in DOMAIN keyMap' <=> sofar # {}
                    /\ n \in DOMAIN keyMap' =>
                         keyMap'[n] \in sofar /\ \A j \in sofar : j <= keyMap'[n]
  BY <1>2 DEF NamesFindLastPlace, Places
<1> DEFINE before == {i \in Places(n) : i <= Len(filled)}
           sofar  == {i \in Places(n) : i <= p}
<1>5. /\ n \in DOMAIN keyMap <=> before # {}
      /\ n \in DOMAIN keyMap =>
           keyMap[n] \in before /\ \A j \in before : j <= keyMap[n]
  BY <1>4 DEF TableInv, NamesFindLastPlace
<1>6. Places(n) \subseteq Nat
  BY DEF TableInv, TableTypes, Places
<1>7. CASE n = given[p].name
  <2>1. p \in sofar
    BY <1>1, <1>7 DEF Places
  <2>2. keyMap'[n] = p /\ n \in DOMAIN keyMap'
    BY <1>3, <1>7
  <2> QED
    BY <2>1, <2>2
<1>8. CASE n # given[p].name
  <2>1. sofar = before
    BY <1>1, <1>6, <1>8 DEF Places
  <2>2. n \in DOMAIN keyMap' <=> n \in DOMAIN keyMap
    BY <1>3, <1>8
  <2>3. n \in DOMAIN keyMap => keyMap'[n] = keyMap[n]
    BY <1>3, <1>8
  <2> QED
    BY <1>5, <2>1, <2>2, <2>3
<1> QED
  BY <1>7, <1>8

\* The pushed stage is the one the list has at that place.
LEMMA AddPairKeepsOrder ==
  ASSUME TableInv, AddPair
  PROVE  StagesFollowTheList'
<1>1. wanted = [i \in DOMAIN given |-> given[i].stage] /\ wanted' = wanted
  BY DEF TableInv, UneditedYet, AddPair, AddStage
<1>2. /\ Len(filled) \in Nat
      /\ DOMAIN filled = 1 .. Len(filled)
      /\ Len(filled) + 1 \in DOMAIN given
  BY DEF TableInv, TableTypes, AddPair, AddStage, Constructed
<1>3. filled' = Append(filled, given[Len(filled) + 1].stage)
  BY DEF AddPair, AddStage
<1>4. DOMAIN filled' = 1 .. Len(filled) + 1
  BY <1>2, <1>3 DEF TableInv, TableTypes
<1>5. \A i \in 1 .. Len(filled) : filled'[i] = filled[i]
  BY <1>2, <1>3 DEF TableInv, TableTypes
<1>6. filled'[Len(filled) + 1] = given[Len(filled) + 1].stage
  BY <1>2, <1>3 DEF TableInv, TableTypes
<1>7. \A i \in DOMAIN filled : filled[i] = wanted[i]
  BY DEF TableInv, StagesFollowTheList, AddPair
<1> QED
  BY <1>1, <1>2, <1>4, <1>5, <1>6, <1>7 DEF StagesFollowTheList

\* A change through getStage() reaches the place the client means and no other.
LEMMA EditKeepsOrder ==
  ASSUME TableInv, NEW n \in Names, NEW v \in Values, EditStage(n, v)
  PROVE  StagesFollowTheList'
<1> SUFFICES ASSUME way = "pairs" PROVE \A i \in DOMAIN filled' : filled'[i] = wanted'[i]
  BY DEF EditStage, StagesFollowTheList
<1>1. DOMAIN filled = DOMAIN given /\ DOMAIN wanted = DOMAIN given
  BY DEF TableInv, TableTypes, EditStage, Constructed
<1>2. Places(n) \subseteq Nat /\ \A i \in Places(n) : i <= Len(filled)
  BY DEF TableInv, TableTypes, EditStage, Constructed, Places
<1>3. keyMap[n] \in Places(n) /\ \A j \in Places(n) : j <= keyMap[n]
  BY <1>2 DEF TableInv, NamesFindLastPlace, EditStage
<1>4. \A i \in DOMAIN given :
        i = keyMap[n] <=> (i \in Places(n) /\ \A j \in Places(n) : j <= i)
  BY <1>2, <1>3
<1>5. \A i \in DOMAIN filled : filled[i] = wanted[i]
  BY DEF TableInv, StagesFollowTheList
<1>6. /\ filled' = [i \in DOMAIN filled |-> IF i = keyMap[n] THEN v ELSE filled[i]]
      /\ wanted' = [i \in DOMAIN wanted |->
            IF i \in Places(n) /\ \A j \in Places(n) : j <= i THEN v ELSE wanted[i]]
  BY DEF EditStage
<1> QED
  BY <1>1, <1>4, <1>5, <1>6

\* Every step preserves the invariant.
LEMMA TableSteps == TableInv /\ [TableNext]_table => TableInv'
<1> SUFFICES ASSUME TableInv, [TableNext]_table PROVE TableInv'
  OBVIOUS
<1>1. CASE AddPair
  <2>1. given[Len(filled) + 1] \in Named
    BY <1>1 DEF TableInv, TableTypes, AddPair, AddStage, Constructed
  <2>2. TableTypes'
    BY <1>1, <2>1, AddKeepsTypes DEF TableInv, AddPair
  <2>3. UneditedYet'
    BY <1>1 DEF TableInv, UneditedYet, AddPair, AddStage, Constructed
  <2> QED
    BY <1>1, <2>2, <2>3, AddPairKeepsNames, AddPairKeepsOrder DEF TableInv
<1>2. CASE AddElement
  <2>1. given[1] \in Named
    BY <1>2 DEF TableInv, TableTypes, AddElement, AddStage, Constructed
  <2>2. TableTypes'
    BY <1>2, <2>1, AddKeepsTypes DEF TableInv, AddElement
  <2>3. UneditedYet'
    BY <1>2 DEF TableInv, UneditedYet, AddElement, AddStage, Constructed
  <2>4. NamesFindLastPlace' /\ StagesFollowTheList'
    BY <1>2 DEF AddElement, AddStage, NamesFindLastPlace, StagesFollowTheList
  <2> QED
    BY <2>2, <2>3, <2>4 DEF TableInv
<1>3. ASSUME NEW n \in Names, NEW v \in Values, EditStage(n, v) PROVE TableInv'
  <2>1. TableTypes' /\ Len(filled') = Len(filled) /\ DOMAIN filled' = DOMAIN filled
    BY <1>3, EditKeepsTypes DEF TableInv
  <2>2. UneditedYet'
    BY <1>3, <2>1 DEF UneditedYet, Constructed, EditStage
  <2>3. NamesFindLastPlace'
    BY <1>3, <2>1 DEF TableInv, NamesFindLastPlace, Places, EditStage
  <2> QED
    BY <1>3, <2>1, <2>2, <2>3, EditKeepsOrder DEF TableInv
<1>4. CASE UNCHANGED table
  BY <1>4 DEF table, TableInv, TableTypes, UneditedYet, Constructed, NamesFindLastPlace,
              Places, StagesFollowTheList
<1> QED
  BY <1>1, <1>2, <1>3, <1>4 DEF TableNext

\* The invariant of the table holds for every list, of any length.
THEOREM TableInvariant == TableSpec => []TableInv
  BY TableStarts, TableSteps, PTL DEF TableSpec

\* TypeOK: the map from names to places never leaves the vector.
THEOREM TableKeepsTypes == TableSpec => []TableTypes
<1>1. TableInv => TableTypes
  BY DEF TableInv
<1> QED
  BY <1>1, TableInvariant, PTL

\* A pipeline made from pairs with different names keeps the order of its list and
\* what was asked of each place since; and whether or not they differ, each name
\* stands for its last place (RenderPipeline.cpp:22-40, getStage()).
THEOREM OrderIsRetained == TableSpec => []TableFollowsTheList
<1>1. TableInv => TableFollowsTheList
  BY DEF TableInv, TableFollowsTheList, StagesFollowTheList, PairsFollowTheList
<1> QED
  BY <1>1, TableInvariant, PTL
=============================================================================
