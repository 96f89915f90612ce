--------------------------- MODULE RenderPipeline ---------------------------
(***************************************************************************)
(* The render pipeline: a list of stages that record() hands to a thread   *)
(* of its own, which turns it into a todo list, and that play() compiles   *)
(* into the command buffer and executes                                    *)
(* (Frontend/RenderAPI/RenderPipeline.cpp, OGL_RenderPipeline.cpp,         *)
(* OGL_CommandBuffer.cpp).                                                 *)
(*                                                                         *)
(* Client threads and the recording thread interleave.  Both critical      *)
(* sections of m_mut (updateRecordingState, waitForRecordingState) touch   *)
(* nothing but m_isRecording and m_cond, so each is one step.              *)
(***************************************************************************)
EXTENDS Integers, Sequences, SequencesExt

CONSTANTS
  Recorders,    \* client threads that edit, record, wait and destroy
  Players,      \* client threads that play; one thread may be both
  N,            \* the number of stages of the pipeline
  MaxRecords,   \* bound: record() calls
  MaxEdits      \* bound: edits of a stage through getStage()

Clients == Recorders \cup Players

ASSUME PipelineAssumption ==
  /\ N \in Nat
  /\ MaxRecords \in Nat
  /\ MaxEdits \in Nat

(***************************************************************************)
(* A stage is a type and a union of payloads.  The tag says which member   *)
(* of the union was written last, the version which edit wrote it.         *)
(***************************************************************************)
StageTypes == {"custom", "scene"}
Payload    == [tag : StageTypes, ver : 0 .. MaxEdits]
Stage      == [type : StageTypes, data : Payload]

\* an entry of m_todo: what to run, and the payload copied for it
NoPayload == [tag |-> "none", ver |-> 0]
Cleanup   == [type |-> "cleanup", data |-> NoPayload]
Finalize  == [type |-> "finalize", data |-> NoPayload]

VARIABLES
  stages,       \* m_stages
  todo,         \* m_todo: cleanup, the stages copied so far, finalize
  copied,       \* execute()'s local "data", read before the type
  cmds,         \* m_cmdBuff.m_commands
  recorded,     \* m_cmdBuff.m_recorded
  isRecording,  \* m_isRecording
  joinable,     \* m_thread.joinable()
  rec,          \* program counter of the recording thread
  pc,           \* program counter of each client thread
  op,           \* the operation each client thread is in
  editing,      \* the stage being edited, 0 for none
  minimized,    \* the window's minimized setting
  executed,     \* the commands the newest play() executed
  sceneBuffs,   \* GL buffers created by executeStage_DrawScene and not deleted
  terminated,   \* std::terminate was called, or two threads raced on a vector
  destroyed,    \* ~RenderPipeline has deleted the backend
  asked,        \* history: the stages at the newest record() call
  records,      \* history: the number of record() calls
  edits,        \* history: the number of edits
  raced         \* history: an edit overlapped a recording

pipe   == <<stages, editing, edits, raced>>
buffer == <<todo, copied, cmds, recorded, sceneBuffs>>
sync   == <<isRecording, joinable, rec>>
world  == <<minimized, executed>>
fate   == <<terminated, destroyed>>
hist   == <<asked, records>>
vars   == <<pipe, buffer, sync, pc, op, world, fate, hist>>

Init ==
  /\ \E types \in [1 .. N -> StageTypes] :
       stages = [i \in 1 .. N |->
                   [type |-> types[i], data |-> [tag |-> types[i], ver |-> 0]]]
  /\ todo = <<>>
  /\ copied = NoPayload
  /\ cmds = <<>>
  /\ recorded = FALSE
  /\ isRecording = FALSE
  /\ joinable = FALSE
  /\ rec = "off"
  /\ pc = [t \in Clients |-> "idle"]
  /\ op = [t \in Clients |-> "none"]
  /\ editing = 0
  /\ minimized = FALSE
  /\ executed = <<>>
  /\ sceneBuffs = 0
  /\ terminated = FALSE
  /\ destroyed = FALSE
  /\ asked = stages
  /\ records = 0
  /\ edits = 0
  /\ raced = FALSE

Goto(t, from, to) ==
  /\ pc[t] = from
  /\ pc' = [pc EXCEPT ![t] = to]

Call(t, name, entry) ==
  /\ ~terminated
  /\ ~destroyed
  /\ \A u \in Clients : op[u] = "destroy" => pc[u] = "idle"
  /\ Goto(t, "idle", entry)
  /\ op' = [op EXCEPT ![t] = name]

-----------------------------------------------------------------------------
(* m_mut and m_cond *)

Sleepers == {t \in Clients : pc[t] = "sleep"}

\* m_cond.notify_one(): one sleeper, if there is any, goes back to its test
WakeOne(ctl) ==
  IF Sleepers = {} THEN pc' = ctl
                   ELSE \E s \in Sleepers : pc' = [ctl EXCEPT ![s] = "wait"]

\* waitForRecordingState(false): go on, or sleep on the condition variable
WaitForRecordingState(t) ==
  /\ pc[t] = "wait"
  /\ ~terminated
  /\ pc' = [pc EXCEPT ![t] = IF isRecording THEN "sleep"
                             ELSE IF op[t] = "play" THEN "compile" ELSE "join?"]
  /\ UNCHANGED <<pipe, buffer, sync, op, world, fate, hist>>

\* a condition variable may return without having been notified
SpuriousWake(t) ==
  /\ Goto(t, "sleep", "wait")
  /\ UNCHANGED <<pipe, buffer, sync, op, world, fate, hist>>

-----------------------------------------------------------------------------
(* m_thread.join(), shared by record, waitForRecording and the destructor *)

AfterJoin(t) ==
  CASE op[t] = "record"  -> "arm"
    [] op[t] = "await"   -> "idle"
    [] op[t] = "destroy" -> "delete"

CheckJoinable(t) ==
  /\ pc[t] = "join?"
  /\ ~terminated
  /\ pc' = [pc EXCEPT ![t] = IF joinable THEN "join" ELSE AfterJoin(t)]
  /\ UNCHANGED <<pipe, buffer, sync, op, world, fate, hist>>

\* joining a thread that somebody else has joined throws out of a noexcept
Join(t) ==
  /\ Goto(t, "join", AfterJoin(t))
  /\ rec = "off"
  /\ ~terminated
  /\ joinable' = FALSE
  /\ terminated' = ~joinable
  /\ UNCHANGED <<pipe, buffer, isRecording, rec, op, world, destroyed, hist>>

-----------------------------------------------------------------------------
(* The client operations *)

\* mutant: the previous recording thread is not joined
RecordUnjoined(t) ==
  /\ Call(t, "record", "arm")
  /\ records < MaxRecords
  /\ records' = records + 1
  /\ asked' = stages
  /\ UNCHANGED <<pipe, buffer, sync, world, fate>>

Record(t) ==
  /\ Call(t, "record", "join?")
  /\ records < MaxRecords
  /\ records' = records + 1
  /\ asked' = stages
  /\ UNCHANGED <<pipe, buffer, sync, world, fate>>

\* updateRecordingState(true)
ArmRecording(t) ==
  /\ pc[t] = "arm"
  /\ ~terminated
  /\ isRecording' = TRUE
  /\ WakeOne([pc EXCEPT ![t] = "spawn"])
  /\ UNCHANGED <<pipe, buffer, joinable, rec, op, world, fate, hist>>

\* m_thread = std::thread(asyncRecord): assigning to a joinable thread terminates
Spawn(t) ==
  /\ Goto(t, "spawn", "idle")
  /\ ~terminated
  /\ terminated' = joinable
  /\ joinable' = TRUE
  /\ rec' = "clear"
  /\ UNCHANGED <<pipe, buffer, isRecording, op, world, destroyed, hist>>

WaitForRecording(t) ==
  /\ Call(t, "await", "wait")
  /\ UNCHANGED <<pipe, buffer, sync, world, fate, hist>>

\* mutant: play() does not wait for the recording
PlayUnwaited(t) ==
  /\ Call(t, "play", "compile")
  /\ UNCHANGED <<pipe, buffer, sync, world, fate, hist>>

Play(t) ==
  /\ Call(t, "play", "wait")
  /\ UNCHANGED <<pipe, buffer, sync, world, fate, hist>>

\* what lies between cleanup and finalize; a list that is not complete is met only
\* in a race with the recorder
StageEntries(list) == SubSeq(list, 2, Len(list) - 1)

\* the todo loop of play(): every entry appends its command, a scene entry
\* also creates GL buffers; cleanup deletes m_customBuffs, which nothing fills.
\* Doing so while the recorder writes the same vectors is undefined: it crashes.
Compile(t) ==
  /\ Goto(t, "compile", "draw")
  /\ ~terminated
  /\ LET compiled == StageEntries(todo)
     IN  /\ cmds' = cmds \o compiled
         /\ sceneBuffs' = sceneBuffs
              + Len(SelectSeq(compiled, LAMBDA e : e.type = "scene"))
  /\ recorded' = (recorded \/ Contains(todo, Finalize))
  /\ todo' = <<>>
  /\ terminated' = (rec # "off")
  /\ UNCHANGED <<pipe, copied, sync, op, world, destroyed, hist>>

\* beginFrame, the minimized test, clearWindow, m_cmdBuff.play() and endFrame
Draw(t) ==
  /\ Goto(t, "draw", "idle")
  /\ ~terminated
  /\ executed' = IF minimized \/ ~recorded THEN <<>> ELSE cmds
  /\ terminated' = (rec # "off")
  /\ UNCHANGED <<pipe, buffer, sync, op, minimized, destroyed, hist>>

\* ~RenderPipeline joins the recorder before it deletes the backend; its caller
\* owes it that no other thread is inside the pipeline
Destroy(t) ==
  /\ Call(t, "destroy", "join?")
  /\ \A u \in Clients \ {t} : pc[u] = "idle"
  /\ UNCHANGED <<pipe, buffer, sync, world, fate, hist>>

DeleteBackend(t) ==
  /\ Goto(t, "delete", "idle")
  /\ ~terminated
  /\ destroyed' = TRUE
  /\ UNCHANGED <<pipe, buffer, sync, op, world, terminated, hist>>

\* getStage() hands out a mutable reference: the client stores the type ...
BeginEdit(t) ==
  /\ Call(t, "edit", "edit")
  /\ editing = 0
  /\ edits < MaxEdits
  /\ \E i \in 1 .. N, type \in StageTypes :
       /\ editing' = i
       /\ stages' = [stages EXCEPT ![i].type = type]
  /\ edits' = edits + 1
  /\ raced' = (raced \/ rec # "off")
  /\ UNCHANGED <<buffer, sync, world, fate, hist>>

\* ... and then the payload
EndEdit(t) ==
  /\ Goto(t, "edit", "idle")
  /\ ~terminated
  /\ stages' = [stages EXCEPT ![editing].data =
                  [tag |-> stages[editing].type, ver |-> edits]]
  /\ editing' = 0
  /\ raced' = (raced \/ rec # "off")
  /\ UNCHANGED <<edits, buffer, sync, op, world, fate, hist>>

-----------------------------------------------------------------------------
(* The recording thread: asyncRecord() and the backend's record() *)

\* mutant: the commands of the older recording stay
RecClearKeepsCommands ==
  /\ rec = "clear"
  /\ ~terminated
  /\ todo' = <<Cleanup>>
  /\ rec' = IF N = 0 THEN "seal" ELSE "data"
  /\ UNCHANGED <<pipe, copied, cmds, recorded, sceneBuffs, isRecording, joinable, pc,
                 op, world, fate, hist>>

\* m_cmdBuff.clear(), m_todo.resize(...), m_todo[0] = cleanup
RecClear ==
  /\ rec = "clear"
  /\ ~terminated
  /\ cmds' = <<>>
  /\ recorded' = FALSE
  /\ todo' = <<Cleanup>>
  /\ rec' = IF N = 0 THEN "seal" ELSE "data"
  /\ UNCHANGED <<pipe, copied, sceneBuffs, isRecording, joinable, pc, op, world,
                 fate, hist>>

\* mutant: the payload of the first stage is copied for every stage
RecDataOfFirst ==
  /\ rec = "data"
  /\ ~terminated
  /\ copied' = stages[1].data
  /\ rec' = "type"
  /\ UNCHANGED <<pipe, todo, cmds, recorded, sceneBuffs, isRecording, joinable,
                 pc, op, world, fate, hist>>

\* execute() copies stage.data ...
RecData ==
  /\ rec = "data"
  /\ ~terminated
  /\ copied' = stages[Len(todo)].data
  /\ rec' = "type"
  /\ UNCHANGED <<pipe, todo, cmds, recorded, sceneBuffs, isRecording, joinable,
                 pc, op, world, fate, hist>>

\* ... and then selects the function from stage.type and stores the pair
RecType ==
  /\ rec = "type"
  /\ ~terminated
  /\ todo' = Append(todo, [type |-> stages[Len(todo)].type, data |-> copied])
  /\ copied' = NoPayload
  /\ rec' = IF Len(todo) = N THEN "seal" ELSE "data"
  /\ UNCHANGED <<pipe, cmds, recorded, sceneBuffs, isRecording, joinable, pc, op,
                 world, fate, hist>>

RecSeal ==
  /\ rec = "seal"
  /\ ~terminated
  /\ todo' = Append(todo, Finalize)
  /\ rec' = "notify"
  /\ UNCHANGED <<pipe, copied, cmds, recorded, sceneBuffs, isRecording, joinable,
                 pc, op, world, fate, hist>>

\* mutant: the flag goes down and nobody is notified
RecNotifiesNobody ==
  /\ rec = "notify"
  /\ ~terminated
  /\ isRecording' = FALSE
  /\ rec' = "off"
  /\ UNCHANGED <<pipe, buffer, joinable, pc, op, world, fate, hist>>

\* updateRecordingState(false), the last thing the thread does
RecNotify ==
  /\ rec = "notify"
  /\ ~terminated
  /\ isRecording' = FALSE
  /\ WakeOne(pc)
  /\ rec' = "off"
  /\ UNCHANGED <<pipe, buffer, joinable, op, world, fate, hist>>

-----------------------------------------------------------------------------
(* The window, and the end of the program *)

ToggleMinimized ==
  /\ ~terminated
  /\ ~destroyed
  /\ minimized' = ~minimized
  /\ UNCHANGED <<pipe, buffer, sync, pc, op, executed, fate, hist>>

Finished ==
  /\ terminated \/ destroyed
  /\ UNCHANGED vars

Recorder == RecClear \/ RecData \/ RecType \/ RecSeal \/ RecNotify

Start(t) ==
  \/ /\ t \in Recorders
     /\ Record(t) \/ WaitForRecording(t) \/ Destroy(t) \/ BeginEdit(t)
  \/ /\ t \in Players
     /\ Play(t)

Continue(t) ==
  \/ WaitForRecordingState(t) \/ CheckJoinable(t) \/ Join(t)
  \/ ArmRecording(t) \/ Spawn(t)
  \/ Compile(t) \/ Draw(t)
  \/ DeleteBackend(t) \/ EndEdit(t)

Next ==
  \/ \E t \in Clients : Start(t) \/ Continue(t) \/ SpuriousWake(t)
  \/ Recorder
  \/ ToggleMinimized
  \/ Finished

Spec == Init /\ [][Next]_vars

\* a thread that can run does: nobody has to call an operation, but the ones
\* that were called, and the recorder, go on
FairSpec ==
  /\ Spec
  /\ WF_vars(Recorder)
  /\ \A t \in Clients : WF_vars(Continue(t))
=============================================================================
