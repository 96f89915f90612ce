--------------------------- MODULE PipelineProps ----------------------------
(***************************************************************************)
(* What the record / wait / play protocol of RenderPipeline promises.      *)
(***************************************************************************)
EXTENDS RenderPipeline

\* The recorder and play() share m_todo and m_cmdBuff without a lock: while a
\* thread is past its wait in play(), the recorder does not run.
PlayExcludesRecorder ==
  \A t \in Clients : pc[t] \in {"compile", "draw"} => rec = "off"

\* m_thread is never assigned while it holds a thread, never joined twice, and
\* no vector is raced on: record(), waitForRecording() and ~RenderPipeline()
\* never bring the program down.
NeverTerminates == ~terminated

\* The std::thread handle has no lock of its own: a thread about to join finds
\* it joinable, a thread about to assign it finds it empty.
ThreadHandleSafe ==
  \A t \in Clients : /\ pc[t] = "join" => joinable
                    /\ pc[t] = "spawn" => ~joinable

\* What play() executes is the pipeline as it stood when record() was last
\* called, every stage once and in order, nothing of an older list, or nothing
\* while the window is minimized; unless an edit overlapped a recording.  That is:
\* threads, todo list and command buffer together implement RecordedPipeline.
Promised == INSTANCE RecordedPipeline WITH
  Contents  <- Stage,
  list      <- stages,
  picture   <- IF records = 0 THEN <<>> ELSE asked,
  shown     <- executed,
  playing   <- \E t \in Clients : op[t] = "play" /\ pc[t] # "idle",
  hidden    <- minimized,
  disturbed <- raced

ShowsWhatWasRecorded == Promised!PSpec

\* A command never reads a member of the payload union other than the one that
\* was written for its stage type (execute() copies the payload, then the
\* type), unless a client wrote to a stage while the recorder ran.
NoTornCommand == raced \/ \A i \in DOMAIN cmds : cmds[i].data.tag = cmds[i].type

\* The recorder works on the backend object: it never outlives it.
RecorderWithinLifetime == destroyed => rec = "off" /\ ~joinable

\* The handle m_thread, which no lock protects, follows the recorder: joined when
\* it has to be, assigned when it may be, and empty when the pipeline is gone
\* (record(), waitForRecording(), ~RenderPipeline()).
HandleFollowsRecorder == ThreadHandleSafe /\ RecorderWithinLifetime

\* A call of record, waitForRecording, play or the destructor returns.
CallsReturn == \A t \in Clients : pc[t] # "idle" ~> pc[t] = "idle"

\* waitForRecording() and play() wake up when the recording ends.
WaitersWake ==
  \A t \in Clients : (pc[t] = "sleep" /\ ~terminated) ~> (pc[t] # "sleep" \/ terminated)
=============================================================================
