---------------------------- MODULE ShaderQueue -----------------------------
(***************************************************************************)
(* The compile queue of shaders (API_Shader.cpp, OGL_Shader.cpp).  The     *)
(* constructor puts a shader into m_compileQueue under a shared lock; the  *)
(* main thread compiles all of them under an exclusive one.  Nothing takes *)
(* a shader out of the queue when it is destroyed.                         *)
(*                                                                         *)
(* Whether GL compiles a stage or links a program is up to the source code *)
(* of the shader, so both outcomes are possible.                           *)
(***************************************************************************)
EXTENDS Integers, Sequences, FiniteSetsExt

CONSTANTS
  Shaders,    \* the shaders
  StageTypes  \* bound: the stages a shader may have, by the bit they use

ASSUME ShaderAssumption == StageTypes \subseteq 0 .. 7

CompileState == {"undefined", "ongoing", "success", "failed"}

VARIABLES
  shLife,     \* "new", "alive" or "dead"
  used,       \* m_used: the stages of each shader
  state,      \* m_state
  prog,       \* m_prog, as the set of at most one program
  compiling,  \* m_compileQueue
  locked,     \* the main thread holds m_compileMutex
  pos,        \* its position in the queue
  todo,       \* compile(): stages still to do
  stages,     \* the GL shader objects that exist
  programs,   \* the GL programs that exist, by the shader they were made for
  shCrashed   \* compile() was called on a deleted shader

shVars == <<shLife, used, state, prog, compiling, locked, pos, todo, stages, programs, shCrashed>>

ShaderInit ==
  /\ shLife = [s \in Shaders |-> "new"]
  /\ used = [s \in Shaders |-> {}]
  /\ state = [s \in Shaders |-> "undefined"]
  /\ prog = [s \in Shaders |-> {}]
  /\ compiling = <<>>
  /\ locked = FALSE
  /\ pos = 1
  /\ todo = {}
  /\ stages = {}
  /\ programs = {}
  /\ shCrashed = FALSE

-----------------------------------------------------------------------------
(* Any thread, one at a time: two pushes under the shared lock would race *)

\* the constructor: the shared lock waits for compileAll() to end
NewShader(s, u) ==
  /\ shLife[s] = "new"
  /\ ~locked
  /\ shLife' = [shLife EXCEPT ![s] = "alive"]
  /\ used' = [used EXCEPT ![s] = u]
  /\ compiling' = Append(compiling, s)
  /\ UNCHANGED <<state, prog, locked, pos, todo, stages, programs, shCrashed>>

\* the destructor: the queue and the GL program are left as they are
DestroyShader(s) ==
  /\ shLife[s] = "alive"
  /\ shLife' = [shLife EXCEPT ![s] = "dead"]
  /\ UNCHANGED <<used, state, prog, compiling, locked, pos, todo, stages, programs, shCrashed>>

-----------------------------------------------------------------------------
(* The main thread *)

\* compileAll(): an empty queue is left alone
BeginCompileAll ==
  /\ ~locked
  /\ compiling # <<>>
  /\ locked' = TRUE
  /\ UNCHANGED <<shLife, used, state, prog, compiling, pos, todo, stages, programs, shCrashed>>

Compiled == compiling[pos]

Touch(s) == shCrashed' = (shLife[s] = "dead")

BeginCompile ==
  /\ locked
  /\ pos <= Len(compiling)
  /\ state[Compiled] # "ongoing"
  /\ Touch(Compiled)
  /\ state' = [state EXCEPT ![Compiled] = "ongoing"]
  /\ prog' = [prog EXCEPT ![Compiled] = {Compiled}]
  /\ programs' = programs \cup {Compiled}
  /\ todo' = used[Compiled]
  /\ UNCHANGED <<shLife, used, compiling, locked, pos, stages>>

Busy == locked /\ pos <= Len(compiling) /\ state[Compiled] = "ongoing"

\* a stage, the most significant bit first, becomes a GL shader object
StageCompiles ==
  /\ Busy
  /\ todo # {}
  /\ Touch(Compiled)
  /\ todo' = todo \ {Max(todo)}
  /\ stages' = stages \cup {Max(todo)}
  /\ UNCHANGED <<shLife, used, state, prog, compiling, locked, pos, programs>>

\* mutant: the program of a failed compilation is kept
FailedKeepsProgram ==
  /\ Touch(Compiled)
  /\ stages' = {}
  /\ todo' = {}
  /\ prog' = [prog EXCEPT ![Compiled] = {}]
  /\ state' = [state EXCEPT ![Compiled] = "failed"]
  /\ pos' = pos + 1
  /\ UNCHANGED <<shLife, used, compiling, locked, programs>>

\* a stage or the link fails: stages and program are deleted
Failed ==
  /\ Touch(Compiled)
  /\ stages' = {}
  /\ todo' = {}
  /\ programs' = programs \ prog[Compiled]
  /\ prog' = [prog EXCEPT ![Compiled] = {}]
  /\ state' = [state EXCEPT ![Compiled] = "failed"]
  /\ pos' = pos + 1
  /\ UNCHANGED <<shLife, used, compiling, locked>>

StageFails == Busy /\ todo # {} /\ Failed
LinkFails  == Busy /\ todo = {} /\ Failed

Links ==
  /\ Busy
  /\ todo = {}
  /\ Touch(Compiled)
  /\ stages' = {}
  /\ state' = [state EXCEPT ![Compiled] = "success"]
  /\ pos' = pos + 1
  /\ UNCHANGED <<shLife, used, prog, compiling, locked, todo, programs>>

EndCompileAll ==
  /\ locked
  /\ pos > Len(compiling)
  /\ compiling' = <<>>
  /\ locked' = FALSE
  /\ pos' = 1
  /\ UNCHANGED <<shLife, used, state, prog, todo, stages, programs, shCrashed>>

-----------------------------------------------------------------------------

ShaderNext ==
  /\ ~shCrashed
  /\ \/ \E s \in Shaders : DestroyShader(s) \/ \E u \in SUBSET StageTypes : NewShader(s, u)
     \/ BeginCompileAll \/ BeginCompile
     \/ StageCompiles \/ StageFails
     \/ Links \/ LinkFails
     \/ EndCompileAll
=============================================================================
