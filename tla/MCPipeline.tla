----------------------------- MODULE MCPipeline -----------------------------
(***************************************************************************)
(* TLC instances of a render pipeline.  The protocol of record() and       *)
(* play(), the table that a constructor fills, and the clock share no      *)
(* state, so a behaviour exercises one of the three (part).                *)
(***************************************************************************)
EXTENDS PipelineProps, StageTable, FramePacing

VARIABLE part

partVars == <<vars, table, clockVars, part>>

\* the other parts stay in one of their initial states
PartInit ==
  /\ part \in {"protocol", "table", "clock"}
  /\ Init /\ (part # "protocol" => \A i \in DOMAIN stages : stages[i].type = "scene")
  /\ TableInit /\ (part # "table" => way = "pairs" /\ given = <<>>)
  /\ ClockInit

Protocol == part = "protocol" /\ Next /\ UNCHANGED <<table, clockVars, part>>

Table == part = "table" /\ TableNext /\ UNCHANGED <<vars, clockVars, part>>

Clock == part = "clock" /\ ClockNext /\ UNCHANGED <<vars, table, part>>

\* the table is filled and the client has made its changes
Filled ==
  /\ part = "table"
  /\ Constructed
  /\ filled = <<>> \/ changes = MaxChanges
  /\ UNCHANGED partVars

PartSpec == PartInit /\ [][Protocol \/ Table \/ Clock \/ Filled]_partVars

FairPartSpec ==
  /\ PartSpec
  /\ WF_vars(Recorder)
  /\ \A t \in Clients : WF_vars(Continue(t))
=============================================================================
