----------------------------- MODULE StageTable -----------------------------
(***************************************************************************)
(* The stages of a render pipeline and their names (RenderPipeline.cpp,    *)
(* RenderPipeline.h): two constructors that fill a vector and a map from   *)
(* names to indices, and getStage(), through which a client changes a      *)
(* stage.  A constructor takes a list of names and stages.  A name may     *)
(* come twice: the assertion of debug builds calls that "overriding the    *)
(* original stage" (RenderPipeline.cpp:31), but only the entry of the map  *)
(* is overridden, the original stage stays in the list without a name.     *)
(***************************************************************************)
EXTENDS Integers, Sequences

CONSTANTS
  Names,      \* names of stages
  Values,     \* what a stage does
  MaxStages,  \* bound: length of the list
  MaxChanges  \* bound: changes through getStage()

ASSUME TableAssumption == MaxStages \in Nat /\ MaxChanges \in Nat

Named == [name : Names, stage : Values]

VARIABLES
  way,     \* the constructor: from "pairs" (a vector) or from an "array"
  given,   \* the list it was given
  filled,  \* m_stages
  keyMap,  \* m_keyMap
  wanted,  \* history: what the client wants each place of the list to do
  changes  \* changes through getStage()

table == <<way, given, filled, keyMap, wanted, changes>>

Lists == UNION {[1 .. n -> Named] : n \in 0 .. MaxStages}

TableInit ==
  /\ way \in {"pairs", "array"}
  /\ given \in Lists
  /\ filled = <<>>
  /\ keyMap = [n \in {} |-> 0]
  /\ wanted = [i \in DOMAIN given |-> given[i].stage]
  /\ changes = 0

Constructed == Len(filled) = Len(given)

\* insert_or_assign(key, m_stages.size()), counted from 1
InsertOrAssign(n) ==
  [m \in DOMAIN keyMap \cup {n} |-> IF m = n THEN Len(filled) + 1 ELSE keyMap[m]]

AddStage(e) ==
  /\ ~Constructed
  /\ keyMap' = InsertOrAssign(e.name)
  /\ filled' = Append(filled, e.stage)
  /\ UNCHANGED <<way, given, wanted, changes>>

\* one round of the loop over the vector of pairs
AddPair == way = "pairs" /\ AddStage(given[Len(filled) + 1])

\* one round of the loop over the array: it reads namedStages->, not [i]
AddElement == way = "array" /\ AddStage(given[1])

\* the places of the list that have a name, in the reader's view
Places(n) == {i \in DOMAIN given : given[i].name = n}

\* mutant: the stage is written to the place after it
EditNext(n, v) ==
  /\ Constructed
  /\ changes < MaxChanges
  /\ n \in DOMAIN keyMap
  /\ filled' = [i \in DOMAIN filled |-> IF i = keyMap[n] + 1 THEN v ELSE filled[i]]
  /\ wanted' = [i \in DOMAIN wanted |->
                IF i \in Places(n) /\ \A j \in Places(n) : j <= i THEN v ELSE wanted[i]]
  /\ changes' = changes + 1
  /\ UNCHANGED <<way, given, keyMap>>

\* getStage(name) = value; the client asks for the last place of that name.  An
\* unknown name is undefined behaviour, which containsStage() lets a client avoid.
EditStage(n, v) ==
  /\ Constructed
  /\ changes < MaxChanges
  /\ n \in DOMAIN keyMap
  /\ filled' = [i \in DOMAIN filled |-> IF i = keyMap[n] THEN v ELSE filled[i]]
  /\ wanted' = [i \in DOMAIN wanted |->
                IF i \in Places(n) /\ \A j \in Places(n) : j <= i THEN v ELSE wanted[i]]
  /\ changes' = changes + 1
  /\ UNCHANGED <<way, given, keyMap>>

TableNext == AddPair \/ AddElement \/ \E n \in Names, v \in Values : EditStage(n, v)

TableSpec == TableInit /\ [][TableNext]_table

-----------------------------------------------------------------------------
(* What the table promises *)

\* The types of the variables; the map stays within the vector, and the vector
\* is never longer than the list.
TableTypes ==
  /\ way \in {"pairs", "array"}
  /\ given \in Seq(Named)
  /\ filled \in Seq(Values)
  /\ Len(filled) <= Len(given)
  /\ DOMAIN keyMap \subseteq Names
  /\ \A n \in DOMAIN keyMap : keyMap[n] \in 1 .. Len(filled)
  /\ wanted \in [DOMAIN given -> Values]
  /\ changes \in 0 .. MaxChanges

\* the names of the list differ
DistinctNames == \A i, j \in DOMAIN given : given[i].name = given[j].name => i = j

\* RenderPipeline.h:226, "Order is important and retained": a pipeline made from
\* pairs with different names holds at each place what the list has there, and
\* after a change through getStage() what the client asked for.  Of a list in
\* which a name comes twice nothing is said here: the code keeps both stages,
\* where it says that the second overrides the first (RenderPipeline.cpp:31).
PairsFollowTheList ==
  way = "pairs" /\ DistinctNames => \A i \in DOMAIN filled : filled[i] = wanted[i]

\* While it is being filled and ever after, a name of a pipeline made from pairs
\* is known exactly if the list had it so far, and stands for its last place:
\* a stage whose name comes again cannot be reached any more.
NamesFindLastPlace ==
  way = "pairs" =>
    \A n \in Names :
      LET sofar == {i \in Places(n) : i <= Len(filled)} IN
      /\ n \in DOMAIN keyMap <=> sofar # {}
      /\ n \in DOMAIN keyMap =>
           keyMap[n] \in sofar /\ \A j \in sofar : j <= keyMap[n]

\* What RenderPipeline.h:226 promises of a pipeline made from pairs: at every
\* moment the order of a list of different names, which getStage() changes at the
\* place of the name and no other; and for all lists, names that lead to their last
\* place.
TableFollowsTheList == PairsFollowTheList /\ NamesFindLastPlace
=============================================================================
