----------------------------- MODULE CrateVisit -----------------------------
(* How the detectors that look across functions gather what they know: the   *)
(* compiler shows them the functions of a crate one by one (check_fn), they  *)
(* note who calls whom (FunctionCallVisitor), and decide at the end.         *)
EXTENDS FiniteSets

CONSTANTS Functions,    \* the functions written in the crate, closures included
          External,     \* every function outside of the crate
          Generated,    \* what the contract macros make for an entry point
          Programs      \* the crates that may be analysed

(* Macros make three functions for an entry point: its specification and two *)
(* ways for a client to call it.  A program gives each function a record:    *)
(* expanded (it comes from a macro), generated (what is made for it), calls  *)
(* (the functions of the crate that it calls), does (what the detectors look *)
(* for in its body, all of it calls to External) and signature (what its     *)
(* name, its parameters and its result say of it).                           *)

ProgramType == [Functions -> [expanded : BOOLEAN, generated : SUBSET Generated,
                              calls : SUBSET Functions, does : SUBSET STRING,
                              signature : SUBSET STRING]]

ASSUME FunctionsAssumption == IsFiniteSet(Functions)

ASSUME ProgramsAssumption == Programs \subseteq ProgramType

ASSUME ExternalAssumption == External \notin Functions

ASSUME GeneratedAssumption == "itself" \notin Generated

VARIABLES program,      \* the crate
          unvisited,    \* the functions that check_fn has not seen yet
          checked,      \* the names of those that it has seen
          graph         \* the calls that it has seen, as pairs

crate == <<program, unvisited, checked, graph>>

\* A function of the crate as it was written, or one generated for it.
Items == [of : Functions, as : {"itself"} \cup Generated]

Callees(f) == {g \in Functions \cup {External} : <<f, g>> \in graph}

Callers(f) == {g \in Functions : <<g, f>> \in graph}

CallsOf(f) == program[f].calls \cup IF program[f].does = {} THEN {} ELSE {External}

\* check_fn leaves what comes from a macro, generated functions included.
Analysed(item) == item.as = "itself" /\ ~program[item.of].expanded

RecordWhenAnalysed(item) ==
  checked' = IF Analysed(item) THEN checked \cup {item} ELSE checked

\* The name is noted in any case.
Record(item) == checked' = checked \cup {item}

CheckFn(item) ==
  /\ Record(item)
  /\ unvisited' = unvisited \ {item}
  /\ graph' = IF Analysed(item)
              THEN graph \cup {<<item.of, g>> : g \in CallsOf(item.of)} ELSE graph
  /\ UNCHANGED program

SomeSeen == checked # {}

\* check_crate_post comes after every check_fn.
CrateSeen == unvisited = {}

\* An entry point of a contract: all of what is generated for one was seen.
IsSorobanFunction(f) ==
  \A as \in {"itself"} \cup Generated : [of |-> f, as |-> as] \in checked

CrateInit ==
  /\ program \in Programs
  /\ unvisited = {i \in Items : i.as \in {"itself"} \cup program[i.of].generated}
  /\ checked = {} /\ graph = {}

CrateType == /\ unvisited \subseteq Items /\ checked \subseteq Items
             /\ graph \subseteq Functions \X (Functions \cup {External})

-----------------------------------------------------------------------------
(* What is true of the crate, whatever the order its functions were seen in. *)
Entry(f) == program[f].generated = Generated

Calls(f, g) == ~program[f].expanded /\ g \in program[f].calls

\* f and what it calls, directly or not, as the crate was written: the least set
\* with f that is closed under the calls of the functions that are analysed.
Flow(f) ==
  {g \in Functions :
     \A S \in SUBSET Functions :
       (f \in S /\ \A x \in S : \A y \in Functions : Calls(x, y) => y \in S) => g \in S}

Recursive == \E f \in Functions : \E g \in Functions : Calls(f, g) /\ f \in Flow(g)
=============================================================================
