------------------------- MODULE CrossContractTarget -------------------------
(* unvalidated-cross-contract-target: an address that comes from a parameter *)
(* of an entry point must be validated before a contract at it is called.    *)
(* What a caller controls is followed from function to function, parameter   *)
(* by parameter, with a worklist.                                            *)
EXTENDS CrateVisit

CONSTANTS Params,       \* the places of parameters that are addresses
          AddressCases  \* crates, each with what its functions do with these

\* Of each function: its address parameters, those that a client is built from and
\* called (targets), those compared with a list or with storage (checks), those that
\* authorize, and those passed on: <<mine, callee, its>>.
Address == [params : SUBSET Params, targets : SUBSET Params, checks : SUBSET Params,
            auths : SUBSET Params, forwards : SUBSET (Params \X Functions \X Params)]

ASSUME AddressesAssumption == AddressCases \subseteq Programs \X [Functions -> Address]

VARIABLES addresses,            \* what the functions do with addresses
          authorized_functions, \* those that call require_auth on a parameter
          guarded_params,       \* parameters checked where they are received
          address_params,       \* the parameters of the functions seen
          candidates,           \* parameters that some client is built from
          taint_edges,          \* from a parameter to that of a callee
          reachable, worklist,  \* parameters that an attacker controls
          phase,                \* "visit", "propagate" or "done"
          findings              \* candidates that were reported

facts == <<authorized_functions, guarded_params, address_params, candidates, taint_edges>>
propagation == <<crate, addresses, facts, reachable, worklist, phase, findings>>

Places == Functions \X Params

IsConstructor(f) == "constructor" \in program[f].signature

AuthorizesIn(f) == addresses[f].auths # {}

GuardedIn(f) == {f} \X (addresses[f].checks \cup addresses[f].auths)

CandidatesIn(f) == IF IsConstructor(f) THEN {} ELSE {f} \X addresses[f].targets

EdgesIn(f) == {<<<<f, e[1]>>, <<e[2], e[3]>>>> : e \in addresses[f].forwards}

\* A function without an address parameter adds its calls, and nothing else.
VisitForTargets(item) ==
  /\ phase = "visit" /\ item \in unvisited
  /\ CheckFn(item)
  /\ LET f == item.of
         those(what) == IF Analysed(item) /\ addresses[f].params # {} THEN what ELSE {}
     IN  /\ authorized_functions' =
              authorized_functions \cup those(IF AuthorizesIn(f) THEN {f} ELSE {})
         /\ guarded_params' = guarded_params \cup those(GuardedIn(f))
         /\ address_params' = address_params \cup those({f} \X addresses[f].params)
         /\ candidates' = candidates \cup those(CandidatesIn(f))
         /\ taint_edges' = taint_edges \cup those(EdgesIn(f))
  /\ UNCHANGED <<addresses, reachable, worklist, phase, findings>>

-----------------------------------------------------------------------------
\* is_auth_reachable, over the calls that were seen.
AuthReachable(f) ==
  \E g \in authorized_functions :
    \A S \in SUBSET Functions :
      (f \in S /\ \A x \in S : Callees(x) \cap Functions \subseteq S) => g \in S

\* compute_attacker_reachable begins with the parameters of the entry points.
Seed ==
  /\ phase = "visit" /\ CrateSeen
  /\ worklist' = {p \in address_params : ~IsConstructor(p[1]) /\ IsSorobanFunction(p[1])}
  /\ reachable' = worklist'
  /\ phase' = "propagate"
  /\ UNCHANGED <<crate, addresses, facts, findings>>

ValidatedHere(p) == p \in guarded_params

Validated(p) == AuthReachable(p[1]) \/ p \in guarded_params

Onward(p) == IF Validated(p) THEN {}
             ELSE {e[2] : e \in {d \in taint_edges : d[1] = p}}

PushAgain(p) == worklist' = (worklist \ {p}) \cup Onward(p)

Push(p) == worklist' = (worklist \ {p}) \cup (Onward(p) \ reachable)

Propagate ==
  /\ phase = "propagate"
  /\ \E p \in worklist : Push(p) /\ reachable' = reachable \cup Onward(p)
  /\ UNCHANGED <<crate, addresses, facts, phase, findings>>

Report ==
  /\ phase = "propagate" /\ worklist = {}
  /\ findings' = {p \in candidates : ~Validated(p) /\ p \in reachable}
  /\ phase' = "done"
  /\ UNCHANGED <<crate, addresses, facts, reachable, worklist>>

TargetInit ==
  /\ \E c \in AddressCases : program = c[1] /\ addresses = c[2]
  /\ CrateInit
  /\ authorized_functions = {} /\ guarded_params = {} /\ address_params = {}
  /\ candidates = {} /\ taint_edges = {}
  /\ reachable = {} /\ worklist = {}
  /\ phase = "visit" /\ findings = {}

TargetNext == (\E i \in Items : VisitForTargets(i)) \/ Seed \/ Propagate \/ Report

TargetSpec == TargetInit /\ [][TargetNext]_propagation /\ WF_propagation(TargetNext)

-----------------------------------------------------------------------------
TargetType ==
  /\ CrateType
  /\ authorized_functions \subseteq Functions
  /\ guarded_params \subseteq Places /\ address_params \subseteq Places
  /\ candidates \subseteq Places /\ taint_edges \subseteq Places \X Places
  /\ worklist \subseteq reachable /\ reachable \subseteq Places
  /\ phase \in {"visit", "propagate", "done"}
  /\ phase # "visit" => unvisited = {}
  /\ findings \subseteq Places

\* The function is analysed and has an address parameter.
Looked(f) == ~program[f].expanded /\ addresses[f].params # {}

\* A parameter is validated where it is received, or some function in the flow from
\* there asks one of its own parameters for an authorization.
ValidatedAt(p) ==
  \/ Looked(p[1]) /\ p \in GuardedIn(p[1])
  \/ \E g \in Flow(p[1]) : Looked(g) /\ AuthorizesIn(g)

EntryParams == {p \in Places : /\ Looked(p[1]) /\ p[2] \in addresses[p[1]].params
                               /\ Entry(p[1]) /\ ~IsConstructor(p[1])}

\* Closed under passing on what was not validated.
Closed(S) ==
  \A p \in S : ~ValidatedAt(p) /\ Looked(p[1]) =>
    \A e \in addresses[p[1]].forwards : e[1] = p[2] => <<e[2], e[3]>> \in S

\* What reaches from a parameter of an entry point with no validation on the way.
AttackerControlled ==
  {p \in Places : \A S \in SUBSET Places : (EntryParams \subseteq S /\ Closed(S)) => p \in S}

\* Exactly the calls are reported whose address reaches from a parameter of an entry
\* point, through any number of functions, with no validation on the way; whatever
\* order functions, callees and places come in, and also if they go in circles.
TargetsReported ==
  phase = "done" =>
    findings = {p \in AttackerControlled : /\ Looked(p[1]) /\ p \in CandidatesIn(p[1])
                                           /\ ~ValidatedAt(p)}

\* The propagation ends, also when parameters are passed on in a circle.
PropagationEnds == <>(phase = "done")
=============================================================================
