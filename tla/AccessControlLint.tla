-------------------------- MODULE AccessControlLint --------------------------
(* The detectors that look for an operation with no authorization around it: *)
(* set-contract-storage, unprotected-mapping-operation, unprotected-token-   *)
(* admin-operation, unprotected-update-current-contract-wasm and dos-        *)
(* unexpected-revert-with-storage; and those of FlowLints, which are visited *)
(* in the same way and decide at once.                                       *)
EXTENDS FlowLints

CONSTANTS Lints,        \* the detectors to run
          Cases         \* the crates that each of them is run on

ASSUME CasesAssumption == Cases \subseteq Lints \X Programs

VARIABLES lint,         \* the detector at work
          authorized,   \* functions with an authorization in their own body
          suspects,     \* functions with the operation and no authorization
          pc,           \* "visit", "next", "callee", "callers", "caller" or "done"
          callee,       \* the suspect being judged
          pending, visited, \* the search for an authorization: is_auth_reachable
          callers,      \* callers of the suspect still to be looked at
          called,       \* an entry point calls it
          authed,       \* every entry point that calls it reaches an authorization
          reported      \* functions whose operations were reported

search == <<pending, visited>>
judging == <<callee, callers, called, authed>>
vars == <<crate, lint, authorized, suspects, pc, search, judging, reported>>

\* What counts as an authorization.
AuthForms == CASE lint = "dos-unexpected-revert-with-storage" -> {"require_auth"}
               [] lint = "token-admin-operation" ->
                    {"require_auth", "enforcer", "require_auth_for_args"}
               [] OTHER -> {"require_auth", "enforcer"}

AuthIn(f) == program[f].does \cap AuthForms # {}

OpIn(f) == "op" \in program[f].does

SuspectAnyway(f) == OpIn(f)

Suspect(f) == OpIn(f) /\ ~AuthIn(f)

\* One function: the operations in it count unless there is an authorization.
Visit(item) ==
  /\ pc = "visit" /\ item \in unvisited
  /\ CheckFn(item)
  /\ LET f == item.of
         those(holds) == IF Analysed(item) /\ holds THEN {f} ELSE {}
     IN  IF lint \in FlowKinds
         THEN /\ suspects' = suspects \cup those(Site(lint, f))
              /\ authorized' = authorized \cup those(Credits(lint, f))
         ELSE /\ suspects' = suspects \cup those(Suspect(f))
              /\ authorized' = authorized \cup those(~Suspect(f) /\ AuthIn(f))
  /\ UNCHANGED <<lint, pc, search, judging, reported>>

-----------------------------------------------------------------------------
(* check_crate_post.  The maps are walked in the order of their hashes.      *)

StartSearch(f) == pending' = {f} /\ visited' = {}

NextSuspect ==
  /\ pc \in {"visit", "next"} /\ CrateSeen /\ lint \notin FlowKinds
  /\ \E f \in suspects :
       /\ callee' = f
       /\ suspects' = suspects \ {f}
       /\ StartSearch(f)
  /\ pc' = "callee"
  /\ UNCHANGED <<crate, lint, authorized, callers, called, authed, reported>>

NoMoreSuspects ==
  /\ pc \in {"visit", "next"} /\ CrateSeen /\ suspects = {} /\ lint \notin FlowKinds
  /\ pc' = "done"
  /\ UNCHANGED <<crate, lint, authorized, suspects, search, judging, reported>>

\* Authorization was found in the suspect's own flow: it is left alone.
\* Otherwise the functions that call it are looked at.
CalleeAnswer(reachable) ==
  IF reachable THEN pc' = "next" /\ UNCHANGED judging
  ELSE /\ pc' = "callers"
       /\ callers' = Callers(callee)
       /\ called' = FALSE /\ authed' = TRUE
       /\ UNCHANGED callee

CallerAnswer(reachable) ==
  /\ pc' = "callers"
  /\ called' = TRUE /\ authed' = reachable
  /\ UNCHANGED <<callee, callers>>

Answer(reachable) == \/ pc = "callee" /\ CalleeAnswer(reachable)
                     \/ pc = "caller" /\ CallerAnswer(reachable)

ExpandAgain(f) == pending' = (pending \ {f}) \cup Callees(f)

Expand(f) == pending' = (pending \ {f}) \cup (Callees(f) \ (visited \cup {f}))

\* The search takes a function from its stack, in an order that the hashes of
\* the callees decide, and does not look at one twice.
Look ==
  /\ pc \in {"callee", "caller"}
  /\ \E f \in pending :
       \/ f \in authorized /\ Answer(TRUE) /\ UNCHANGED search
       \/ /\ f \notin authorized
          /\ Expand(f)
          /\ visited' = visited \cup {f}
          /\ UNCHANGED <<pc, judging>>
  /\ UNCHANGED <<crate, lint, authorized, suspects, reported>>

NotFound ==
  /\ pc \in {"callee", "caller"} /\ pending = {}
  /\ Answer(FALSE)
  /\ UNCHANGED <<crate, lint, authorized, suspects, search, reported>>

\* An entry point that does not reach an authorization settles it: the others
\* are only noted.
NextCaller ==
  /\ pc = "callers"
  /\ \E f \in callers :
       /\ callers' = callers \ {f}
       /\ IF IsSorobanFunction(f) /\ authed
          THEN pc' = "caller" /\ StartSearch(f) /\ UNCHANGED called
          ELSE /\ called' = (called \/ IsSorobanFunction(f))
               /\ UNCHANGED <<pc, search>>
  /\ UNCHANGED <<crate, lint, authorized, suspects, callee, authed, reported>>

Judge ==
  /\ pc = "callers" /\ callers = {}
  /\ reported' = IF IsSorobanFunction(callee) \/ (called /\ ~authed)
                 THEN reported \cup {callee} ELSE reported
  /\ pc' = "next"
  /\ UNCHANGED <<crate, lint, authorized, suspects, search, judging>>

\* The detectors of FlowLints, whose sites do not bear on one another.
Decide ==
  /\ pc = "visit" /\ CrateSeen /\ lint \in FlowKinds
  /\ reported' = {f \in suspects : ReportedBy(lint, f, authorized)}
  /\ pc' = "done"
  /\ UNCHANGED <<crate, lint, authorized, suspects, search, judging>>

Init == /\ CrateInit
        /\ lint \in Lints /\ <<lint, program>> \in Cases
        /\ authorized = {} /\ suspects = {}
        /\ pc = "visit"
        /\ callee = External
        /\ pending = {} /\ visited = {} /\ callers = {}
        /\ called = FALSE /\ authed = TRUE
        /\ reported = {}

Post == Decide \/ NextSuspect \/ NoMoreSuspects \/ Look \/ NotFound \/ NextCaller \/ Judge

Next == (\E i \in Items : Visit(i)) \/ Post

Spec == Init /\ [][Next]_vars /\ WF_vars(Next)

-----------------------------------------------------------------------------
\* Every variable of the detector keeps its type, and nothing is judged before
\* the whole crate was seen.
TypeOK == /\ CrateType
          /\ lint \in Lints
          /\ authorized \subseteq Functions /\ suspects \subseteq Functions
          /\ pc \in {"visit", "next", "callee", "callers", "caller", "done"}
          /\ pc # "visit" => unvisited = {}
          /\ callee \in Functions \cup {External}
          /\ pending \subseteq Functions \cup {External}
          /\ visited \subseteq Functions \cup {External}
          /\ callers \subseteq Functions
          /\ called \in BOOLEAN /\ authed \in BOOLEAN
          /\ reported \subseteq Functions

\* Authorization is somewhere in the flow of f.
Protected(f) == \E g \in Flow(f) : ~program[g].expanded /\ AuthIn(g)

\* The operation in f can be reached without any authorization: from f itself, or
\* from an entry point that calls it.
Exposed(f) == \/ Entry(f)
              \/ \E g \in Functions : Entry(g) /\ Calls(g, f) /\ ~Protected(g)

\* What a report of the detector stands for.
Misuse(f) == IF lint \in FlowKinds THEN Wrong(lint, f)
             ELSE ~program[f].expanded /\ OpIn(f) /\ ~Protected(f) /\ Exposed(f)

\* No false alarm: an operation is reported only when no authorization is in its
\* own flow and an entry point gets to it without one, however deep the helper is
\* that asks for it, and whatever order functions, callers and callees come in; and
\* the same of what the detectors of FlowLints look for.
ReportsJustified == \A f \in reported : Misuse(f)

\* No miss, as far as the detectors look: at the end every such operation in an
\* entry point or in what one calls directly is reported.
NoneMissed == pc = "done" => \A f \in Functions : Misuse(f) => f \in reported

\* The analysis ends on every crate, also on one whose functions call each other.
Terminates == <>(pc = "done")
=============================================================================
