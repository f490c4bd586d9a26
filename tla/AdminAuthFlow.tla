---------------------------- MODULE AdminAuthFlow ----------------------------
(* missing-new-admin-auth: before an address is stored as the new admin, it   *)
(* and the current admin have to sign.  A data flow over the blocks of each   *)
(* function, with a summary of what its callees ask for; the summaries of the *)
(* functions that an entry point reaches are computed to a fixpoint.          *)
EXTENDS CrateVisit

CONSTANTS Params,       \* the places of parameters
          Current,      \* the admin that is read from storage
          Blocks,       \* the basic blocks of a function
          First,        \* the one that a call begins with
          NoBlock,      \* no block
          Cases         \* crates, each with the bodies of its functions

Admins == Params \cup {Current}

\* What happens in a block: nothing, a require_auth, a new admin is stored, a function
\* of the crate is called (with args: pairs of its parameter and the caller's), or a
\* call that never returns, or the end of a cleanup.
Event == [does : {"nothing", "require_auth", "set", "call", "panic"}, who : Admins,
          callee : Functions, args : SUBSET (Params \X Params)]

\* A switch over a value that is assigned in its own block takes one way only, and a
\* call that panics goes to the block of cleanups that drops what is in scope.
BodyType == [params : SUBSET Params, does : [Blocks -> Event],
             successors : [Blocks -> SUBSET Blocks], constant : [Blocks -> Blocks \cup {NoBlock}],
             unwind : [Blocks -> Blocks \cup {NoBlock}], cleanups : SUBSET (Blocks \ {First})]

ASSUME BlocksAssumption == First \in Blocks /\ NoBlock \notin Blocks

ASSUME ParamsAssumption == Current \notin Params

ASSUME CasesAssumption == Cases \subseteq Programs \X [Functions -> BodyType]

\* A call site of the body is a call by path or by method, and FunctionCallVisitor takes
\* the same ones of the same body into the graph.
ASSUME CallsAssumption ==
  \A c \in Cases : \A f \in Functions, b \in Blocks :
    c[2][f].does[b].does = "call" => c[2][f].does[b].callee \in c[1][f].calls

\* Cleanups only drop values, and never come back to what is no cleanup.
ASSUME CleanupsAssumption ==
  \A c \in Cases : \A f \in Functions, b \in Blocks :
    LET body == c[2][f]
    IN  /\ body.unwind[b] \in body.cleanups \cup {NoBlock}
        /\ b \in body.cleanups =>
             /\ body.successors[b] \cup ({body.constant[b]} \ {NoBlock}) \subseteq body.cleanups
             /\ body.does[b].does \in {"nothing", "panic"}
             /\ body.successors[b] = {} => body.does[b].does = "panic"

VARIABLES bodies,       \* the functions after optimization (MIR)
          params,       \* the functions whose parameters and events were collected
          pc,           \* "visit", "entries", "fixpoint" or "done"
          looked_at,    \* entry points that were analysed
          reachable,    \* the functions that the present one reaches
          summaries,    \* what each of these asks for on every way to its end
          todo,         \* those that are left in this round
          changed,      \* some summary changed in this round
          reported      \* the blocks that were reported, with their function

fixpoint == <<reachable, summaries, todo, changed>>
vars == <<crate, bodies, params, pc, looked_at, fixpoint, reported>>

IsInitializeFn(f) == "initialize" \in program[f].signature

\* A function named initialize is left out altogether, its name included.
Visit(item) ==
  /\ pc = "visit" /\ item \in unvisited
  /\ IF IsInitializeFn(item.of)
     THEN unvisited' = unvisited \ {item} /\ UNCHANGED <<program, checked, graph, params>>
     ELSE /\ CheckFn(item)
          /\ params' = IF Analysed(item) THEN params \cup {item.of} ELSE params
  /\ UNCHANGED <<bodies, pc, looked_at, fixpoint, reported>>

CrateShown ==
  /\ pc = "visit" /\ CrateSeen /\ pc' = "entries"
  /\ UNCHANGED <<crate, bodies, params, looked_at, fixpoint, reported>>

-----------------------------------------------------------------------------
(* The flow in one function.                                                 *)
Edges(f, b) == IF bodies[f].constant[b] = NoBlock THEN bodies[f].successors[b]
               ELSE {bodies[f].constant[b]}

AuthEvent(f, b, x) == bodies[f].does[b].does = "require_auth" /\ bodies[f].does[b].who = x

\* As if the callee's parameters were the caller's.
CallReturnByPlace(f, b, x, known) ==
  LET e == bodies[f].does[b]
  IN  e.does = "call" /\ e.callee \in DOMAIN known /\ x \in known[e.callee]

\* What the summary of the callee says of the arguments, and of the current admin.
CallReturn(f, b, x, known) ==
  LET e == bodies[f].does[b]
  IN  /\ e.does = "call" /\ e.callee \in DOMAIN known
      /\ \/ x = Current /\ Current \in known[e.callee]
         \/ \E y \in Params : <<y, x>> \in e.args /\ y \in known[e.callee]

\* Where a call goes that panics.
Unwinds(f, b) == {bodies[f].unwind[b]} \ {NoBlock}

\* Where the flow goes on from b with x not asked for: a require_auth counts whether it
\* comes back or panics, the summary of a callee only where the call has come back.
Propagates(f, b, x, known) ==
  IF AuthEvent(f, b, x) THEN {}
  ELSE Unwinds(f, b) \cup IF CallReturn(f, b, x, known) THEN {} ELSE Edges(f, b)

\* iterate_to_fixpoint: the blocks that some way from the first one comes to before x
\* was asked for: every set of blocks without it, from the first one on, is left by some
\* edge.  The facts of different x are joined without looking at each other.
Unauthorized(f, x, known) ==
  {b \in Blocks :
     \A S \in SUBSET (Blocks \ {b}) :
       First \in S => \E c \in S : ~(Propagates(f, c, x, known) \subseteq S)}

Tracked(f) == bodies[f].params \cup {Current}

\* A block that nothing follows, whether it returns or not.
SummaryExit(f, b) == bodies[f].successors[b] = {} /\ Unwinds(f, b) = {}

\* As if a way that asks were enough.
SummaryOfSomeWay(f, known) ==
  {x \in Tracked(f) :
     \E b \in Blocks : SummaryExit(f, b)
                       /\ (AuthEvent(f, b, x) \/ b \notin Unauthorized(f, x, known))}

Summary(f, known) ==
  {x \in Tracked(f) :
     \A b \in Unauthorized(f, x, known) : SummaryExit(f, b) => AuthEvent(f, b, x)}

\* The new admins of which one of the two did not sign on some way.
UnsafeSinks(f, known) ==
  {b \in Blocks :
     /\ bodies[f].does[b].does = "set" /\ bodies[f].does[b].who \in bodies[f].params
     /\ b \in Unauthorized(f, bodies[f].does[b].who, known)
          \cup Unauthorized(f, Current, known)}

-----------------------------------------------------------------------------
(* check_crate_post, for one entry point after the other, in any order.      *)
ReachableFrom(f) ==
  {g \in Functions :
     \A S \in SUBSET Functions :
       (f \in S /\ \A x \in S : Callees(x) \cap Functions \subseteq S) => g \in S}

\* As if a function called in a circle were trusted to begin with.
StartTrusting(f) ==
  /\ pc = "entries" /\ f \in Functions \ looked_at /\ IsSorobanFunction(f)
  /\ reachable' = ReachableFrom(f)
  /\ summaries' = [g \in reachable' \cap params |-> Tracked(g)]
  /\ todo' = reachable' \cap params /\ changed' = FALSE
  /\ looked_at' = looked_at \cup {f} /\ pc' = "fixpoint"
  /\ UNCHANGED <<crate, bodies, params, reported>>

StartEntry(f) ==
  /\ pc = "entries" /\ f \in Functions \ looked_at /\ IsSorobanFunction(f)
  /\ reachable' = ReachableFrom(f)
  /\ summaries' = [g \in reachable' \cap params |-> {}]
  /\ todo' = reachable' \cap params /\ changed' = FALSE
  /\ looked_at' = looked_at \cup {f} /\ pc' = "fixpoint"
  /\ UNCHANGED <<crate, bodies, params, reported>>

Recompute(f) ==
  /\ pc = "fixpoint" /\ f \in todo
  /\ summaries' = [summaries EXCEPT ![f] = Summary(f, summaries)]
  /\ changed' = (changed \/ summaries' # summaries)
  /\ todo' = todo \ {f}
  /\ UNCHANGED <<crate, bodies, params, pc, looked_at, reachable, reported>>

\* As if what changed were not looked at.
NextRoundAlways ==
  /\ pc = "fixpoint" /\ todo = {}
  /\ todo' = DOMAIN summaries /\ changed' = FALSE
  /\ UNCHANGED <<crate, bodies, params, pc, looked_at, reachable, summaries, reported>>

NextRound ==
  /\ pc = "fixpoint" /\ todo = {} /\ changed
  /\ todo' = DOMAIN summaries /\ changed' = FALSE
  /\ UNCHANGED <<crate, bodies, params, pc, looked_at, reachable, summaries, reported>>

Sinks == {c \in (DOMAIN summaries) \X Blocks : c[2] \in UnsafeSinks(c[1], summaries)}

\* As if one round were enough.
LintAfterOneRound ==
  /\ pc = "fixpoint" /\ todo = {}
  /\ reported' = reported \cup Sinks
  /\ pc' = "entries"
  /\ UNCHANGED <<crate, bodies, params, looked_at, fixpoint>>

LintSinks ==
  /\ pc = "fixpoint" /\ todo = {} /\ ~changed
  /\ reported' = reported \cup Sinks
  /\ pc' = "entries"
  /\ UNCHANGED <<crate, bodies, params, looked_at, fixpoint>>

NoMoreEntries ==
  /\ pc = "entries" /\ \A f \in Functions : IsSorobanFunction(f) => f \in looked_at
  /\ pc' = "done"
  /\ UNCHANGED <<crate, bodies, params, looked_at, fixpoint, reported>>

Init ==
  /\ \E c \in Cases : program = c[1] /\ bodies = c[2]
  /\ CrateInit
  /\ params = {} /\ pc = "visit" /\ looked_at = {} /\ reachable = {}
  /\ summaries = [f \in {} |-> {}] /\ todo = {} /\ changed = FALSE
  /\ reported = {}

Next == \/ \E i \in Items : Visit(i)
        \/ CrateShown
        \/ \E f \in Functions : StartEntry(f) \/ Recompute(f)
        \/ NextRound \/ LintSinks \/ NoMoreEntries

Spec == Init /\ [][Next]_vars /\ WF_vars(Next)

-----------------------------------------------------------------------------
(* What is true of the crate.  An execution calls, returns and ends; a       *)
(* function that panics does not come back to its caller.                    *)
Known(f) == ~program[f].expanded /\ ~IsInitializeFn(f)

\* A call keeps silent about x when what x is passed as may come back unasked; silent
\* has the parameters, and Current, that may come back so from each function.
KeepsSilent(f, b, x, silent) ==
  LET e == bodies[f].does[b]
  IN  e.does = "call" /\ Known(e.callee) =>
        /\ x = Current => <<e.callee, Current>> \in silent
        /\ \A y \in Params : <<y, x>> \in e.args => <<e.callee, y>> \in silent

\* Where f goes on from b when nobody asks for x there; to a cleanup only when it panics.
GoesOn(f, b, x, silent, panics) ==
  IF AuthEvent(f, b, x) THEN {}
  ELSE (IF KeepsSilent(f, b, x, silent) THEN Edges(f, b) ELSE {})
         \cup (IF panics THEN Unwinds(f, b) ELSE {})

\* The blocks that an execution of f may come to before x was asked for: it leaves every
\* set without them.
Unasked(f, x, silent, panics) ==
  {b \in Blocks :
     \A S \in SUBSET (Blocks \ {b}) :
       First \in S => \E c \in S : ~(GoesOn(f, c, x, silent, panics) \subseteq S)}

\* The ends of f that come without x having been asked for.
UnaskedEnds(f, x, silent, panics) ==
  {b \in Unasked(f, x, silent, panics) : SummaryExit(f, b) /\ ~AuthEvent(f, b, x)}

Panics(f, b) == bodies[f].does[b].does = "panic"

\* What may come back unasked, or also panic, when the callees behave as silent says.
Silenced(silent, panics) ==
  {s \in {f \in Functions : Known(f)} \X Admins :
     \/ s[2] \notin Tracked(s[1])
     \/ \E b \in UnaskedEnds(s[1], s[2], silent, panics) : panics \/ ~Panics(s[1], b)}

\* What some execution makes come back unasked, for a reason that ends: the least set
\* that Silenced maps into itself.
Silent ==
  LET most == Silenced(Functions \X Admins, FALSE)
      closed == {R \in SUBSET most : Silenced(R, FALSE) \subseteq R}
  IN  {s \in most : \A R \in closed : s \in R}

\* What comes back unasked if a panic is a way to come back, and if of functions that
\* call one another in a circle none is trusted before the others: the largest set
\* that Silenced maps onto itself.
Doubted ==
  LET most == Silenced(Functions \X Admins, TRUE)
  IN  UNION {R \in SUBSET most : R \subseteq Silenced(R, TRUE)}

\* From an entry point to f along calls of functions that are looked at.
Follows(f, g) == Known(f) /\ Calls(f, g)

Within(f) ==
  {g \in Functions :
     \A S \in SUBSET Functions :
       (f \in S /\ \A x \in S : \A y \in Functions : Follows(x, y) => y \in S) => g \in S}

Entered(g) == Known(g) /\ \E f \in Functions : Known(f) /\ Entry(f) /\ g \in Within(f)

Missing(f, b, silent) ==
  LET e == bodies[f].does[b]
  IN  /\ e.does = "set" /\ e.who \in bodies[f].params
      /\ b \in Unasked(f, e.who, silent, FALSE) \cup Unasked(f, Current, silent, FALSE)

\* Every new admin that some execution from an entry point stores, without it or the
\* current one having signed, is reported; in whatever order functions are seen and
\* their summaries computed, and also if they call one another in a circle.
NoSinkMissed ==
  pc = "done" =>
    LET silent == Silent
    IN  \A c \in (Functions \X Blocks) \ reported :
          ~(Entered(c[1]) /\ Missing(c[1], c[2], silent))

\* The functions that f calls on.
Below(f) == UNION {Within(h) : h \in {h \in Functions : Follows(f, h)}}

\* It calls itself, if only through others.
InCircle(g) == g \in Below(g)

\* Somebody it should ask g does not ask before it panics.
PanicsUnasked(g, doubted) ==
  Known(g) /\ \E x \in Tracked(g) : \E b \in UnaskedEnds(g, x, doubted, TRUE) : Panics(g, b)

\* Every alarm is for a way to the new admin on which one of the two is not asked, if a
\* callee that panics before it asks is taken to come back (mir_auth_flow.rs:323) and
\* callees in a circle are not trusted; where the function calls on none of these, some
\* execution takes that way.
AlarmsExplained ==
  pc = "done" =>
    LET silent == Silent
        doubted == Doubted
    IN  \A c \in reported :
          /\ Entered(c[1]) /\ Missing(c[1], c[2], doubted)
          /\ \/ Missing(c[1], c[2], silent)
             \/ \E g \in Below(c[1]) : InCircle(g) \/ PanicsUnasked(g, doubted)

\* While an entry point is analysed, a summary only gains, whatever it is computed
\* from: none is taken back after a caller has used it.
SummariesGrow ==
  [][pc = "fixpoint" /\ pc' = "fixpoint" =>
       \A f \in DOMAIN summaries : summaries[f] \subseteq summaries'[f]]_vars

\* The fixpoint is reached, and every entry point looked at.
Terminates == <>(pc = "done")
=============================================================================
