------------------------------ MODULE EventLint ------------------------------
(* The detectors that look for an event: storage-change-events (an entry     *)
(* point that changes storage publishes one) and token-interface-events (so  *)
(* does a token function).  Their searches recurse over the calls and do not *)
(* remember where they were.                                                 *)
EXTENDS CrateVisit, Naturals, Sequences

CONSTANTS EventLints,        \* the detectors to run
          StackLimit         \* the calls of the search that the stack has room for

ASSUME LintsAssumption ==
  EventLints \subseteq {"storage-change-events", "token-interface-events"}

\* There is room for a chain of calls through every function.
ASSUME StackAssumption == StackLimit \in Nat /\ StackLimit > Cardinality(Functions)

VARIABLES detector,     \* the detector at work
          implemented,  \* a type of the crate has the trait TokenInterface
          emitters,     \* functions that publish an event in their own body
          writers,      \* functions that change storage in their own body
          stage,        \* "visit", "next", "event", "setter", "done", "overflow"
          unjudged,     \* functions still to be judged
          path,         \* the calls of the search, each with the callees left
          emits,        \* what the search for an event answered
          flagged       \* functions that should have published an event

event_search == <<unjudged, path, emits, flagged>>
events == <<crate, detector, implemented, emitters, writers, stage, event_search>>

\* check_item and check_fn.
VisitForEvents(item) ==
  /\ stage = "visit" /\ item \in unvisited
  /\ CheckFn(item)
  /\ LET those(what) == IF Analysed(item) /\ what \in program[item.of].does
                        THEN {item.of} ELSE {}
     IN  emitters' = emitters \cup those("event") /\ writers' = writers \cup those("set")
  /\ UNCHANGED <<detector, implemented, stage, event_search>>

-----------------------------------------------------------------------------
(* check_crate_post.                                                         *)

\* The functions that call something: the keys of the graph.
Keys == {f \in Functions : Callees(f) # {}}

Begin ==
  /\ stage = "visit" /\ CrateSeen
  /\ stage' = "next"
  /\ unjudged' = IF detector = "token-interface-events" /\ ~implemented THEN {} ELSE Keys
  /\ UNCHANGED <<crate, detector, implemented, emitters, writers, path, emits, flagged>>

Concerned(f) == IF detector = "storage-change-events" THEN IsSorobanFunction(f)
                ELSE "token" \in program[f].signature

Call(f) == [of |-> f, left |-> Callees(f)]

Top == path[Len(path)]

\* Functions that settle the search: those with an event, or those that change
\* storage without one.
Wanted == IF stage = "event" THEN emitters ELSE writers \ emitters

ReportUnlessEmits(f, sets) == ~emits

\* A function that returns a value and does not itself change storage is taken
\* for a getter.
Reportable(f, sets) ==
  /\ ~emits
  /\ sets
  /\ ~("value" \in program[f].signature /\ f \notin writers)

\* The search that began with f has its answer.
SearchAnswer(f, found) ==
  IF stage = "event" /\ detector = "storage-change-events"
  THEN stage' = "setter" /\ path' = <<Call(f)>> /\ emits' = found /\ UNCHANGED flagged
  ELSE /\ stage' = "next" /\ path' = <<>> /\ UNCHANGED emits
       /\ LET report == IF stage = "setter" THEN Reportable(f, found) ELSE ~found
          IN  flagged' = IF report THEN flagged \cup {f} ELSE flagged

NextFunction ==
  /\ stage = "next"
  /\ \E f \in unjudged :
       /\ unjudged' = unjudged \ {f}
       /\ IF Concerned(f) THEN stage' = "event" /\ path' = <<Call(f)>>
          ELSE UNCHANGED <<stage, path>>
  /\ UNCHANGED <<crate, detector, implemented, emitters, writers, emits, flagged>>

NoMoreFunctions ==
  /\ stage = "next" /\ unjudged = {}
  /\ stage' = "done"
  /\ UNCHANGED <<crate, detector, implemented, emitters, writers, event_search>>

\* The call at work looks at its own function first and then at a callee, before
\* it calls itself with that one.
Settled ==
  /\ stage \in {"event", "setter"}
  /\ ({Top.of} \cup Top.left) \cap Wanted # {}
  /\ SearchAnswer(path[1].of, TRUE)
  /\ UNCHANGED <<crate, detector, implemented, emitters, writers, unjudged>>

AskTheSame(g) == Append(path, [of |-> g, left |-> Top.left])

AskFresh(g) == Append(path, Call(g))

\* The call at work takes g from the callees left to it and calls itself with g.
Ask(g) == Append([path EXCEPT ![Len(path)].left = @ \ {g}], Call(g))

Descend ==
  /\ stage \in {"event", "setter"}
  /\ Top.of \notin Wanted
  /\ \E g \in Top.left \ Wanted :
       IF Len(path) < StackLimit THEN path' = Ask(g) /\ UNCHANGED stage
       ELSE stage' = "overflow" /\ UNCHANGED path
  /\ UNCHANGED <<crate, detector, implemented, emitters, writers, unjudged, emits, flagged>>

Return ==
  /\ stage \in {"event", "setter"}
  /\ Top.of \notin Wanted /\ Top.left = {}
  /\ IF Len(path) = 1 THEN SearchAnswer(Top.of, FALSE)
     ELSE path' = SubSeq(path, 1, Len(path) - 1) /\ UNCHANGED <<stage, emits, flagged>>
  /\ UNCHANGED <<crate, detector, implemented, emitters, writers, unjudged>>

EventInit ==
  /\ CrateInit
  /\ detector \in EventLints /\ implemented \in BOOLEAN
  /\ emitters = {} /\ writers = {}
  /\ stage = "visit"
  /\ unjudged = {} /\ path = <<>> /\ emits = FALSE /\ flagged = {}

EventPost == \/ Begin \/ NextFunction \/ NoMoreFunctions
             \/ Settled \/ Descend \/ Return

EventNext == (\E i \in Items : VisitForEvents(i)) \/ EventPost

EventSpec == EventInit /\ [][EventNext]_events /\ WF_events(EventNext)

-----------------------------------------------------------------------------
\* Every variable keeps its type, and a call of the search is always one that the
\* graph has, with callees of its function left.
EventTypeOK ==
  /\ CrateType
  /\ detector \in EventLints /\ implemented \in BOOLEAN /\ emits \in BOOLEAN
  /\ emitters \subseteq Functions /\ writers \subseteq Functions
  /\ stage \in {"visit", "next", "event", "setter", "done", "overflow"}
  /\ stage # "visit" => unvisited = {}
  /\ unjudged \subseteq Functions /\ flagged \subseteq Functions
  /\ Len(path) <= StackLimit
  /\ \A i \in DOMAIN path : path[i].left \subseteq Callees(path[i].of)

Emits(f) == \E g \in Flow(f) : ~program[g].expanded /\ "event" \in program[g].does

SetsInSilence(g) == /\ ~program[g].expanded
                    /\ "set" \in program[g].does /\ "event" \notin program[g].does

\* What the detectors are for, with what they leave aside: functions that come
\* from a macro, that call nothing, or that are taken for a getter.
Silent(f) ==
  /\ ~program[f].expanded /\ CallsOf(f) # {} /\ ~Emits(f)
  /\ \/ /\ detector = "storage-change-events"
        /\ Entry(f) /\ \E g \in Flow(f) : SetsInSilence(g)
        /\ "value" \in program[f].signature => "set" \in program[f].does
     \/ detector = "token-interface-events" /\ implemented /\ "token" \in program[f].signature

\* When an analysis ends, exactly the functions that stay silent were reported,
\* whatever order the functions were seen in and the calls followed.
SilenceReported == stage = "done" => flagged = {f \in Functions : Silent(f)}

\* The stack only runs out on a crate with functions that call one another in a
\* circle, and the crash then takes every other report of the run with it.
OverflowOnlyOnRecursion == stage = "overflow" => Recursive

\* The search answers or runs out of stack: it never goes round for ever.
EventsTerminate == <>(stage \in {"done", "overflow"})

=============================================================================
