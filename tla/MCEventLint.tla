---------------------------- MODULE MCEventLint ----------------------------
(* Crates of three functions: an entry point, a second function that may be  *)
(* one, and a helper, some of which call one another in a circle.            *)
EXTENDS EventLint

CONSTANTS entry, second, helper

Edges == {<<entry, second>>, <<entry, helper>>, <<second, helper>>,
          <<helper, second>>, <<helper, helper>>}

Function(f, calls, does, generated, expanded, value) ==
  [expanded |-> expanded, generated |-> generated,
   calls |-> {g \in {entry, second, helper} : <<f, g>> \in calls},
   does |-> does, signature |-> value \cup IF f = entry THEN {"token"} ELSE {}]

Program(calls, here, there, helped, second_is, expanded, value) ==
  [f \in {entry, second, helper} |->
     CASE f = entry -> Function(f, calls, here, Generated, FALSE, value)
       [] f = second -> Function(f, calls, there, second_is, FALSE, {})
       [] f = helper -> Function(f, calls, helped, {}, expanded, {})]

MCPrograms ==
  {Program(calls, here, there, helped, {}, expanded, value) :
     calls \in SUBSET Edges, here \in {{}, {"set"}}, there \in {{}, {"set"}},
     helped \in {{}, {"event"}}, expanded \in BOOLEAN, value \in {{}, {"value"}}}
  \cup
  {Program(calls, {}, there, helped, second_is, FALSE, {}) :
     calls \in SUBSET Edges, there \in {{"event"}, {"set", "event"}},
     helped \in {{"set"}, {"set", "event"}}, second_is \in {{"spec"}, Generated}}
=============================================================================
