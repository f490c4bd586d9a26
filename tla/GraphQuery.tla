----------------------------- MODULE GraphQuery -----------------------------
(* What a dependency graph promises: questions are answered one at a time,   *)
(* each from the set of packages reachable along the dependencies.           *)
CONSTANTS Ids,          \* package ids
          Questions     \* records [kind, from, to, direct]

VARIABLES packages,     \* the packages of the graph
          deps,         \* pairs <<x, y>>: x depends on y
          busy,         \* a question is being worked on
          question,     \* the last question asked
          answer        \* its answer

vars == <<packages, deps, busy, question, answer>>

\* Answers: none yet, an error, a list of packages, a truth value.
NoAnswer == [status |-> "none", list |-> {}, holds |-> FALSE]
Failed   == [status |-> "err",  list |-> {}, holds |-> FALSE]
Listed(S) == [status |-> "ok", list |-> S, holds |-> FALSE]
Holds(b)  == [status |-> "ok", list |-> {}, holds |-> b]
Answers == [status : {"none", "err", "ok"}, list : SUBSET Ids, holds : BOOLEAN]

\* The edges a question follows: towards dependents for a "list" question,
\* towards dependencies for an "is" question.
Follows(q, x, y) == IF q.kind = "list" THEN <<y, x>> \in deps
                                       ELSE <<x, y>> \in deps

\* S is closed under the edges q follows.
Closed(S, q) == \A x \in S : \A y \in Ids : Follows(q, x, y) => y \in S

\* Everything q reaches, its starting point included: the least closed set.
Reached(q) ==
  {y \in Ids : \A S \in SUBSET Ids : (q.from \in S /\ Closed(S, q)) => y \in S}

Near(q) == {y \in Ids : Follows(q, q.from, y)}

Known(q) == /\ q.from \in packages
            /\ q.kind = "is" => q.to \in packages

Found(q) == IF q.direct THEN Near(q) ELSE Reached(q)

\* The right answer to q.
Promise(q) ==
  IF q.kind = "list" THEN Listed(IF Known(q) THEN Found(q) ELSE {})
                     ELSE IF Known(q) THEN Holds(q.to \in Found(q)) ELSE Failed

Init == ~busy /\ answer = NoAnswer

Ask == /\ ~busy
       /\ question' \in Questions
       /\ \/ busy' = TRUE /\ answer' = NoAnswer
          \/ busy' = FALSE /\ answer' = Promise(question')
       /\ UNCHANGED <<packages, deps>>

Answer == /\ busy
          /\ busy' = FALSE
          /\ answer' = Promise(question)
          /\ UNCHANGED <<packages, deps, question>>

Next == Ask \/ Answer

Spec == Init /\ [][Next]_vars
=============================================================================
