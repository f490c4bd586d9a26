------------------------------ MODULE BodyWalk ------------------------------
(* How a detector that looks at one function at a time works: the compiler's  *)
(* visitor goes through the body in the order it is written (visit_expr,     *)
(* visit_block), and the detector keeps a memory of what it has passed.  A   *)
(* body is built one construct at a time, so that every body is walked.      *)
EXTENDS Integers, Sequences, FiniteSets

CONSTANTS Lints,        \* the detectors to run
          Locals,       \* local variables of the function
          Param,        \* a parameter of it: a value that is not known
          Nowhere,      \* no local, or no name
          Longest,      \* bound: constructs in a body, for each detector
          Contracts     \* bodies that are walked to their end beyond it

ASSUME LongestAssumption == Longest \in [Lints -> Nat] /\ DOMAIN Contracts = Lints

VARIABLES lint,         \* the detector at work
          walked,       \* the constructs that it has passed
          memory,       \* what it keeps, a record of its own shape
          reported      \* the positions in walked that it has reported

walk == <<lint, walked, memory, reported>>

(* A construct is a record: do says what it is, the other fields what it is  *)
(* about.  Constructs with a body come in two, an opening one and "close".   *)
Opening == {"block", "then", "zero", "empty", "if", "loop", "match", "closure",
            "mod", "impl", "fn", "method"}

Depth(n) == Cardinality({i \in 1 .. n : walked[i].do \in Opening})
            - Cardinality({i \in 1 .. n : walked[i].do = "close"})

Here == Len(walked) + 1

\* The construct just passed, if there is one: enough for what is said of each
\* construct and of those before it, since every state has its turn.
Latest == IF walked = <<>> THEN {} ELSE {Len(walked)}

Top(stack) == stack[Len(stack)]

Pop(stack) == SubSeq(stack, 1, Len(stack) - 1)

ReplaceTop(stack, frame) == Append(Pop(stack), frame)

Mark(holds) == IF holds THEN {Here} ELSE {}

\* What is passed of a contract's body, on the way to its end.
Parts == [l \in Lints |-> UNION {{SubSeq(b, 1, n) : n \in DOMAIN b} : b \in Contracts[l]}]

\* A part of an expression, of a type or of a key, with its own parts.
Node(op, args) == [op |-> op, args |-> args]

\* A detector that keeps nothing.
Nothing == [x \in {} |-> 0]

\* check_fn and check_crate make a detector anew.
Begin(start) == lint \in Lints /\ walked = <<>> /\ memory = start /\ reported = {}

\* The behaviours in which visit is all that these detectors do, and the others what
\* they like: what is said of one visitor wherever it is composed with others.
Follows(lints, start, visit) ==
  /\ lint \in lints => Begin(start)
  /\ [][IF lint \in lints THEN visit ELSE UNCHANGED lint]_walk

Works(lints) == lint \in lints /\ (Len(walked) < Longest[lint] \/ walked \in Parts[lint])

\* The visitor comes to e, reports some positions, and remembers next.
Pass(e, next, reports) ==
  /\ Len(walked) < Longest[lint] \/ Append(walked, e) \in Parts[lint]
  /\ e.do = "close" => Depth(Len(walked)) > 0
  /\ walked' = Append(walked, e)
  /\ memory' = next
  /\ reported' = reported \cup reports
  /\ UNCHANGED lint

\* The opening construct i is the one that the "close" at n belongs to.
Opens(i, n) == /\ Depth(i - 1) = Depth(n) /\ walked[i].do \in Opening
               /\ \A j \in i .. n - 1 : Depth(j) > Depth(n)

Opener(n) == CHOOSE i \in 1 .. n : Opens(i, n)

\* Position i is still in the scope that position n stands in.
InScope(n, i) == \A j \in n .. i - 1 : Depth(j) >= Depth(n)
=============================================================================
