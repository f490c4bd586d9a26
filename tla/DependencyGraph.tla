--------------------------- MODULE DependencyGraph ---------------------------
(* The package graph of util/dependencies.rs, step by step: its construction *)
(* from cargo's metadata and the depth-first searches that answer            *)
(* list_dependants and depends_on.  Packages are numbered in the iteration   *)
(* order of a hash set, so the order in which neighbours are pushed is free. *)
EXTENDS Integers, Sequences, FiniteSets

CONSTANTS Ids,          \* every package id that can be mentioned
          Metadatas     \* the cargo metadata the program may be given

\* Cargo's metadata: the packages it lists, whether it has a resolution, the
\* resolution's nodes and the dependencies <<node, dependency>> of each.
MetadataType ==
  [packages : SUBSET Ids, resolve : BOOLEAN,
   nodes : SUBSET Ids, deps : SUBSET (Ids \X Ids)]

ASSUME MetadatasAssumption == Metadatas \subseteq MetadataType

ASSUME IdsAssumption == Ids # {}

\* The dependencies of a resolution are a Vec.
ASSUME DepsAssumption == \A m \in Metadatas : IsFiniteSet(m.deps)

VARIABLES meta,         \* the metadata being turned into a graph
          pc,           \* "new", "ready", "pop", "push" or "broken"
          question,     \* the call being answered
          stack,        \* packages the search has still to look at
          visited,      \* packages the search has expanded
          pending,      \* neighbours of the last one that are not pushed yet
          answer        \* what the last call returned

vars == <<meta, pc, question, stack, visited, pending, answer>>

Questions == [kind : {"list", "is"}, from : Ids, to : Ids, direct : BOOLEAN]

Searching == pc \in {"pop", "push"}

\* What the graph promises, and the vocabulary of its answers.
Graph == INSTANCE GraphQuery WITH packages <- meta.packages, deps <- meta.deps,
                                  busy <- Searching

\* Mutant: the row of the matrix is read where the column should be.
NeighboursSwapped(kind, x) ==
  {y \in Ids : IF kind = "is" THEN <<y, x>> \in meta.deps
                              ELSE <<x, y>> \in meta.deps}

\* list_dependants walks the dependencies backwards, depends_on forwards.
Neighbours(kind, x) ==
  {y \in Ids : IF kind = "list" THEN <<y, x>> \in meta.deps
                                ELSE <<x, y>> \in meta.deps}

Top == stack[Len(stack)]

Popped == SubSeq(stack, 1, Len(stack) - 1)

-----------------------------------------------------------------------------
\* The metadata mentions only packages it lists.
Consistent(m) == /\ m.resolve
                 /\ m.nodes \subseteq m.packages
                 /\ m.deps \subseteq m.nodes \X m.packages

\* DependencyGraph::new fails without a resolution, and when the resolution
\* mentions a package that is not listed.
New == /\ pc = "new"
       /\ pc' = IF Consistent(meta) THEN "ready" ELSE "broken"
       /\ UNCHANGED <<meta, question, stack, visited, pending, answer>>

Known(q) == /\ q.from \in meta.packages
            /\ q.kind = "is" => q.to \in meta.packages

\* A call on an unknown package: an empty list, or an error.
AskUnknown(q) ==
  /\ pc = "ready"
  /\ ~Known(q)
  /\ question' = q
  /\ answer' = IF q.kind = "list" THEN Graph!Listed({}) ELSE Graph!Failed
  /\ UNCHANGED <<meta, pc, stack, visited, pending>>

\* direct = Some(true): one row or column of the matrix is read.
AskDirect(q) ==
  /\ pc = "ready" /\ Known(q) /\ q.direct
  /\ question' = q
  /\ LET near == Neighbours(q.kind, q.from)
     IN  answer' = IF q.kind = "list" THEN Graph!Listed(near)
                                      ELSE Graph!Holds(q.to \in near)
  /\ UNCHANGED <<meta, pc, stack, visited, pending>>

\* Otherwise a search starts from the package.
AskTransitive(q) ==
  /\ pc = "ready" /\ Known(q) /\ ~q.direct
  /\ question' = q
  /\ answer' = Graph!NoAnswer
  /\ pc' = "pop"
  /\ stack' = <<q.from>>
  /\ visited' = {}
  /\ pending' = {}
  /\ UNCHANGED meta

\* A search that returns drops its stack and its visited set.
Return == /\ pc' = "ready"
          /\ stack' = <<>> /\ visited' = {} /\ pending' = {}
          /\ UNCHANGED <<meta, question>>

\* depends_on stops as soon as the package it looks for is on top.
Found == /\ pc = "pop" /\ stack # <<>>
         /\ question.kind = "is" /\ Top = question.to
         /\ answer' = Graph!Holds(TRUE)
         /\ Return

\* Mutant: a package already expanded is expanded again.
PopAgain == /\ pc = "pop" /\ stack # <<>>
            /\ ~(question.kind = "is" /\ Top = question.to)
            /\ stack' = Popped
            /\ visited' = visited \cup {Top}
            /\ pending' = Neighbours(question.kind, Top)
            /\ pc' = "push"
            /\ UNCHANGED <<meta, question, answer>>

\* Mutant: an expanded package is recognised before it is taken off.
PopLate == /\ pc = "pop" /\ stack # <<>>
           /\ ~(question.kind = "is" /\ Top = question.to)
           /\ Top \notin visited
           /\ stack' = Popped
           /\ visited' = visited \cup {Top}
           /\ pending' = Neighbours(question.kind, Top)
           /\ pc' = "push"
           /\ UNCHANGED <<meta, question, answer>>

\* The top is taken off; a package already expanded is skipped.
Pop == /\ pc = "pop" /\ stack # <<>>
       /\ ~(question.kind = "is" /\ Top = question.to)
       /\ stack' = Popped
       /\ IF Top \in visited
          THEN UNCHANGED <<pc, visited, pending>>
          ELSE /\ visited' = visited \cup {Top}
               /\ pending' = Neighbours(question.kind, Top)
               /\ pc' = "push"
       /\ UNCHANGED <<meta, question, answer>>

Push == /\ pc = "push"
        /\ \E d \in pending : /\ stack' = Append(stack, d)
                              /\ pending' = pending \ {d}
        /\ UNCHANGED <<meta, pc, question, visited, answer>>

Pushed == /\ pc = "push" /\ pending = {}
          /\ pc' = "pop"
          /\ UNCHANGED <<meta, question, stack, visited, pending, answer>>

Exhausted == /\ pc = "pop" /\ stack = <<>>
             /\ answer' = IF question.kind = "list" THEN Graph!Listed(visited)
                                                 ELSE Graph!Holds(FALSE)
             /\ Return

Init == /\ meta \in Metadatas
        /\ pc = "new"
        /\ question = CHOOSE q \in Questions : TRUE
        /\ stack = <<>>
        /\ visited = {}
        /\ pending = {}
        /\ answer = Graph!NoAnswer

Ask == \E q \in Questions : AskUnknown(q) \/ AskDirect(q) \/ AskTransitive(q)

Search == Found \/ Pop \/ Push \/ Pushed \/ Exhausted

\* A graph that was built goes on answering; a failed construction is the end.
Next == New \/ Ask \/ Search

Spec == Init /\ [][Next]_vars /\ WF_vars(New \/ Search)

-----------------------------------------------------------------------------
InStack(x) == \E i \in DOMAIN stack : stack[i] = x

TypeOK == /\ meta \in Metadatas
          /\ pc \in {"new", "ready", "pop", "push", "broken"}
          /\ question \in Questions
          /\ stack \in Seq(Ids)
          /\ visited \in SUBSET Ids
          /\ pending \in SUBSET Ids
          /\ answer \in Graph!Answers

\* The searches keep the two promises of a graph search at every step, whatever
\* order a hash set numbers the packages in: what was expanded has all its
\* neighbours expanded or waiting, and the start is never forgotten.
Frontier ==
  Searching =>
    /\ question.from \in visited \/ InStack(question.from)
    /\ \A x \in visited : \A y \in Neighbours(question.kind, x) :
         y \in visited \/ y \in pending \/ InStack(y)

\* A package can be pushed once per edge, so the stack never holds more than
\* one entry per edge of the graph and the start: skipping expanded packages
\* is what keeps cycles (dev-dependencies make them) from growing it.
StackBound == Len(stack) + Cardinality(pending) <= Cardinality(meta.deps) + 1

\* list_dependants and depends_on return what GraphQuery promises: exactly the
\* packages from which (to which) a chain of dependencies leads, cycles and
\* shared dependencies included.
AnswersAsPromised == Graph!Spec

\* Every call returns, on a cyclic graph too.
CallsReturn == Searching ~> pc = "ready"
=============================================================================
