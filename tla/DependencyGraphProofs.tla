------------------------ MODULE DependencyGraphProofs ------------------------
(* The searches of DependencyGraph answer every question correctly, for any  *)
(* packages and any metadata.                                                *)
EXTENDS DependencyGraph, SequenceTheorems, FiniteSetTheorems, TLAPS

\* Everything a search has seen lies in every closed set around its start.
Seen(x) == x \in visited \/ x \in pending \/ InStack(x)

Sound == \A S \in SUBSET Ids :
           question.from \in S /\ Graph!Closed(S, question) =>
             \A x \in Ids : Seen(x) => x \in S

\* A search runs for a question that needs one, and a package depends_on looks
\* for is recognised before it is expanded.
Asked == /\ Known(question) /\ ~question.direct
         /\ question.kind = "is" => question.to \notin visited
         /\ answer = Graph!NoAnswer
         /\ pc = "pop" => pending = {}

IInv == /\ TypeOK
        /\ pc = "new" => answer = Graph!NoAnswer
        /\ Frontier
        /\ Searching => Sound /\ Asked

-----------------------------------------------------------------------------
\* Taking the last element off a stack leaves the others.
LEMMA PopElements ==
  ASSUME NEW T, NEW s \in Seq(T), s # <<>>
  PROVE  /\ SubSeq(s, 1, Len(s) - 1) \in Seq(T)
         /\ s[Len(s)] \in T
         /\ \A x : (\E i \in DOMAIN s : s[i] = x) <=>
                   (x = s[Len(s)] \/
                    \E i \in DOMAIN SubSeq(s, 1, Len(s) - 1) :
                       SubSeq(s, 1, Len(s) - 1)[i] = x)
<1> DEFINE p == SubSeq(s, 1, Len(s) - 1)
<1>1. Len(s) \in Nat /\ Len(s) >= 1 /\ DOMAIN s = 1 .. Len(s)
  OBVIOUS
<1>2. p \in Seq(T) /\ Len(p) = Len(s) - 1 /\ DOMAIN p = 1 .. (Len(s) - 1)
  BY <1>1
<1>3. \A i \in 1 .. (Len(s) - 1) : p[i] = s[i]
  BY <1>1
<1>4. s[Len(s)] \in T
  BY <1>1
<1>5. ASSUME NEW x PROVE (\E i \in DOMAIN s : s[i] = x) <=>
                         (x = s[Len(s)] \/ \E i \in DOMAIN p : p[i] = x)
  <2>1. ASSUME NEW i \in DOMAIN s, s[i] = x, x # s[Len(s)]
        PROVE  \E j \in DOMAIN p : p[j] = x
    <3>1. i \in 1 .. (Len(s) - 1)
      BY <1>1, <2>1
    <3> QED BY <1>2, <1>3, <2>1, <3>1
  <2>2. ASSUME NEW i \in DOMAIN p PROVE i \in DOMAIN s /\ s[i] = p[i]
    BY <1>1, <1>2, <1>3
  <2>3. Len(s) \in DOMAIN s
    BY <1>1
  <2> HIDE DEF p
  <2> QED BY <2>1, <2>2, <2>3
<1> QED BY <1>2, <1>4, <1>5

\* Pushing adds one element to a stack.
LEMMA PushElements ==
  ASSUME NEW T, NEW s \in Seq(T), NEW d \in T
  PROVE  /\ Append(s, d) \in Seq(T)
         /\ \A x : (\E i \in DOMAIN Append(s, d) : Append(s, d)[i] = x) <=>
                   (x = d \/ \E i \in DOMAIN s : s[i] = x)
<1>1. /\ Append(s, d) \in Seq(T)
      /\ DOMAIN s = 1 .. Len(s) /\ Len(s) \in Nat
      /\ DOMAIN Append(s, d) = 1 .. (Len(s) + 1)
      /\ Append(s, d)[Len(s) + 1] = d
      /\ \A i \in 1 .. Len(s) : Append(s, d)[i] = s[i]
  OBVIOUS
<1> QED BY <1>1

\* The neighbours the matrix gives are the edges the promise follows.
LEMMA NeighboursFollow ==
  ASSUME NEW x, NEW y
  PROVE  y \in Neighbours(question.kind, x) <=>
           y \in Ids /\ Graph!Follows(question, x, y)
BY DEF Neighbours, Graph!Follows

-----------------------------------------------------------------------------
LEMMA InitInv == Init => IInv
<1> SUFFICES ASSUME Init PROVE IInv
  OBVIOUS
<1>1. Questions # {}
  <2>1. PICK p \in Ids : TRUE
    BY IdsAssumption
  <2>2. [kind |-> "list", from |-> p, to |-> p, direct |-> TRUE] \in Questions
    BY DEF Questions
  <2> QED BY <2>2
<1>2. question \in Questions
  BY <1>1 DEF Init
<1>3. <<>> \in Seq(Ids)
  OBVIOUS
<1>4. TypeOK
  BY <1>2, <1>3 DEF Init, TypeOK, Graph!NoAnswer, Graph!Answers
<1> QED BY <1>4 DEF Init, IInv, Searching, Frontier

-----------------------------------------------------------------------------
LEMMA AnswerTypes ==
  /\ \A S \in SUBSET Ids : Graph!Listed(S) \in Graph!Answers
  /\ \A b \in BOOLEAN : Graph!Holds(b) \in Graph!Answers
  /\ Graph!Failed \in Graph!Answers
  /\ Graph!NoAnswer \in Graph!Answers
BY DEF Graph!Answers, Graph!Listed, Graph!Holds, Graph!Failed, Graph!NoAnswer

LEMMA NextType == TypeOK /\ [Next]_vars => TypeOK'
<1> SUFFICES ASSUME TypeOK, [Next]_vars PROVE TypeOK'
  OBVIOUS
<1> USE AnswerTypes DEF TypeOK
<1>1. CASE New
  BY <1>1 DEF New
<1>2. ASSUME NEW q \in Questions, AskUnknown(q) \/ AskDirect(q) \/ AskTransitive(q)
      PROVE  TypeOK'
  <2>1. <<q.from>> \in Seq(Ids) /\ q.to \in Ids
    BY DEF Questions
  <2>2. CASE AskUnknown(q)
    <3>1. {} \in SUBSET Ids
      OBVIOUS
    <3> QED BY <2>2, <3>1 DEF AskUnknown
  <2>3. CASE AskDirect(q)
    <3>1. Neighbours(q.kind, q.from) \in SUBSET Ids
      BY DEF Neighbours
    <3>2. (q.to \in Neighbours(q.kind, q.from)) \in BOOLEAN
      OBVIOUS
    <3> QED BY <2>3, <3>1, <3>2 DEF AskDirect
  <2>4. CASE AskTransitive(q)
    BY <2>4, <2>1 DEF AskTransitive
  <2> QED BY <1>2, <2>2, <2>3, <2>4
<1>a. <<>> \in Seq(Ids) /\ {} \in SUBSET Ids
  OBVIOUS
<1>3. CASE Found
  BY <1>3, <1>a DEF Found, Return
<1>4. CASE Pop
  <2>1. Popped \in Seq(Ids) /\ Top \in Ids
    BY <1>4, PopElements DEF Pop, Popped, Top
  <2> QED BY <1>4, <2>1 DEF Pop, Neighbours
<1>5. CASE Push
  BY <1>5, PushElements DEF Push
<1>6. CASE Pushed
  BY <1>6 DEF Pushed
<1>7. CASE Exhausted
  BY <1>7, <1>a DEF Exhausted, Return
<1>8. CASE UNCHANGED vars
  BY <1>8 DEF vars
<1> QED BY <1>1, <1>2, <1>3, <1>4, <1>5, <1>6, <1>7, <1>8 DEF Next, Ask, Search

-----------------------------------------------------------------------------
\* The part of the invariant about a running search.
SearchInv == Searching => Frontier /\ Sound /\ Asked

\* What is in the stack after a pop and after a push.
LEMMA PopStack ==
  ASSUME TypeOK, stack # <<>>, stack' = Popped
  PROVE  Top \in Ids /\ \A x : InStack(x) <=> (x = Top \/ InStack(x)')
<1>1. /\ stack[Len(stack)] \in Ids
      /\ \A x : (\E i \in DOMAIN stack : stack[i] = x) <=>
                (x = stack[Len(stack)] \/ \E i \in DOMAIN Popped : Popped[i] = x)
  BY PopElements DEF TypeOK, Popped
<1>2. \A x : InStack(x)' <=> \E i \in DOMAIN Popped : Popped[i] = x
  BY DEF InStack
<1> QED BY <1>1, <1>2 DEF InStack, Top

LEMMA PushStack ==
  ASSUME TypeOK, NEW d \in Ids, stack' = Append(stack, d)
  PROVE  \A x : InStack(x)' <=> (x = d \/ InStack(x))
BY PushElements DEF TypeOK, InStack

\* A search that starts has seen its starting point only.
LEMMA StartInv ==
  ASSUME TypeOK, NEW q \in Questions, AskTransitive(q)
  PROVE  (Frontier /\ Sound /\ Asked)'
<1> USE DEF AskTransitive
<1>1. \A x : InStack(x)' <=> x = q.from
  BY DEF InStack
<1>2. Frontier'
  BY <1>1 DEF Frontier
<1>3. Sound'
  BY <1>1 DEF Sound, Seen
<1>4. Asked'
  BY DEF Asked, Known
<1> QED BY <1>2, <1>3, <1>4

\* Expanding the top of the stack keeps the invariant, whether it is new or not.
LEMMA PopInv ==
  ASSUME TypeOK, Searching, Frontier, Sound, Asked, Pop
  PROVE  (Frontier /\ Sound /\ Asked)'
<1> USE DEF Pop
<1>1. Top \in Ids /\ \A x : InStack(x) <=> (x = Top \/ InStack(x)')
  BY PopStack
<1>2. pending = {} /\ meta' = meta /\ question' = question
  BY DEF Asked
<1>3. \A k, x : Neighbours(k, x)' = Neighbours(k, x)
  BY <1>2 DEF Neighbours
<1>4. CASE Top \in visited
  <2>1. \A x : Seen(x)' <=> Seen(x)
    BY <1>1, <1>4 DEF Seen
  <2>2. Frontier'
    BY <1>1, <1>2, <1>3, <1>4 DEF Frontier, Searching
  <2>3. Sound'
    BY <1>2, <2>1 DEF Sound, Graph!Closed, Graph!Follows
  <2>4. Asked'
    BY <1>2, <1>4 DEF Asked, Known
  <2> QED BY <2>2, <2>3, <2>4
<1>5. CASE Top \notin visited
  <2>1. /\ visited' = visited \cup {Top}
        /\ pending' = Neighbours(question.kind, Top)
    BY <1>5
  <2>2. Frontier'
    BY <1>1, <1>2, <1>3, <2>1 DEF Frontier, Searching
  <2>3. ASSUME NEW S \in SUBSET Ids, question.from \in S,
               Graph!Closed(S, question), NEW x \in Ids, Seen(x)'
        PROVE  x \in S
    <3>1. \A y \in Ids : Seen(y) => y \in S
      BY <2>3 DEF Sound
    <3>2. Top \in S
      BY <1>1, <3>1 DEF Seen
    <3>3. \A y \in Neighbours(question.kind, Top) : y \in S
      BY <2>3, <3>2 DEF Graph!Closed, Graph!Follows, Neighbours
    <3> QED BY <1>1, <2>1, <2>3, <3>1, <3>2, <3>3 DEF Seen
  <2>4. Sound'
    BY <1>2, <2>3 DEF Sound, Graph!Closed, Graph!Follows
  <2>5. Asked'
    BY <1>2, <1>5, <2>1 DEF Asked, Known
  <2> QED BY <2>2, <2>4, <2>5
<1> QED BY <1>4, <1>5

\* Pushing a neighbour moves it from pending to the stack.
LEMMA PushInv ==
  ASSUME TypeOK, Searching, Frontier, Sound, Asked, Push \/ Pushed
  PROVE  (Frontier /\ Sound /\ Asked)'
<1>1. meta' = meta /\ question' = question /\ visited' = visited /\ answer' = answer
  BY DEF Push, Pushed
<1>2. \A x : Seen(x)' <=> Seen(x)
  <2>1. CASE Push
    <3>1. PICK d \in pending : /\ stack' = Append(stack, d)
                               /\ pending' = pending \ {d}
      BY <2>1 DEF Push
    <3>2. \A x : InStack(x)' <=> (x = d \/ InStack(x))
      BY <3>1, PushStack DEF TypeOK
    <3> QED BY <1>1, <3>1, <3>2 DEF Seen
  <2>2. CASE Pushed
    BY <1>1, <2>2 DEF Pushed, Seen, InStack
  <2> QED BY <2>1, <2>2
<1>3. \A k, x : Neighbours(k, x)' = Neighbours(k, x)
  BY <1>1 DEF Neighbours
<1>4. Frontier'
  <2>1. question.from \in visited \/ InStack(question.from)'
    <3>1. InStack(question.from) => InStack(question.from)'
      <4>1. CASE Push
        BY <4>1, PushStack DEF TypeOK, Push
      <4>2. CASE Pushed
        BY <4>2 DEF Pushed, InStack
      <4> QED BY <4>1, <4>2
    <3> QED BY <3>1 DEF Frontier
  <2>2. \A x \in visited : \A y \in Neighbours(question.kind, x) : Seen(y)'
    BY <1>2 DEF Frontier, Seen
  <2> QED BY <1>1, <1>3, <2>1, <2>2 DEF Frontier, Seen
<1>5. Sound'
  BY <1>1, <1>2 DEF Sound, Graph!Closed, Graph!Follows
<1>6. Asked'
  BY <1>1 DEF Asked, Known, Push, Pushed
<1> QED BY <1>4, <1>5, <1>6

LEMMA NextInv == IInv /\ [Next]_vars => IInv'
<1> SUFFICES ASSUME IInv, [Next]_vars PROVE IInv'
  OBVIOUS
<1>1. TypeOK'
  BY NextType DEF IInv
<1>2. (pc = "new" => answer = Graph!NoAnswer)'
  BY DEF IInv, Next, New, Ask, AskUnknown, AskDirect, AskTransitive, Search, Found,
         Pop, Push, Pushed, Exhausted, Return, vars
<1>3. CASE ~Searching'
  BY <1>1, <1>2, <1>3 DEF IInv, Frontier
<1>4. CASE Searching'
  <2>1. CASE \E q \in Questions : AskTransitive(q)
    BY <1>1, <1>2, <2>1, StartInv DEF IInv
  <2>2. CASE Pop
    BY <1>1, <1>2, <2>2, PopInv DEF IInv, Searching, Pop
  <2>3. CASE Push \/ Pushed
    BY <1>1, <1>2, <2>3, PushInv DEF IInv, Searching, Push, Pushed
  <2>4. CASE UNCHANGED vars
    <3>1. UNCHANGED <<meta, pc, question, stack, visited, pending, answer>>
      BY <2>4 DEF vars
    <3> QED BY <1>1, <1>2, <1>4, <3>1
            DEF IInv, Searching, Frontier, Sound, Asked, Known, Seen, InStack,
                Neighbours, Graph!Closed, Graph!Follows
  <2> QED BY <1>4, <2>1, <2>2, <2>3, <2>4
          DEF Next, New, Ask, AskUnknown, AskDirect, Search, Found, Exhausted,
              Return, Searching
<1> QED BY <1>3, <1>4

-----------------------------------------------------------------------------
\* When a search has nothing left, it has expanded exactly what it reaches.
LEMMA ExhaustedReached ==
  ASSUME TypeOK, Frontier, Sound, Asked, pc = "pop", stack = <<>>
  PROVE  visited = Graph!Reached(question)
<1>1. \A x : ~InStack(x)
  BY DEF InStack
<1>2. pending = {}
  BY DEF Asked
<1>3. question.from \in visited /\ Graph!Closed(visited, question)
  BY <1>1, <1>2 DEF Frontier, Searching, Graph!Closed, Graph!Follows, Neighbours
<1>4. Graph!Reached(question) \subseteq visited
  BY <1>3 DEF Graph!Reached, TypeOK
<1>5. visited \subseteq Graph!Reached(question)
  BY DEF Sound, Seen, Graph!Reached, TypeOK
<1> QED BY <1>4, <1>5

\* What is on top of the stack is reached.
LEMMA TopReached ==
  ASSUME TypeOK, Sound, stack # <<>>
  PROVE  Top \in Graph!Reached(question)
<1>1. Top \in Ids /\ InStack(Top)
  BY DEF TypeOK, Top, InStack
<1> QED BY <1>1 DEF Sound, Seen, Graph!Reached

\* A step of the search is a step of the promise, or none.
LEMMA StepRefines == IInv /\ [Next]_vars => [Graph!Next]_(Graph!vars)
<1> SUFFICES ASSUME IInv, [Next]_vars PROVE [Graph!Next]_(Graph!vars)
  OBVIOUS
<1>1. CASE New
  BY <1>1 DEF New, Graph!vars, Searching
<1>2. ASSUME NEW q \in Questions, AskUnknown(q) \/ AskDirect(q)
      PROVE  Graph!Next
  <2>1. /\ ~Searching /\ ~Searching' /\ question' = q /\ meta' = meta
    BY <1>2 DEF AskUnknown, AskDirect, Searching
  <2>2. answer' = Graph!Promise(question')
    <3>1. CASE AskUnknown(q)
      BY <2>1, <3>1 DEF AskUnknown, Graph!Promise, Known, Graph!Known
    <3>2. CASE AskDirect(q)
      <4>1. Neighbours(q.kind, q.from) = Graph!Near(q)
        BY DEF Neighbours, Graph!Near, Graph!Follows
      <4> QED BY <2>1, <3>2, <4>1
              DEF AskDirect, Graph!Promise, Graph!Found, Known, Graph!Known
    <3> QED BY <1>2, <3>1, <3>2
  <2> QED BY <2>1, <2>2 DEF Graph!Next, Graph!Ask
<1>3. ASSUME NEW q \in Questions, AskTransitive(q)
      PROVE  Graph!Next
  BY <1>3 DEF AskTransitive, Searching, Graph!Next, Graph!Ask
<1>4. CASE Found
  <2>1. Top \in Graph!Reached(question)
    BY <1>4, TopReached DEF Found, IInv, Searching
  <2>2. Graph!Holds(TRUE) = Graph!Promise(question)
    BY <1>4, <2>1 DEF Found, IInv, Asked, Searching, Known, Graph!Known,
                      Graph!Promise, Graph!Found
  <2>3. Searching /\ Searching' = FALSE
    BY <1>4 DEF Found, Return, Searching
  <2>4. UNCHANGED <<meta, question>> /\ answer' = Graph!Promise(question)
    BY <1>4, <2>2 DEF Found, Return
  <2> QED BY <2>3, <2>4 DEF Graph!Next, Graph!Answer
<1>5. CASE Pop \/ Push \/ Pushed
  BY <1>5 DEF Pop, Push, Pushed, Searching, Graph!vars
<1>6. CASE Exhausted
  <2>1. visited = Graph!Reached(question)
    BY <1>6, ExhaustedReached DEF Exhausted, IInv, Searching
  <2>2. Asked
    BY <1>6 DEF Exhausted, IInv, Searching
  <2>3. Graph!Known(question) /\ Graph!Found(question) = visited
    BY <2>1, <2>2 DEF Asked, Known, Graph!Known, Graph!Found
  <2>4. answer' = Graph!Promise(question)
    <3>1. CASE question.kind = "list"
      BY <1>6, <2>3, <3>1 DEF Exhausted, Graph!Promise
    <3>2. CASE question.kind # "list"
      <4>1. question.kind = "is"
        BY <3>2 DEF IInv, TypeOK, Questions
      <4>2. (question.to \in visited) = FALSE
        BY <2>2, <4>1 DEF Asked
      <4> QED BY <1>6, <2>3, <3>2, <4>2 DEF Exhausted, Graph!Promise
    <3> QED BY <3>1, <3>2
  <2>5. Searching /\ Searching' = FALSE
    BY <1>6 DEF Exhausted, Return, Searching
  <2>6. UNCHANGED <<meta, question>>
    BY <1>6 DEF Exhausted, Return
  <2> QED BY <2>4, <2>5, <2>6 DEF Graph!Next, Graph!Answer
<1>7. CASE UNCHANGED vars
  BY <1>7 DEF vars, Graph!vars, Searching
<1> QED BY <1>1, <1>2, <1>3, <1>4, <1>5, <1>6, <1>7 DEF Next, Ask, Search

\* The values of the variables are what the code's types allow, for every graph.
THEOREM TypeCorrect == Spec => []TypeOK
<1>1. Spec => []IInv
  BY InitInv, NextInv, PTL DEF Spec
<1> QED BY <1>1, PTL DEF IInv

\* Nothing reachable is lost between two steps of a search, for every graph.
THEOREM FrontierKept == Spec => []Frontier
<1>1. Spec => []IInv
  BY InitInv, NextInv, PTL DEF Spec
<1> QED BY <1>1, PTL DEF IInv

\* For every graph, cyclic or not, and every numbering of its packages,
\* list_dependants and depends_on return exactly what GraphQuery promises.
THEOREM AnswersCorrect == Spec => AnswersAsPromised
<1>1. Spec => []IInv
  BY InitInv, NextInv, PTL DEF Spec
<1>2. Init => Graph!Init
  BY DEF Init, Graph!Init, Searching
<1> QED BY <1>1, <1>2, StepRefines, PTL DEF Spec, AnswersAsPromised, Graph!Spec

-----------------------------------------------------------------------------
\* The edges that leave, in the direction of the question, a package of S.
EdgesOf(kind, S) ==
  {d \in meta.deps : (IF kind = "list" THEN d[2] ELSE d[1]) \in S}

\* What a search has pushed and not yet popped was pushed along an edge of an
\* expanded package, once per edge; the start is the one entry more.
Accounted ==
  /\ IsFiniteSet(pending)
  /\ Searching => Len(stack) + Cardinality(pending)
                    <= Cardinality(EdgesOf(question.kind, visited)) + 1
  /\ ~Searching => stack = <<>> /\ pending = {}

LEMMA EdgesFinite ==
  ASSUME TypeOK, NEW k, NEW S
  PROVE  /\ IsFiniteSet(EdgesOf(k, S))
         /\ Cardinality(EdgesOf(k, S)) \in Nat
         /\ IsFiniteSet(meta.deps) /\ Cardinality(meta.deps) \in Nat
         /\ Cardinality(EdgesOf(k, S)) <= Cardinality(meta.deps)
<1>1. IsFiniteSet(meta.deps)
  BY DepsAssumption DEF TypeOK
<1>2. EdgesOf(k, S) \in SUBSET meta.deps
  BY DEF EdgesOf
<1> HIDE DEF EdgesOf
<1> QED BY <1>1, <1>2, FS_Subset, FS_CardinalityType

\* There are at most as many neighbours of a package as edges that leave it.
LEMMA NeighboursCounted ==
  ASSUME TypeOK, NEW k, NEW x \in Ids
  PROVE  /\ IsFiniteSet(Neighbours(k, x))
         /\ Cardinality(Neighbours(k, x)) \in Nat
         /\ Cardinality(Neighbours(k, x)) <= Cardinality(EdgesOf(k, {x}))
<1> DEFINE E == EdgesOf(k, {x})
           N == Neighbours(k, x)
           f == [y \in N |-> IF k = "list" THEN <<y, x>> ELSE <<x, y>>]
<1>1. f \in [N -> E]
  BY DEF Neighbours, EdgesOf
<1>2. \A y, z \in N : f[y] = f[z] => y = z
  OBVIOUS
<1>3. f \in Injection(N, E)
  <2> HIDE DEF f, N, E
  <2> QED BY <1>1, <1>2 DEF Injection, IsInjective
<1>4. IsFiniteSet(E)
  BY EdgesFinite
<1> HIDE DEF f, N, E
<1>5. IsFiniteSet(N) /\ Cardinality(N) <= Cardinality(E)
  BY <1>3, <1>4, FS_Injection
<1>6. Cardinality(N) \in Nat
  BY <1>5, FS_CardinalityType
<1> QED BY <1>5, <1>6 DEF N, E

\* Expanding a package adds the edges that leave it, none of them counted yet.
LEMMA EdgesAdded ==
  ASSUME TypeOK, NEW k, NEW S, NEW x, x \notin S
  PROVE  Cardinality(EdgesOf(k, S \cup {x})) =
           Cardinality(EdgesOf(k, S)) + Cardinality(EdgesOf(k, {x}))
<1> DEFINE A == EdgesOf(k, S)
           B == EdgesOf(k, {x})
<1>1. /\ IsFiniteSet(A) /\ Cardinality(A) \in Nat
      /\ IsFiniteSet(B) /\ Cardinality(B) \in Nat
  BY EdgesFinite
<1>2. EdgesOf(k, S \cup {x}) = A \cup B
  BY DEF EdgesOf
<1>3. A \cap B = {}
  BY DEF EdgesOf
<1> HIDE DEF A, B
<1>4. Cardinality(A \cup B) = Cardinality(A) + Cardinality(B) - Cardinality(A \cap B)
  BY <1>1, FS_Union
<1>5. Cardinality(A \cap B) = 0
  BY <1>3, FS_EmptySet
<1>6. Cardinality(A \cup B) = Cardinality(A) + Cardinality(B)
  BY <1>1, <1>4, <1>5
<1> QED BY <1>2, <1>6 DEF A, B

LEMMA AccountedInit == Init => Accounted
BY FS_EmptySet DEF Init, Accounted, Searching

LEMMA PopLength ==
  ASSUME stack \in Seq(Ids), stack # <<>>
  PROVE  Len(stack) \in Nat /\ Len(Popped) = Len(stack) - 1
<1>1. Len(stack) \in Nat /\ Len(stack) >= 1 /\ DOMAIN stack = 1 .. Len(stack)
  OBVIOUS
<1>2. Len(SubSeq(stack, 1, Len(stack) - 1)) = Len(stack) - 1
  BY <1>1
<1> QED BY <1>1, <1>2 DEF Popped

LEMMA AccountedPop ==
  ASSUME TypeOK, Searching, Asked, Accounted, Pop
  PROVE  Accounted'
<1> USE DEF Pop
<1>a. stack \in Seq(Ids) /\ stack # <<>>
  BY DEF TypeOK
<1>b. Len(stack) \in Nat /\ Len(Popped) = Len(stack) - 1
  BY <1>a, PopLength
<1>c. Top \in Ids /\ stack' = Popped
  BY <1>a DEF Top
<1>1. /\ Len(stack) \in Nat /\ Len(Popped) = Len(stack) - 1
      /\ Top \in Ids /\ stack' = Popped
  BY <1>b, <1>c
<1>2. pending = {} /\ Cardinality(pending) = 0 /\ IsFiniteSet(pending)
  BY FS_EmptySet DEF Asked
<1>3. \A k, S : EdgesOf(k, S)' = EdgesOf(k, S')
  BY DEF EdgesOf
<1>4. Cardinality(EdgesOf(question.kind, visited)) \in Nat
  BY EdgesFinite
<1>5. EdgesOf(question.kind, visited)' = EdgesOf(question.kind, visited')
  BY DEF EdgesOf
<1>6. Searching'
  BY DEF Searching
<1>7. CASE Top \in visited
  <2>1. visited' = visited /\ pending' = pending
    BY <1>7
  <2> QED BY <1>1, <1>2, <1>4, <1>5, <1>6, <2>1 DEF Accounted
<1>8. CASE Top \notin visited
  <2> DEFINE N == Neighbours(question.kind, Top)
             T == EdgesOf(question.kind, {Top})
             V == EdgesOf(question.kind, visited)
  <2>1. visited' = visited \cup {Top} /\ pending' = N
    BY <1>8
  <2>2. IsFiniteSet(N) /\ Cardinality(N) \in Nat /\ Cardinality(N) <= Cardinality(T)
    BY <1>1, NeighboursCounted
  <2>3. Cardinality(T) \in Nat
    BY EdgesFinite
  <2>4. Cardinality(EdgesOf(question.kind, visited)') = Cardinality(V) + Cardinality(T)
    BY <1>5, <1>8, <2>1, EdgesAdded
  <2>5. Len(stack) + 0 <= Cardinality(V) + 1
    BY <1>2 DEF Accounted
  <2>6. Len(stack') + Cardinality(pending')
          <= Cardinality(EdgesOf(question.kind, visited)') + 1
    <3> HIDE DEF N, T, V
    <3>1. Cardinality(V) \in Nat
      BY <1>4 DEF V
    <3> QED BY <1>1, <2>1, <2>2, <2>3, <2>4, <2>5, <3>1
  <2> QED BY <1>6, <2>1, <2>2, <2>6 DEF Accounted
<1> QED BY <1>7, <1>8

LEMMA AccountedNext ==
  ASSUME IInv, Accounted, [Next]_vars
  PROVE  Accounted'
<1>1. TypeOK
  BY DEF IInv
<1>2. CASE New
  BY <1>2 DEF New, Accounted, Searching
<1>3. ASSUME NEW q \in Questions, AskUnknown(q) \/ AskDirect(q)
      PROVE  Accounted'
  BY <1>3 DEF AskUnknown, AskDirect, Accounted, Searching
<1>4. ASSUME NEW q \in Questions, AskTransitive(q)
      PROVE  Accounted'
  <2>1. /\ Len(stack') = 1 /\ pending' = {} /\ Searching'
        /\ meta' = meta /\ question' = q /\ visited' = {}
    BY <1>4 DEF AskTransitive, Searching
  <2>2. EdgesOf(question.kind, visited)' = EdgesOf(q.kind, {})
    BY <2>1 DEF EdgesOf
  <2>3. Cardinality(EdgesOf(q.kind, {})) \in Nat
    BY <1>1, EdgesFinite
  <2>4. IsFiniteSet(pending') /\ Cardinality(pending') = 0
    BY <2>1, FS_EmptySet
  <2> QED BY <2>1, <2>2, <2>3, <2>4 DEF Accounted
<1>5. CASE Found \/ Exhausted
  BY <1>5, FS_EmptySet DEF Found, Exhausted, Return, Accounted, Searching
<1>6. CASE Pop
  BY <1>6, AccountedPop DEF IInv, Pop, Searching
<1>7. CASE Push
  <2>1. PICK d \in pending : /\ stack' = Append(stack, d)
                             /\ pending' = pending \ {d}
    BY <1>7 DEF Push
  <2>2. Searching /\ Searching' /\ UNCHANGED <<meta, question, visited>>
    BY <1>7 DEF Push, Searching
  <2>3. /\ IsFiniteSet(pending') /\ Cardinality(pending) \in Nat
        /\ Cardinality(pending') = Cardinality(pending) - 1
    BY <2>1, FS_RemoveElement, FS_CardinalityType DEF Accounted
  <2>4. Len(stack') = Len(stack) + 1 /\ Len(stack) \in Nat
    BY <1>1, <2>1 DEF TypeOK
  <2>5. EdgesOf(question.kind, visited)' = EdgesOf(question.kind, visited)
    BY <2>2 DEF EdgesOf
  <2>6. Cardinality(EdgesOf(question.kind, visited)) \in Nat
    BY <1>1, EdgesFinite
  <2> QED BY <2>2, <2>3, <2>4, <2>5, <2>6 DEF Accounted
<1>8. CASE Pushed \/ UNCHANGED vars
  BY <1>8 DEF Pushed, vars, Accounted, Searching, EdgesOf
<1> QED BY <1>2, <1>3, <1>4, <1>5, <1>6, <1>7, <1>8 DEF Next, Ask, Search

LEMMA AccountedBound ==
  ASSUME TypeOK, Accounted
  PROVE  StackBound
<1>1. /\ Cardinality(EdgesOf(question.kind, visited)) \in Nat
      /\ Cardinality(meta.deps) \in Nat
      /\ Cardinality(EdgesOf(question.kind, visited)) <= Cardinality(meta.deps)
  BY EdgesFinite
<1>2. Len(stack) \in Nat /\ Cardinality(pending) \in Nat
  BY FS_CardinalityType DEF TypeOK, Accounted
<1>3. CASE Searching
  BY <1>1, <1>2, <1>3 DEF Accounted, StackBound
<1>4. CASE ~Searching
  BY <1>1, <1>4, FS_EmptySet DEF Accounted, StackBound
<1> QED BY <1>3, <1>4

\* The stack of a search never holds more than one entry per edge and the
\* start, for every graph: skipping expanded packages is enough to bound the
\* memory of list_dependants and depends_on on cycles.
THEOREM StackBounded == Spec => []StackBound
<1>1. Spec => []IInv
  BY InitInv, NextInv, PTL DEF Spec
<1>2. IInv /\ Accounted /\ [Next]_vars => Accounted'
  BY AccountedNext
<1>3. IInv /\ Accounted => StackBound
  BY AccountedBound DEF IInv
<1> QED BY <1>1, <1>2, <1>3, AccountedInit, PTL DEF Spec
=============================================================================
