--------------------------- MODULE ConstructProofs ---------------------------
(* The detectors that judge a construct where they come to it, by what they   *)
(* have kept of the ones before: constants, crates and calls, over bodies and *)
(* crates of any size with any number of locals.                              *)
EXTENDS BodyProofs, CallLints, ConstantLints, CrateLints

-----------------------------------------------------------------------------
(* What is known at compile time: constants.                                  *)

\* The locals in C being constants, so is this operand for the detector l.
Fixed(l, C, operand) == \/ operand \in Numbers \cup C
                        \/ operand = Capped /\ l = "dos-unbounded-operation"

AllFixed(l, C, list) == \A i \in DOMAIN list : Fixed(l, C, list[i])

BoundIn(s, v) == \E i \in DOMAIN s : s[i].do = "let" /\ s[i].v = v

\* No let leads from a parameter or from one of S to a local outside of it.
Closes(S, s) == \A n \in DOMAIN s : s[n].do = "let" /\ Varies(S, s[n].of) => s[n].v \in S

Reached(s) == {v \in Locals : \A S \in SUBSET Locals : Closes(S, s) => v \in S}

\* The constants are the locals that were bound to constant lists, and the other
\* ones that were bound are reached from a parameter.
ConstantKnown(l, s, C) ==
  /\ s \in Seq(ConstantConstructs) /\ C \subseteq Locals
  /\ \A v \in C : BoundIn(s, v)
  /\ \A n \in DOMAIN s : s[n].do = "let" /\ s[n].v \in C => AllFixed(l, C, s[n].of)
  /\ \A v \in Locals \ C : BoundIn(s, v) => v \in Reached(s)

LEMMA ConstantConstructIs ==
  ASSUME NEW e \in ConstantConstructs
  PROVE  /\ e.do \in {"let", "assign", "use"} /\ (e.do # "use" => e.v \in Locals)
         /\ \A i \in DOMAIN e.of : e.of[i] \in Numbers \cup Locals \cup {Param, Capped}
<1>1. e.of \in Lists \cup {<<>>}
  BY DEF ConstantConstructs
<1>2. CASE e.of = <<>>
  BY <1>2 DEF ConstantConstructs
<1>3. CASE \E a \in Operands : e.of = <<a>>
  BY <1>3 DEF ConstantConstructs, Operands
<1>4. CASE e.of \in Operands \X Operands
  <2>1. PICK a \in Operands, b \in Operands : e.of = <<a, b>>
    BY <1>4
  <2> QED BY <2>1 DEF ConstantConstructs, Operands
<1> QED BY <1>1, <1>2, <1>3, <1>4 DEF Lists

LEMMA ReachedGrows ==
  ASSUME NEW E, NEW s \in Seq(E), NEW e
  PROVE  Reached(s) \subseteq Reached(Append(s, e))
<1>1. DOMAIN s \subseteq DOMAIN Append(s, e) /\ \A n \in DOMAIN s : Append(s, e)[n] = s[n]
  OBVIOUS
<1>2. \A S : Closes(S, Append(s, e)) => Closes(S, s)
  BY <1>1 DEF Closes
<1> QED BY <1>2 DEF Reached

\* An operand that is not constant depends on a parameter.
LEMMA OpenOperand ==
  ASSUME NEW l, NEW s, NEW C, ConstantKnown(l, s, C), NEW e \in ConstantConstructs,
         \A i \in DOMAIN e.of : e.of[i] \in Locals => BoundIn(s, e.of[i]),
         ~AllFixed(l, C, e.of)
  PROVE  Varies(Reached(s), e.of)
<1>1. PICK i \in DOMAIN e.of : ~Fixed(l, C, e.of[i])
  BY DEF AllFixed
<1>2. e.of[i] \in Numbers \cup Locals \cup {Param, Capped}
  BY ConstantConstructIs
<1>3. e.of[i] \in {Param, Capped} \/ e.of[i] \in Reached(s)
  BY <1>1, <1>2 DEF Fixed, ConstantKnown
<1> QED BY <1>3 DEF Varies

LEMMA ConstantKnownNext ==
  ASSUME NEW l, NEW s, NEW C, ConstantKnown(l, s, C), NEW e \in ConstantConstructs,
         \A i \in DOMAIN e.of : e.of[i] \in Locals => BoundIn(s, e.of[i]),
         e.do = "let" => ~BoundIn(s, e.v),
         NEW D, D = IF e.do = "let" /\ AllFixed(l, C, e.of) THEN C \cup {e.v} ELSE C
  PROVE  ConstantKnown(l, Append(s, e), D)
<1> DEFINE t == Append(s, e)
           here == Len(s) + 1
<1>1. /\ s \in Seq(ConstantConstructs) /\ Len(s) \in Nat /\ DOMAIN s = 1 .. Len(s)
      /\ t \in Seq(ConstantConstructs) /\ DOMAIN t = 1 .. here /\ t[here] = e
      /\ \A n \in 1 .. Len(s) : t[n] = s[n] /\ n \in 1 .. here
      /\ \A n \in 1 .. here : n = here \/ n \in 1 .. Len(s)
      /\ here \in 1 .. here /\ C \subseteq Locals
  BY DEF ConstantKnown
<1>2. e.do = "let" => e.v \in Locals
  BY ConstantConstructIs
<1>3. Reached(s) \subseteq Reached(t)
  BY <1>1, ReachedGrows
<1> HIDE DEF t, here
<1>4. \A v : BoundIn(t, v) <=> BoundIn(s, v) \/ (e.do = "let" /\ e.v = v)
  BY <1>1 DEF BoundIn
<1>5. D \subseteq Locals /\ C \subseteq D
  BY <1>1, <1>2
<1>6. \A v \in D : BoundIn(t, v)
  BY <1>4 DEF ConstantKnown
<1>7. \A list : AllFixed(l, C, list) => AllFixed(l, D, list)
  BY <1>5 DEF AllFixed, Fixed
<1>8. ASSUME NEW n \in DOMAIN t, t[n].do = "let", t[n].v \in D
      PROVE  AllFixed(l, D, t[n].of)
  <2>1. CASE n = here
    <3>1. e.do = "let" /\ e.v \in D /\ t[n] = e
      BY <1>1, <1>8, <2>1
    <3>2. e.v \notin C
      BY <3>1 DEF ConstantKnown
    <3>3. AllFixed(l, C, e.of)
      BY <3>1, <3>2
    <3> QED BY <1>7, <3>1, <3>3
  <2>2. CASE n \in 1 .. Len(s)
    <3>1. t[n] = s[n] /\ BoundIn(s, s[n].v)
      BY <1>1, <1>8, <2>2 DEF BoundIn
    <3>2. s[n].v \in C
      BY <1>8, <3>1
    <3> QED BY <1>1, <1>7, <1>8, <2>2, <3>1, <3>2 DEF ConstantKnown
  <2> QED BY <1>1, <1>8, <2>1, <2>2
<1>9. ASSUME NEW v \in Locals \ D, BoundIn(t, v) PROVE v \in Reached(t)
  <2>1. CASE BoundIn(s, v)
    BY <1>3, <1>5, <2>1 DEF ConstantKnown
  <2>2. CASE e.do = "let" /\ e.v = v
    <3>1. ~AllFixed(l, C, e.of)
      BY <1>9, <2>2
    <3>2. Varies(Reached(s), e.of)
      BY <3>1, OpenOperand
    <3>3. ASSUME NEW S \in SUBSET Locals, Closes(S, t) PROVE v \in S
      <4>1. Reached(t) \subseteq S
        BY <3>3 DEF Reached
      <4>2. Varies(S, e.of)
        BY <1>3, <3>2, <4>1 DEF Varies
      <4> QED BY <1>1, <2>2, <3>3, <4>2 DEF Closes
    <3> QED BY <3>3 DEF Reached
  <2> QED BY <1>4, <1>9, <2>1, <2>2
<1> QED BY <1>1, <1>5, <1>6, <1>8, <1>9 DEF ConstantKnown, t

\* Where no method of a constant hides one, what is constant depends on no parameter.
LEMMA FixedIsBounded ==
  ASSUME NEW l, NEW s, NEW C, ConstantKnown(l, s, C), NEW e \in ConstantConstructs, e.do = "use",
         AllFixed(l, C, e.of), Varies(Reached(Append(s, e)), e.of)
  PROVE  /\ l = "dos-unbounded-operation"
         /\ \E n \in DOMAIN Append(s, e) : Capped \in {Append(s, e)[n].of[k] : k \in DOMAIN Append(s, e)[n].of}
<1> DEFINE t == Append(s, e)
           S == Locals \ C
<1>1. /\ s \in Seq(ConstantConstructs) /\ Len(s) \in Nat /\ DOMAIN s = 1 .. Len(s)
      /\ DOMAIN t = 1 .. Len(s) + 1 /\ t[Len(s) + 1] = e
      /\ \A n \in 1 .. Len(s) : t[n] = s[n] /\ n \in 1 .. Len(s) + 1
      /\ \A n \in 1 .. Len(s) + 1 : n = Len(s) + 1 \/ n \in 1 .. Len(s)
      /\ Len(s) + 1 \in 1 .. Len(s) + 1 /\ C \subseteq Locals
  BY DEF ConstantKnown
<1> HIDE DEF t
<1>2. SUFFICES ASSUME ~(/\ l = "dos-unbounded-operation"
                        /\ \E n \in DOMAIN t : Capped \in {t[n].of[k] : k \in DOMAIN t[n].of})
               PROVE  FALSE
  BY DEF t
<1>3. ASSUME NEW n \in DOMAIN t, AllFixed(l, C, t[n].of) PROVE ~Varies(S, t[n].of)
  <2> SUFFICES ASSUME NEW k \in DOMAIN t[n].of, t[n].of[k] \in {Param, Capped} \cup S PROVE FALSE
    BY DEF Varies
  <2>1. Fixed(l, C, t[n].of[k])
    BY <1>3 DEF AllFixed
  <2> QED BY <1>1, <1>2, <2>1, NumbersAssumption DEF Fixed
<1>4. Closes(S, t)
  <2> SUFFICES ASSUME NEW n \in DOMAIN t, t[n].do = "let", Varies(S, t[n].of) PROVE t[n].v \in S
    BY DEF Closes
  <2>1. n \in 1 .. Len(s) /\ t[n] = s[n] /\ s[n] \in ConstantConstructs
    BY <1>1
  <2>2. s[n].v \in Locals
    BY <2>1, ConstantConstructIs
  <2>3. s[n].v \notin C
    BY <1>1, <1>3, <2>1 DEF ConstantKnown
  <2> QED BY <2>1, <2>2, <2>3
<1>5. Reached(t) \subseteq S
  BY <1>4 DEF Reached
<1>6. Varies(S, e.of)
  BY <1>5 DEF Varies, t
<1> QED BY <1>1, <1>3, <1>6

ConstantInv ==
  /\ ConstantKnown(lint, walked, memory.constants)
  /\ memory = [constants |-> memory.constants]
  /\ reported \subseteq DOMAIN walked
  /\ UnknownValuesReported

LEMMA FixedIs ==
  \A m, list : IsExprConstant(m, list) <=> AllFixed(lint, m.constants, list)
BY DEF IsExprConstant, IsConstant, AllFixed, Fixed

ConstantPass(e) ==
  /\ e \in ConstantConstructs
  /\ \A i \in DOMAIN e.of : e.of[i] \in Locals => BoundIn(walked, e.of[i])
  /\ e.do = "let" => ~BoundIn(walked, e.v)
  /\ Pass(e, ConstantStep(memory, e), Mark(e.do = "use" /\ ~AllFixed(lint, memory.constants, e.of)))

LEMMA VisitConstantIs == VisitConstant => \E e : ConstantPass(e)
BY FixedIs DEF VisitConstant, ConstantPass, BoundBefore, BoundIn

LEMMA ConstantFollows ==
  ASSUME ConstantInv, NEW e, ConstantPass(e)
  PROVE  ConstantInv'
<1> DEFINE C == memory.constants
           D == IF e.do = "let" /\ AllFixed(lint, C, e.of) THEN C \cup {e.v} ELSE C
           t == Append(walked, e)
<1>1. /\ e \in ConstantConstructs /\ walked' = t /\ lint' = lint
      /\ memory' = ConstantStep(memory, e)
      /\ reported' = reported \cup (IF e.do = "use" /\ ~AllFixed(lint, C, e.of) THEN {Here} ELSE {})
      /\ ConstantKnown(lint, walked, C) /\ memory = [constants |-> C] /\ reported \subseteq DOMAIN walked
      /\ \A i \in DOMAIN e.of : e.of[i] \in Locals => BoundIn(walked, e.of[i])
      /\ e.do = "let" => ~BoundIn(walked, e.v)
  BY DEF ConstantPass, Pass, Mark, ConstantInv
<1>2. /\ walked \in Seq(ConstantConstructs) /\ Len(walked) \in Nat /\ Here \in Nat
      /\ DOMAIN walked = 1 .. Len(walked) /\ DOMAIN t = 1 .. Here /\ Len(t) = Here /\ t[Here] = e
      /\ t # <<>> /\ Here \notin DOMAIN walked /\ Here \in DOMAIN t /\ DOMAIN walked \subseteq DOMAIN t
  BY <1>1 DEF ConstantKnown, Here
<1>3. memory' = [constants |-> D]
  <2>1. IsExprConstant(memory, e.of) <=> AllFixed(lint, C, e.of)
    BY FixedIs
  <2>2. CASE e.do = "let"
    <3>1. memory' = [memory EXCEPT !.constants = D]
      BY <1>1, <2>1, <2>2 DEF ConstantStep, VisitLocal
    <3> HIDE DEF D, C
    <3> QED BY <1>1, <3>1
  <2>3. CASE e.do # "let"
    BY <1>1, <2>3 DEF ConstantStep
  <2> QED BY <2>2, <2>3
<1>4. ConstantKnown(lint, t, D)
  BY <1>1, ConstantKnownNext
<1>5. reported' \subseteq DOMAIN t /\ (Here \in reported' <=> e.do = "use" /\ ~AllFixed(lint, C, e.of))
  BY <1>1, <1>2
<1>6. Latest' = {Here}
  BY <1>1, <1>2 DEF Latest
<1>7. ASSUME e.do = "use", NEW i, i = Here
      PROVE  /\ i \in reported' => Unbounded(i)'
             /\ i \notin reported' /\ Unbounded(i)' =>
                  /\ lint = "dos-unbounded-operation"
                  /\ \E n \in 1 .. i : Capped \in {t[n].of[k] : k \in DOMAIN t[n].of}
  <2>1. Unbounded(i)' <=> Varies(Reached(t), e.of)
    <3>1. Reached(t) = {v \in Locals : \A S \in SUBSET Locals :
                          (\A n \in 1 .. i : t[n].do = "let" /\ Varies(S, t[n].of) => t[n].v \in S) => v \in S}
      BY <1>2, <1>7 DEF Reached, Closes
    <3> HIDE DEF t
    <3>2. t[i] = e
      BY <1>2, <1>7
    <3> QED BY <1>1, <3>1, <3>2 DEF Unbounded
  <2>2. ~AllFixed(lint, C, e.of) => Varies(Reached(t), e.of)
    <3>1. Reached(walked) \subseteq Reached(t)
      BY <1>2, ReachedGrows
    <3>2. ~AllFixed(lint, C, e.of) => Varies(Reached(walked), e.of)
      BY <1>1, OpenOperand
    <3> HIDE DEF t
    <3> QED BY <3>1, <3>2 DEF Varies
  <2>3. AllFixed(lint, C, e.of) /\ Varies(Reached(t), e.of) =>
          /\ lint = "dos-unbounded-operation"
          /\ \E n \in DOMAIN t : Capped \in {t[n].of[k] : k \in DOMAIN t[n].of}
    BY <1>1, <1>7, FixedIsBounded
  <2> QED BY <1>2, <1>5, <1>7, <2>1, <2>2, <2>3
<1> HIDE DEF C, D, t
<1>8. UnknownValuesReported'
  <2> SUFFICES ASSUME NEW i \in Latest', t[i].do = "use"
               PROVE  /\ i \in reported' => Unbounded(i)'
                      /\ i \notin reported' /\ Unbounded(i)' =>
                           /\ lint = "dos-unbounded-operation"
                           /\ \E n \in 1 .. i : Capped \in {t[n].of[k] : k \in DOMAIN t[n].of}
    BY <1>1 DEF UnknownValuesReported
  <2>1. i = Here /\ e.do = "use"
    BY <1>2, <1>6
  <2> QED BY <1>7, <2>1
<1>9. memory'.constants = D
  BY <1>3
<1> QED BY <1>1, <1>3, <1>4, <1>5, <1>8, <1>9 DEF ConstantInv

\* A cast between integer types is lossy exactly when it loses a value.
LEMMA LossyCastIs ==
  ASSUME NEW src \in IntTypes, NEW dst \in IntTypes, src.width # 0, dst.width # 0
  PROVE  IsLossyCast(src, dst) <=> ~(Values(src) \subseteq Values(dst))
<1> DEFINE half(w) == CASE w = 2 -> 2 [] w = 3 -> 4 [] w = 4 -> 8 [] w = 5 -> 16
           low(type) == IF type.signed THEN -half(type.width) ELSE 0
           high(type) == IF type.signed THEN half(type.width) - 1 ELSE half(type.width) + half(type.width) - 1
<1>1. 2^1 = 2 /\ 2^2 = 4 /\ 2^3 = 8 /\ 2^4 = 16 /\ 2^5 = 32
  OBVIOUS
<1>2. ASSUME NEW type \in IntTypes, type.width # 0
      PROVE  /\ Values(type) = low(type) .. high(type)
             /\ low(type) \in Int /\ high(type) \in Int /\ low(type) <= high(type)
             /\ type.signed \in BOOLEAN /\ type.width \in {2, 3, 4, 5}
             /\ type.width - 1 \in {1, 2, 3, 4}
  <2>1. type.signed \in BOOLEAN /\ type.width \in {2, 3, 4, 5}
    BY <1>2 DEF IntTypes
  <2>2. CASE type.width = 2
    <3>1. type.width - 1 = 1
      BY <2>2
    <3>2. 2^(type.width - 1) = 2 /\ 2^type.width = 4
      BY <1>1, <2>2, <3>1, Zenon
    <3>3. Values(type) = IF type.signed THEN -2 .. 2 - 1 ELSE 0 .. 4 - 1
      BY <3>2, Zenon DEF Values
    <3>4. /\ low(type) = IF type.signed THEN -2 ELSE 0
          /\ high(type) = IF type.signed THEN 2 - 1 ELSE 4 - 1
      BY <2>2
    <3> HIDE DEF half, low, high
    <3>5. Values(type) = low(type) .. high(type)
      BY <3>3, <3>4, Zenon
    <3> QED BY <2>1, <2>2, <3>1, <3>4, <3>5
  <2>3. CASE type.width = 3
    <3>1. type.width - 1 = 2
      BY <2>3
    <3>2. 2^(type.width - 1) = 4 /\ 2^type.width = 8
      BY <1>1, <2>3, <3>1, Zenon
    <3>3. Values(type) = IF type.signed THEN -4 .. 4 - 1 ELSE 0 .. 8 - 1
      BY <3>2, Zenon DEF Values
    <3>4. /\ low(type) = IF type.signed THEN -4 ELSE 0
          /\ high(type) = IF type.signed THEN 4 - 1 ELSE 8 - 1
      BY <2>3
    <3> HIDE DEF half, low, high
    <3>5. Values(type) = low(type) .. high(type)
      BY <3>3, <3>4, Zenon
    <3> QED BY <2>1, <2>3, <3>1, <3>4, <3>5
  <2>4. CASE type.width = 4
    <3>1. type.width - 1 = 3
      BY <2>4
    <3>2. 2^(type.width - 1) = 8 /\ 2^type.width = 16
      BY <1>1, <2>4, <3>1, Zenon
    <3>3. Values(type) = IF type.signed THEN -8 .. 8 - 1 ELSE 0 .. 16 - 1
      BY <3>2, Zenon DEF Values
    <3>4. /\ low(type) = IF type.signed THEN -8 ELSE 0
          /\ high(type) = IF type.signed THEN 8 - 1 ELSE 16 - 1
      BY <2>4
    <3> HIDE DEF half, low, high
    <3>5. Values(type) = low(type) .. high(type)
      BY <3>3, <3>4, Zenon
    <3> QED BY <2>1, <2>4, <3>1, <3>4, <3>5
  <2>5. CASE type.width = 5
    <3>1. type.width - 1 = 4
      BY <2>5
    <3>2. 2^(type.width - 1) = 16 /\ 2^type.width = 32
      BY <1>1, <2>5, <3>1, Zenon
    <3>3. Values(type) = IF type.signed THEN -16 .. 16 - 1 ELSE 0 .. 32 - 1
      BY <3>2, Zenon DEF Values
    <3>4. /\ low(type) = IF type.signed THEN -16 ELSE 0
          /\ high(type) = IF type.signed THEN 16 - 1 ELSE 32 - 1
      BY <2>5
    <3> HIDE DEF half, low, high
    <3>5. Values(type) = low(type) .. high(type)
      BY <3>3, <3>4, Zenon
    <3> QED BY <2>1, <2>5, <3>1, <3>4, <3>5
  <2> QED BY <2>1, <2>2, <2>3, <2>4, <2>5
<1>3. Values(src) \subseteq Values(dst) <=> low(dst) <= low(src) /\ high(src) <= high(dst)
  <2>1. \A a, b, c, d \in Int : a <= b => (a .. b \subseteq c .. d <=> c <= a /\ b <= d)
    <3> SUFFICES ASSUME NEW a \in Int, NEW b \in Int, NEW c \in Int, NEW d \in Int, a <= b
                 PROVE  a .. b \subseteq c .. d <=> c <= a /\ b <= d
      OBVIOUS
    <3>1. a \in a .. b /\ b \in a .. b
      OBVIOUS
    <3> QED BY <3>1
  <2>2. /\ Values(src) = low(src) .. high(src) /\ Values(dst) = low(dst) .. high(dst)
        /\ low(src) \in Int /\ high(src) \in Int /\ low(src) <= high(src)
        /\ low(dst) \in Int /\ high(dst) \in Int
    BY <1>2
  <2> HIDE DEF low, high
  <2>3. low(src) .. high(src) \subseteq low(dst) .. high(dst)
          <=> low(dst) <= low(src) /\ high(src) <= high(dst)
    BY <2>1, <2>2
  <2> QED BY <2>2, <2>3, Zenon
<1>4. IsLossyCast(src, dst) <=> ~(low(dst) <= low(src) /\ high(src) <= high(dst))
  <2>1. /\ src.signed \in BOOLEAN /\ src.width \in {2, 3, 4, 5}
        /\ dst.signed \in BOOLEAN /\ dst.width \in {2, 3, 4, 5}
    BY <1>2
  <2> QED BY <2>1 DEF IsLossyCast
<1> QED BY <1>3, <1>4

-----------------------------------------------------------------------------
(* What is known at compile time: arithmetic that cannot fail.                *)

NothingKnown == [v \in {} |-> 0]

\* The detector knows nothing, or what the one condition in force says.
ArithmeticKnown(s, m) ==
  /\ s \in Seq(ArithmeticConstructs) /\ m.conditions \in Seq(Comparisons \X SomeLocal)
  /\ Len(m.conditions) = DepthOf(s, Len(s))
  /\ Len(m.conditions) = 0 => m.context = NothingKnown
  /\ Len(m.conditions) = 1 =>
       \/ m.context = NothingKnown
       \/ m.context = AnalyzeCondition(NothingKnown, m.conditions[1][1], m.conditions[1][2])

ArithmeticInv == /\ ArithmeticKnown(walked, memory)
                 /\ reported \subseteq DOMAIN walked
                 /\ ArithmeticExcused

LEMMA ArithmeticConstructIs ==
  ASSUME NEW e \in ArithmeticConstructs
  PROVE  /\ e.do \in {"if", "checked_div", "checked_sub", "close"}
         /\ e.do = "if" => e.op \in Comparisons
         /\ e.do # "close" => /\ e.args \in SomeLocal /\ e.args[1] \in Operand /\ e.args[2] \in Operand
                              /\ ~(e.args[1] \in Numbers /\ e.args[2] \in Numbers)
BY DEF ArithmeticConstructs, SomeLocal

\* What one condition tells of the local that it is taken to be about.
LEMMA AnalyzeIs ==
  ASSUME NEW op \in Comparisons, NEW args \in SomeLocal
  PROVE  LET context == AnalyzeCondition(NothingKnown, op, args)
             var == IF args[1] \in Numbers THEN args[2] ELSE args[1]
             n == IF args[1] \in Numbers THEN args[1] ELSE args[2]
         IN  /\ n \in Numbers =>
                  /\ var \in Locals /\ DOMAIN context = {var}
                  /\ context[var].nonzero <=> IF op = "==" THEN n # 0 ELSE IF op = "!=" THEN n = 0 ELSE n # 0
                  /\ op \notin {"==", "!="} => context[var].max = n
             /\ (n \notin Numbers /\ op \in {"==", "!="}) => context = NothingKnown
<1> DEFINE var == IF args[1] \in Numbers THEN args[2] ELSE args[1]
           n == IF args[1] \in Numbers THEN args[1] ELSE args[2]
           context == AnalyzeCondition(NothingKnown, op, args)
<1>1. /\ args[1] \in Numbers \cup Locals /\ args[2] \in Numbers \cup Locals
      /\ ~(args[1] \in Numbers /\ args[2] \in Numbers)
  BY DEF SomeLocal, Operand
<1>2. n \in Numbers <=> {args[1], args[2]} \cap Numbers # {}
  BY <1>1
<1>3. \A v, info : Know(NothingKnown, v, info) = [w \in {v} |-> info]
  <2> SUFFICES ASSUME NEW v, NEW info PROVE Know(NothingKnown, v, info) = [w \in {v} |-> info]
    OBVIOUS
  <2>1. DOMAIN NothingKnown \cup {v} = {v}
    BY DEF NothingKnown
  <2> QED BY <2>1 DEF Know
<1>4. ASSUME n \in Numbers
      PROVE  /\ var \in Locals /\ DOMAIN context = {var}
             /\ context[var].nonzero <=> IF op = "==" THEN n # 0 ELSE IF op = "!=" THEN n = 0 ELSE n # 0
             /\ op \notin {"==", "!="} => context[var].max = n
  <2>1. var \in Locals
    BY <1>1, <1>4
  <2>2. CASE op \in {"==", "!="}
    <3> DEFINE info == [max |-> 0, nonzero |-> (n = 0) = (op = "!="), than |-> Param]
    <3>1. context = Know(NothingKnown, var, info)
      BY <1>2, <1>4, <2>2 DEF AnalyzeCondition
    <3>2. info.nonzero <=> ((n = 0) = (op = "!="))
      OBVIOUS
    <3> HIDE DEF info
    <3>3. context = [w \in {var} |-> info]
      BY <1>3, <3>1
    <3> HIDE DEF context, var, n
    <3> QED BY <2>1, <2>2, <3>2, <3>3
  <2>3. CASE op \notin {"==", "!="}
    <3> DEFINE info == [max |-> n, nonzero |-> n # 0, than |-> Param]
    <3>1. context = Know(NothingKnown, var, info)
      BY <1>2, <1>4, <2>3 DEF AnalyzeCondition
    <3>2. (info.nonzero <=> n # 0) /\ info.max = n
      OBVIOUS
    <3> HIDE DEF info
    <3>3. context = [w \in {var} |-> info]
      BY <1>3, <3>1
    <3> HIDE DEF context, var, n
    <3> QED BY <2>1, <2>3, <3>2, <3>3
  <2> QED BY <2>2, <2>3
<1>5. n \notin Numbers /\ op \in {"==", "!="} => context = NothingKnown
  BY <1>2 DEF AnalyzeCondition
<1> QED BY <1>4, <1>5

\* What is passed over under an equation, or a lower bound of the operand that
\* matters, cannot fail.
LEMMA ExcusedIsSafe ==
  ASSUME NEW cond \in Comparisons \X SomeLocal, NEW e \in ArithmeticConstructs,
         e.do \in {"checked_div", "checked_sub"}, NEW context,
         context = NothingKnown \/ context = AnalyzeCondition(NothingKnown, cond[1], cond[2]),
         IsArithmeticSafe(context, e),
         \/ LowerBound(cond, IF e.do = "checked_div" THEN e.args[2] ELSE e.args[1])
         \/ Equation(cond) /\ e.do = "checked_div",
         NEW val \in [Locals -> Numbers], Holds(cond, val)
  PROVE  ~Fails(e, val)
<1> DEFINE op == cond[1]
           args == cond[2]
           var == IF args[1] \in Numbers THEN args[2] ELSE args[1]
           n == IF args[1] \in Numbers THEN args[1] ELSE args[2]
           l == e.args[1]
           r == e.args[2]
           worth(x) == IF x \in Numbers THEN x ELSE val[x]
<1>1. /\ op \in Comparisons /\ args \in SomeLocal
      /\ args[1] \in Numbers \cup Locals /\ args[2] \in Numbers \cup Locals
      /\ ~(args[1] \in Numbers /\ args[2] \in Numbers)
  BY DEF SomeLocal, Operand
<1>2. /\ l \in Numbers \cup Locals /\ r \in Numbers \cup Locals
      /\ ~(l \in Numbers /\ r \in Numbers)
  BY ArithmeticConstructIs DEF Operand
<1>3. \A x \in Numbers \cup Locals : worth(x) \in Nat
  BY NumbersAssumption
<1>4. /\ n \in Numbers =>
           /\ var \in Locals /\ (context = NothingKnown \/ DOMAIN context = {var})
           /\ DOMAIN context = {var} =>
                /\ context[var].nonzero <=> IF op = "==" THEN n # 0 ELSE IF op = "!=" THEN n = 0 ELSE n # 0
                /\ op \notin {"==", "!="} => context[var].max = n
      /\ n \notin Numbers /\ op \in {"==", "!="} => context = NothingKnown
      /\ DOMAIN NothingKnown = {}
  <2> DEFINE said == AnalyzeCondition(NothingKnown, op, args)
  <2>1. DOMAIN NothingKnown = {} /\ (context = NothingKnown \/ context = said)
    BY DEF NothingKnown
  <2>2. /\ n \in Numbers =>
             /\ var \in Locals /\ DOMAIN said = {var}
             /\ said[var].nonzero <=> IF op = "==" THEN n # 0 ELSE IF op = "!=" THEN n = 0 ELSE n # 0
             /\ op \notin {"==", "!="} => said[var].max = n
        /\ (n \notin Numbers /\ op \in {"==", "!="}) => said = NothingKnown
    BY <1>1, AnalyzeIs
  <2> HIDE DEF said, n, var, op, args
  <2>3. CASE context = NothingKnown
    BY <2>1, <2>2, <2>3
  <2>4. CASE context = said
    BY <2>1, <2>2, <2>4
  <2> QED BY <2>1, <2>3, <2>4
<1>5. /\ op = "==" => worth(args[1]) = worth(args[2])
      /\ op = "!=" => worth(args[1]) # worth(args[2])
      /\ op = "<" => worth(args[1]) < worth(args[2])
      /\ op = "<=" => worth(args[1]) <= worth(args[2])
      /\ op = ">" => worth(args[1]) > worth(args[2])
      /\ op = ">=" => worth(args[1]) >= worth(args[2])
  BY DEF Holds
<1>6. Fails(e, val) <=> IF e.do = "checked_div" THEN worth(r) = 0 ELSE worth(l) < worth(r)
  BY DEF Fails
<1>7. IF e.do = "checked_div"
      THEN IF r \in Numbers THEN r # 0 ELSE r \in DOMAIN context /\ context[r].nonzero
      ELSE CASE l \in Numbers -> r \in DOMAIN context
             [] r \in Numbers -> l \in DOMAIN context /\ context[l].max >= r
             [] OTHER -> l \in DOMAIN context /\ r \in DOMAIN context
  BY DEF IsArithmeticSafe
<1>8. \A v : LowerBound(cond, v) <=> \/ args[1] = v /\ op \in {">", ">="} /\ args[2] \in Numbers
                                     \/ args[2] = v /\ op \in {"<", "<="} /\ args[1] \in Numbers
  BY DEF LowerBound
<1>9. Equation(cond) <=> op \in {"==", "!="}
  BY DEF Equation
\* A lower bound is about the local that the detector knows, and is at least n.
<1>10. ASSUME NEW v, LowerBound(cond, v)
       PROVE  /\ v = var /\ v \in Locals /\ v \notin Numbers /\ n \in Numbers /\ n \in Nat
              /\ worth(v) >= n /\ op \notin {"==", "!="}
  <2>1. CASE args[1] = v /\ op \in {">", ">="} /\ args[2] \in Numbers
    <3>1. v = var /\ n = args[2] /\ v \in Locals /\ v \notin Numbers /\ n \in Numbers /\ n \in Nat
      BY <1>1, <2>1, NumbersAssumption
    <3>2. worth(args[2]) = n
      BY <2>1, <3>1
    <3>3. worth(v) \in Nat
      BY <1>3, <3>1
    <3> HIDE DEF worth, n, var
    <3> QED BY <1>5, <2>1, <3>1, <3>2, <3>3
  <2>2. CASE args[2] = v /\ op \in {"<", "<="} /\ args[1] \in Numbers
    <3>1. v = var /\ n = args[1] /\ v \in Locals /\ v \notin Numbers /\ n \in Numbers /\ n \in Nat
      BY <1>1, <2>2, NumbersAssumption
    <3>2. worth(args[1]) = n
      BY <2>2, <3>1
    <3>3. worth(v) \in Nat
      BY <1>3, <3>1
    <3> HIDE DEF worth, n, var
    <3> QED BY <1>5, <2>2, <3>1, <3>2, <3>3
  <2> QED BY <1>8, <1>10, <2>1, <2>2
<1>11. ASSUME n \in Numbers, op \in {"==", "!="}
       PROVE  worth(n) = n /\ (op = "==" => worth(var) = n) /\ (op = "!=" => worth(var) # n)
  BY <1>5, <1>11
<1>12. CASE e.do = "checked_div" /\ r \in Numbers
  BY <1>6, <1>7, <1>12
<1>13. CASE e.do = "checked_div" /\ r \notin Numbers
  <2>1. r \in DOMAIN context /\ context[r].nonzero
    BY <1>7, <1>13
  <2>2. CASE LowerBound(cond, r)
    <3>1. r = var /\ n \in Numbers /\ n \in Nat /\ worth(r) >= n /\ op \notin {"==", "!="}
      BY <1>10, <2>2
    <3>2. n # 0
      BY <1>4, <2>1, <3>1
    <3>3. worth(r) \in Nat
      BY <1>2, <1>3
    <3> HIDE DEF worth, n, var
    <3> QED BY <1>6, <1>13, <3>1, <3>2, <3>3
  <2>3. CASE op \in {"==", "!="}
    <3>1. n \in Numbers
      BY <1>4, <2>1, <2>3
    <3>2. r = var
      BY <1>4, <2>1, <3>1
    <3>3. op = "==" => n # 0
      BY <1>4, <2>1, <3>1, <3>2
    <3>4. op = "!=" => n = 0
      BY <1>4, <2>1, <3>1, <3>2
    <3> HIDE DEF worth, n, var
    <3> QED BY <1>6, <1>11, <1>13, <2>3, <3>1, <3>2, <3>3, <3>4
  <2> QED BY <1>9, <1>13, <2>2, <2>3
<1>14. CASE e.do = "checked_sub"
  <2>1. LowerBound(cond, l)
    BY <1>14
  <2>2. l = var /\ l \notin Numbers /\ n \in Numbers /\ n \in Nat /\ worth(l) >= n /\ op \notin {"==", "!="}
    BY <1>10, <2>1
  <2>3. worth(l) \in Nat /\ worth(r) \in Nat
    BY <1>2, <1>3
  <2>4. l \in DOMAIN context
    BY <1>7, <1>14, <2>2
  <2>5. DOMAIN context = {var}
    BY <1>4, <2>2, <2>4
  <2>6. CASE r \in Numbers
    <3>1. context[l].max >= r /\ context[l].max = n /\ worth(r) = r
      BY <1>4, <1>7, <1>14, <2>2, <2>5, <2>6
    <3> HIDE DEF worth, n, var
    <3> QED BY <1>6, <1>14, <2>2, <2>3, <3>1
  <2>7. CASE r \notin Numbers
    <3>1. r = l
      BY <1>7, <1>14, <2>2, <2>5, <2>7
    <3> HIDE DEF worth, n, var
    <3> QED BY <1>6, <1>14, <2>3, <3>1
  <2> QED BY <2>6, <2>7
<1> QED BY <1>12, <1>13, <1>14

LEMMA ArithmeticKnownNext ==
  ASSUME NEW s, NEW m, ArithmeticKnown(s, m), NEW e \in ArithmeticConstructs,
         e.do = "close" => DepthOf(s, Len(s)) > 0
  PROVE  ArithmeticKnown(Append(s, e), ArithmeticStep(m, e))
<1> DEFINE t == Append(s, e)
           next == ArithmeticStep(m, e)
           cs == m.conditions
<1>1. /\ s \in Seq(ArithmeticConstructs) /\ t \in Seq(ArithmeticConstructs) /\ cs \in Seq(Comparisons \X SomeLocal)
      /\ Len(cs) \in Nat /\ Len(cs) = DepthOf(s, Len(s))
  BY DEF ArithmeticKnown
<1>2. /\ e.do = "if" => DepthOf(t, Len(t)) = Len(cs) + 1
      /\ e.do = "close" => DepthOf(t, Len(t)) = Len(cs) - 1
      /\ e.do \notin {"if", "close"} => DepthOf(t, Len(t)) = Len(cs)
  <2>1. e.do \in Opening <=> e.do = "if"
    BY ArithmeticConstructIs DEF Opening
  <2> HIDE DEF cs
  <2> QED BY <1>1, <2>1, OpenAppend
<1>3. CASE e.do = "if"
  <2> DEFINE c == <<e.op, e.args>>
             ds == Append(cs, c)
  <2>1. next.conditions = ds /\ next.context = AnalyzeCondition(m.context, e.op, e.args)
    BY <1>3 DEF ArithmeticStep
  <2>2. c \in Comparisons \X SomeLocal /\ c[1] = e.op /\ c[2] = e.args
    BY <1>3, ArithmeticConstructIs
  <2>3. ds \in Seq(Comparisons \X SomeLocal) /\ Len(ds) = Len(cs) + 1 /\ (Len(cs) = 0 => ds[1] = c)
    BY <1>1, <2>2
  <2>4. Len(cs) = 0 => m.context = NothingKnown
    BY DEF ArithmeticKnown
  <2> HIDE DEF next, ds, c, cs, t
  <2>5. Len(ds) = 1 => next.context = AnalyzeCondition(NothingKnown, ds[1][1], ds[1][2])
    BY <1>1, <2>1, <2>2, <2>3, <2>4
  <2>6. Len(ds) # 0
    BY <1>1, <2>3
  <2> QED BY <1>1, <1>2, <1>3, <2>1, <2>3, <2>5, <2>6 DEF ArithmeticKnown, t, next
<1>4. CASE e.do = "close"
  <2>1. next.conditions = Pop(cs) /\ next.context = NothingKnown
    BY <1>4 DEF ArithmeticStep, NothingKnown
  <2>2. Pop(cs) \in Seq(Comparisons \X SomeLocal) /\ Len(Pop(cs)) = Len(cs) - 1
    BY <1>1, <1>4, Popped
  <2> HIDE DEF next, cs, t
  <2> QED BY <1>1, <1>2, <1>4, <2>1, <2>2 DEF ArithmeticKnown, t, next
<1>5. CASE e.do \notin {"if", "close"}
  <2>1. next = m
    BY <1>5 DEF ArithmeticStep
  <2> QED BY <1>1, <1>2, <1>5, <2>1 DEF ArithmeticKnown
<1> QED BY <1>3, <1>4, <1>5

ArithmeticPass(e) ==
  /\ e \in ArithmeticConstructs
  /\ Pass(e, ArithmeticStep(memory, e), Mark(/\ e.do \in {"checked_div", "checked_sub"}
                                             /\ ~IsArithmeticSafe(memory.context, e)))

LEMMA VisitArithmeticIs == VisitArithmetic => \E e : ArithmeticPass(e)
BY DEF VisitArithmetic, ArithmeticPass

LEMMA ArithmeticFollows ==
  ASSUME ArithmeticInv, NEW e, ArithmeticPass(e)
  PROVE  ArithmeticInv'
<1> DEFINE t == Append(walked, e)
           next == ArithmeticStep(memory, e)
<1>1. /\ e \in ArithmeticConstructs /\ walked' = t /\ lint' = lint /\ memory' = next
      /\ reported' = reported \cup (IF /\ e.do \in {"checked_div", "checked_sub"}
                                       /\ ~IsArithmeticSafe(memory.context, e) THEN {Here} ELSE {})
      /\ ArithmeticKnown(walked, memory) /\ reported \subseteq DOMAIN walked
      /\ e.do = "close" => DepthOf(walked, Len(walked)) > 0
  BY DepthIs DEF ArithmeticPass, Pass, Mark, ArithmeticInv
<1>2. /\ walked \in Seq(ArithmeticConstructs) /\ Len(walked) \in Nat /\ Here \in Nat
      /\ DOMAIN walked = 1 .. Len(walked) /\ DOMAIN t = 1 .. Here /\ Len(t) = Here /\ t[Here] = e
      /\ t # <<>> /\ Here \notin DOMAIN walked /\ Here \in DOMAIN t /\ DOMAIN walked \subseteq DOMAIN t
  BY <1>1 DEF ArithmeticKnown, Here
<1>3. ArithmeticKnown(t, next)
  BY <1>1, ArithmeticKnownNext
<1>4. /\ reported' \subseteq DOMAIN t
      /\ Here \in reported' <=> /\ e.do \in {"checked_div", "checked_sub"}
                                /\ ~IsArithmeticSafe(memory.context, e)
  BY <1>1, <1>2
<1>5. Latest' = {Here}
  BY <1>1, <1>2 DEF Latest
<1> HIDE DEF t
<1>6. ArithmeticExcused'
  <2> DEFINE cond == next.conditions[1]
  <2> SUFFICES ASSUME NEW i \in Latest', t[i].do \in {"checked_div", "checked_sub"}, i \notin reported',
                      Len(next.conditions) = 1,
                      \/ LowerBound(cond, IF t[i].do = "checked_div" THEN t[i].args[2] ELSE t[i].args[1])
                      \/ Equation(cond) /\ t[i].do = "checked_div",
                      NEW val \in [Locals -> Numbers], Holds(cond, val)
               PROVE  ~Fails(t[i], val)
    BY <1>1 DEF ArithmeticExcused
  <2>1. i = Here /\ t[i] = e
    BY <1>2, <1>5
  <2>2. next = memory /\ IsArithmeticSafe(memory.context, e)
    BY <1>4, <2>1 DEF ArithmeticStep
  <2>3. /\ cond \in Comparisons \X SomeLocal
        /\ memory.context = NothingKnown \/ memory.context = AnalyzeCondition(NothingKnown, cond[1], cond[2])
    BY <1>1, <2>2 DEF ArithmeticKnown
  <2> HIDE DEF cond, next
  <2> QED BY <1>1, <2>1, <2>2, <2>3, ExcusedIsSafe
<1> QED BY <1>1, <1>3, <1>4, <1>6 DEF ArithmeticInv

LEMMA ConstantInvariant ==
  Follows({"unsafe-lossy-cast", "dos-unbounded-operation"}, ConstantStart, VisitConstant)
    => [](lint \in {"unsafe-lossy-cast", "dos-unbounded-operation"} => ConstantInv)
<1> DEFINE Casts == {"unsafe-lossy-cast", "dos-unbounded-operation"}
<1>1. (lint \in Casts => Begin(ConstantStart)) => (lint \in Casts => ConstantInv)
  <2> SUFFICES ASSUME Begin(ConstantStart) PROVE ConstantInv
    OBVIOUS
  <2>1. walked = <<>> /\ reported = {} /\ memory = [constants |-> {}] /\ DOMAIN walked = {} /\ Latest = {}
    BY DEF Begin, ConstantStart, Latest
  <2>2. ConstantKnown(lint, walked, {})
    BY <2>1 DEF ConstantKnown, BoundIn
  <2> QED BY <2>1, <2>2 DEF ConstantInv, UnknownValuesReported
<1>2. (lint \in Casts => ConstantInv) /\ [IF lint \in Casts THEN VisitConstant ELSE UNCHANGED lint]_walk
      => (lint \in Casts => ConstantInv)'
  <2> SUFFICES ASSUME lint \in Casts => ConstantInv,
                      [IF lint \in Casts THEN VisitConstant ELSE UNCHANGED lint]_walk,
                      lint' \in Casts
               PROVE  ConstantInv'
    OBVIOUS
  <2> HIDE DEF Casts
  <2>1. lint' = lint
    <3>1. VisitConstant => lint' = lint
      BY DEF VisitConstant, Pass
    <3> QED BY <3>1 DEF walk
  <2>2. ConstantInv /\ (VisitConstant \/ UNCHANGED walk)
    BY <2>1
  <2>3. CASE VisitConstant
    <3>1. PICK e : ConstantPass(e)
      BY <2>3, VisitConstantIs
    <3> QED BY <2>2, <3>1, ConstantFollows
  <2>4. CASE UNCHANGED walk
    BY <2>2, <2>4 DEF ConstantInv, UnknownValuesReported, Unbounded, Latest, walk
  <2> QED BY <2>2, <2>3, <2>4
<1> QED BY <1>1, <1>2, PTL DEF Follows

LEMMA ArithmeticInvariant ==
  Follows({"unsafe-unwrap of arithmetic"}, ArithmeticStart, VisitArithmetic)
    => [](lint \in {"unsafe-unwrap of arithmetic"} => ArithmeticInv)
<1>1. (lint \in {"unsafe-unwrap of arithmetic"} => Begin(ArithmeticStart))
      => (lint \in {"unsafe-unwrap of arithmetic"} => ArithmeticInv)
  <2> SUFFICES ASSUME Begin(ArithmeticStart) PROVE ArithmeticInv
    OBVIOUS
  <2>1. /\ walked = <<>> /\ reported = {} /\ Len(walked) = 0 /\ Latest = {}
        /\ memory.context = NothingKnown /\ memory.conditions = <<>>
    BY DEF Begin, ArithmeticStart, Latest, NothingKnown
  <2>2. Len(<<>>) = 0 /\ <<>> \in Seq(Comparisons \X SomeLocal) /\ <<>> \in Seq(ArithmeticConstructs)
    OBVIOUS
  <2>3. ArithmeticKnown(walked, memory)
    BY <2>1, <2>2, DepthZero DEF ArithmeticKnown
  <2> QED BY <2>1, <2>3 DEF ArithmeticInv, ArithmeticExcused
<1>2. /\ lint \in {"unsafe-unwrap of arithmetic"} => ArithmeticInv
      /\ [IF lint \in {"unsafe-unwrap of arithmetic"} THEN VisitArithmetic ELSE UNCHANGED lint]_walk
      => (lint \in {"unsafe-unwrap of arithmetic"} => ArithmeticInv)'
  <2> SUFFICES ASSUME lint = "unsafe-unwrap of arithmetic" => ArithmeticInv,
                      [IF lint \in {"unsafe-unwrap of arithmetic"} THEN VisitArithmetic ELSE UNCHANGED lint]_walk,
                      lint' = "unsafe-unwrap of arithmetic"
               PROVE  ArithmeticInv'
    OBVIOUS
  <2>1. lint' = lint
    <3>1. VisitArithmetic => lint' = lint
      BY DEF VisitArithmetic, Pass
    <3> QED BY <3>1 DEF walk
  <2>2. ArithmeticInv /\ (VisitArithmetic \/ UNCHANGED walk)
    BY <2>1
  <2>3. CASE VisitArithmetic
    <3>1. PICK e : ArithmeticPass(e)
      BY <2>3, VisitArithmeticIs
    <3> QED BY <2>2, <3>1, ArithmeticFollows
  <2>4. CASE UNCHANGED walk
    <3>1. Latest' = Latest /\ \A n : Depth(n)' = Depth(n)
      BY <2>4 DEF Latest, Depth, walk
    <3> QED BY <2>2, <2>4, <3>1 DEF ArithmeticInv, ArithmeticExcused, walk
  <2> QED BY <2>2, <2>3, <2>4
<1> QED BY <1>1, <1>2, PTL DEF Follows

-----------------------------------------------------------------------------
(* A construct that is passed, and what is reported of it.                    *)

LEMMA PassMarks ==
  ASSUME NEW E, walked \in Seq(E), reported \subseteq DOMAIN walked,
         NEW e \in E, NEW next, NEW found, Pass(e, next, found), found \subseteq {Here}
  PROVE  /\ walked' \in Seq(E) /\ reported' \subseteq DOMAIN walked'
         /\ Latest' = {Here} /\ Len(walked') = Here /\ walked'[Here] = e
         /\ Here \in reported' <=> Here \in found
<1>1. /\ walked' = Append(walked, e) /\ reported' = reported \cup found
      /\ Here = Len(walked) + 1 /\ DOMAIN walked = 1 .. Len(walked) /\ Len(walked) \in Nat
  BY DEF Pass, Here
<1>2. /\ walked' \in Seq(E) /\ Len(walked') = Here /\ walked'[Here] = e /\ walked' # <<>>
      /\ DOMAIN walked' = 1 .. Here
  BY <1>1
<1>3. Latest' = {Here}
  BY <1>2 DEF Latest
<1>4. Here \notin reported /\ reported \subseteq 1 .. Here /\ Here \in 1 .. Here
  BY <1>1
<1>5. reported' \subseteq DOMAIN walked' /\ (Here \in reported' <=> Here \in found)
  BY <1>1, <1>2, <1>4
<1> QED BY <1>2, <1>3, <1>5

\* The same for what the visitor marks on a condition.
LEMMA MarkIs ==
  ASSUME NEW holds
  PROVE  Mark(holds) \subseteq {Here} /\ (Here \in Mark(holds) <=> holds)
BY DEF Mark

-----------------------------------------------------------------------------
(* Lifetimes and approvals: what the analysis of constants leaves behind.     *)

\* The locals that were bound, and what they may be bound to.
LetBound(s) == {v \in Locals : \E i \in DOMAIN s : s[i].do = "let" /\ s[i].v = v}

LiteralOf(N, x) == \E n \in N : x = Literal(n)

CopyOf(D, x) == \E v \in D : x = Local(v)

UnfinishedSum(N, x) == \E n \in N : x = Sum2(Literal(n), Node("call", <<>>))

Initializer(N, D, x) == LiteralOf(N, x) \/ x = Unknown \/ CopyOf(D, x) \/ UnfinishedSum(N, x)

Forms == [unknown : Nat, call : Nat, plus : Nat]

AssignedIn(s) == \E i \in DOMAIN s : s[i].do = "assign"

SumPassed(s) == \E i \in DOMAIN s : s[i].do = "let" /\ s[i].of[1].op = "+"

StaleIn(s) == \E i, j \in DOMAIN s : /\ i < j /\ s[i].do = "let" /\ s[j].do = "let"
                                     /\ s[i].of[1].op = "+" /\ s[j].of[1].op = "local"

\* The constant left behind is that of an unfinished sum.
Leftover(s, m, N) == /\ m.current_constant \in N \cup {Nowhere}
                     /\ m.current_constant # Nowhere => SumPassed(s)

\* What a local holds is the form of its initializer, until something is assigned.
BoundRight(s, m, N, v) ==
  /\ Initializer(N, LetBound(s), m.inits[v]) /\ m.holds[v] \in Forms
  /\ m.inits[v].op = "literal" => v \in DOMAIN m.constants /\ m.constants[v] = m.inits[v].args[1]
  /\ AssignedIn(s) \/ m.holds[v] = FormOf(m.holds, m.inits[v])

\* A constant is what the local holds, unless it is one that was left behind.
ConstantRight(s, m, N, v) ==
  /\ m.constants[v] \in N \cup {Nowhere}
  /\ m.constants[v] # Nowhere =>
       AssignedIn(s) \/ StaleIn(s) \/ m.holds[v] = Form(0, 0, m.constants[v])

MemoryShape(s, m) ==
  /\ m = [constants |-> m.constants, current_constant |-> m.current_constant,
          inits |-> m.inits, holds |-> m.holds]
  /\ DOMAIN m.inits = LetBound(s) /\ DOMAIN m.holds = LetBound(s)
  /\ DOMAIN m.constants \subseteq LetBound(s)

TtlKnown(s, m, N) == /\ MemoryShape(s, m) /\ Leftover(s, m, N)
                     /\ \A v \in LetBound(s) : BoundRight(s, m, N, v)
                     /\ \A v \in DOMAIN m.constants : ConstantRight(s, m, N, v)

LEMMA NodesAre ==
  /\ \A n : Literal(n).op = "literal" /\ Literal(n).args = <<n>> /\ Literal(n).args[1] = n
  /\ \A v : Local(v).op = "local" /\ Local(v).args = <<v>> /\ Local(v).args[1] = v
  /\ Unknown.op = "unknown"
  /\ \A l, r : /\ Sum2(l, r).op = "+" /\ Sum2(l, r).args = <<l, r>>
               /\ Sum2(l, r).args[1] = l /\ Sum2(l, r).args[2] = r
  /\ Node("call", <<>>).op = "call"
BY DEF Literal, Local, Unknown, Sum2, Node

LEMMA EvaluateIs ==
  ASSUME NEW s, NEW m, MemoryShape(s, m)
  PROVE  /\ \A n : Evaluate(m, Literal(n)) = [constant |-> TRUE, current |-> n]
         /\ Evaluate(m, Unknown) = [constant |-> FALSE, current |-> m.current_constant]
         /\ \A v : Evaluate(m, Local(v)) = [constant |-> v \in DOMAIN m.constants,
                                            current |-> m.current_constant]
         /\ \A n : Evaluate(m, Sum2(Literal(n), Node("call", <<>>)))
                     = [constant |-> FALSE, current |-> n]
<1>1. \A k, n : EvaluateOne(k, Literal(n)) = [constant |-> TRUE, current |-> n]
  BY NodesAre DEF EvaluateOne
<1>2. EvaluateOne(m, Unknown) = [constant |-> FALSE, current |-> m.current_constant]
  BY NodesAre DEF EvaluateOne
<1>3. \A v : EvaluateOne(m, Local(v)) = [constant |-> v \in DOMAIN m.constants,
                                         current |-> m.current_constant]
  BY NodesAre DEF EvaluateOne
<1>4. \A k : EvaluateOne(k, Node("call", <<>>)) = [constant |-> FALSE, current |-> k.current_constant]
  BY NodesAre DEF EvaluateOne
<1>5. \A n : [m EXCEPT !.current_constant = n].current_constant = n
  BY DEF MemoryShape
<1>6. \A n : Evaluate(m, Sum2(Literal(n), Node("call", <<>>))) = [constant |-> FALSE, current |-> n]
  <2> SUFFICES ASSUME NEW n
               PROVE  Evaluate(m, Sum2(Literal(n), Node("call", <<>>))) = [constant |-> FALSE, current |-> n]
    OBVIOUS
  <2> DEFINE x == Sum2(Literal(n), Node("call", <<>>))
             left == EvaluateOne(m, Literal(n))
             k == [m EXCEPT !.current_constant = n]
  <2>1. x.op = "+" /\ x.args[1] = Literal(n) /\ x.args[2] = Node("call", <<>>)
    BY NodesAre
  <2>2. left = [constant |-> TRUE, current |-> n]
    BY <1>1
  <2>3. k.current_constant = n
    BY <1>5
  <2>4. EvaluateOne(k, Node("call", <<>>)) = [constant |-> FALSE, current |-> n]
    BY <1>4, <2>3
  <2>5. left.constant /\ left.current = n
    BY <2>2
  <2> HIDE DEF x
  <2>6. Evaluate(m, x) = EvaluateOne(k, Node("call", <<>>))
    BY <2>1, <2>5 DEF Evaluate
  <2> QED BY <2>4, <2>6 DEF x
<1>7. \A x : x.op # "+" => Evaluate(m, x) = EvaluateOne(m, x)
  BY DEF Evaluate
<1>8. /\ \A n : Evaluate(m, Literal(n)) = EvaluateOne(m, Literal(n))
      /\ Evaluate(m, Unknown) = EvaluateOne(m, Unknown)
      /\ \A v : Evaluate(m, Local(v)) = EvaluateOne(m, Local(v))
  BY <1>7, NodesAre
<1> QED BY <1>1, <1>2, <1>3, <1>6, <1>8

LEMMA FormOfIs ==
  ASSUME NEW holds
  PROVE  /\ \A n : FormOf(holds, Literal(n)) = Form(0, 0, n)
         /\ FormOf(holds, Unknown) = Form(1, 0, 0)
         /\ \A v : FormOf(holds, Local(v)) = holds[v]
         /\ \A l, r : FormOf(holds, Sum2(l, r)) = Added(FormOfOne(holds, l), FormOfOne(holds, r))
         /\ \A n \in Int : FormOf(holds, Sum2(Literal(n), Node("call", <<>>))) = Form(0, 1, n)
<1>1. /\ \A n : FormOfOne(holds, Literal(n)) = Form(0, 0, n)
      /\ FormOfOne(holds, Unknown) = Form(1, 0, 0)
      /\ \A v : FormOfOne(holds, Local(v)) = holds[v]
      /\ FormOfOne(holds, Node("call", <<>>)) = Form(0, 1, 0)
  BY NodesAre DEF FormOfOne
<1>2. \A l, r : FormOf(holds, Sum2(l, r)) = Added(FormOfOne(holds, l), FormOfOne(holds, r))
  BY NodesAre DEF FormOf
<1>3. \A n \in Int : Added(Form(0, 0, n), Form(0, 1, 0)) = Form(0, 1, n)
  BY DEF Added, Form
<1> QED BY <1>1, <1>2, <1>3, NodesAre DEF FormOf

FormsHeld(D, holds) == DOMAIN holds = D /\ \A v \in D : holds[v] \in Forms

\* What an initializer comes to is a form.
LEMMA FormIs ==
  ASSUME NEW N, N \subseteq Nat, NEW D, NEW holds, FormsHeld(D, holds), NEW x, Initializer(N, D, x)
  PROVE  FormOf(holds, x) \in Forms
<1>1. CASE LiteralOf(N, x) \/ x = Unknown \/ UnfinishedSum(N, x)
  <2>1. /\ \A n \in N : /\ FormOf(holds, Literal(n)) = Form(0, 0, n)
                        /\ FormOf(holds, Sum2(Literal(n), Node("call", <<>>))) = Form(0, 1, n)
        /\ FormOf(holds, Unknown) = Form(1, 0, 0)
    <3>1. \A n \in N : n \in Int
      OBVIOUS
    <3> QED BY <3>1, FormOfIs
  <2>2. Form(1, 0, 0) \in Forms /\ \A n \in N : Form(0, 0, n) \in Forms /\ Form(0, 1, n) \in Forms
    BY DEF Form, Forms
  <2> QED BY <1>1, <2>1, <2>2 DEF LiteralOf, UnfinishedSum
<1>2. CASE CopyOf(D, x)
  <2>1. PICK w \in D : x = Local(w)
    BY <1>2 DEF CopyOf
  <2>2. FormOf(holds, x) = holds[w] /\ holds[w] \in Forms
    BY <2>1, FormOfIs DEF FormsHeld
  <2> QED BY <2>2
<1> QED BY <1>1, <1>2 DEF Initializer

\* It stays what it is when another local is bound.
LEMMA FormStays ==
  ASSUME NEW N, NEW D, NEW holds, DOMAIN holds = D, NEW x, Initializer(N, D, x),
         NEW v, v \notin D, NEW form
  PROVE  FormOf(With(holds, v, form), x) = FormOf(holds, x)
<1>1. CASE LiteralOf(N, x)
  BY <1>1, FormOfIs DEF LiteralOf
<1>2. CASE x = Unknown
  BY <1>2, FormOfIs
<1>3. CASE UnfinishedSum(N, x)
  <2>1. PICK n \in N : x = Sum2(Literal(n), Node("call", <<>>))
    BY <1>3 DEF UnfinishedSum
  <2>2. \A h : /\ FormOfOne(h, Literal(n)) = Form(0, 0, n)
               /\ FormOfOne(h, Node("call", <<>>)) = Form(0, 1, 0)
    BY NodesAre DEF FormOfOne
  <2>3. \A h : FormOf(h, x) = Added(Form(0, 0, n), Form(0, 1, 0))
    <3> TAKE h
    <3>1. x.op = "+" /\ x.args[1] = Literal(n) /\ x.args[2] = Node("call", <<>>)
      BY <2>1, NodesAre
    <3> QED BY <2>2, <3>1 DEF FormOf
  <2> QED BY <2>3
<1>4. CASE CopyOf(D, x)
  <2>1. PICK w \in D : x = Local(w)
    BY <1>4 DEF CopyOf
  <2>2. With(holds, v, form)[w] = holds[w]
    BY <2>1 DEF With
  <2>3. FormOf(With(holds, v, form), x) = With(holds, v, form)[w] /\ FormOf(holds, x) = holds[w]
    BY <2>1, FormOfIs
  <2> QED BY <2>2, <2>3
<1> QED BY <1>1, <1>2, <1>3, <1>4 DEF Initializer

\* A let binds one local more.
LEMMA LetNext ==
  ASSUME NEW E, NEW s \in Seq(E), NEW e \in E, e.do = "let", e.v \in Locals \cup {Nowhere}
  PROVE  LET t == Append(s, e)
         IN  /\ e.v = Nowhere => LetBound(t) = LetBound(s)
             /\ e.v # Nowhere => LetBound(t) = LetBound(s) \cup {e.v}
             /\ AssignedIn(t) <=> AssignedIn(s)
             /\ StaleIn(s) => StaleIn(t)
             /\ SumPassed(s) \/ e.of[1].op = "+" => SumPassed(t)
             /\ SumPassed(s) /\ e.of[1].op = "local" => StaleIn(t)
<1> DEFINE t == Append(s, e)
           n == Len(s) + 1
<1>1. /\ DOMAIN s = 1 .. Len(s) /\ DOMAIN t = DOMAIN s \cup {n} /\ n \notin DOMAIN s
      /\ t[n] = e /\ (\A i \in DOMAIN s : t[i] = s[i]) /\ \A i \in DOMAIN s : i < n
      /\ \A i, j \in DOMAIN s : i \in DOMAIN t /\ j \in DOMAIN t
  OBVIOUS
<1> HIDE DEF t, n
<1>2. \A v : (\E i \in DOMAIN t : t[i].do = "let" /\ t[i].v = v)
               <=> (\E i \in DOMAIN s : s[i].do = "let" /\ s[i].v = v) \/ e.v = v
  BY <1>1
<1>3. /\ e.v = Nowhere => LetBound(t) = LetBound(s)
      /\ e.v # Nowhere => LetBound(t) = LetBound(s) \cup {e.v}
  <2>1. e.v = Nowhere => \A v \in Locals : e.v # v
    BY NowhereAssumption
  <2>2. e.v # Nowhere => e.v \in Locals
    OBVIOUS
  <2>3. \A v \in Locals : v \in LetBound(t) <=> v \in LetBound(s) \/ e.v = v
    BY <1>2 DEF LetBound
  <2>4. LetBound(t) \subseteq Locals /\ LetBound(s) \subseteq Locals
    BY DEF LetBound
  <2> QED BY <2>1, <2>2, <2>3, <2>4
<1>4. AssignedIn(t) <=> AssignedIn(s)
  BY <1>1 DEF AssignedIn
<1>5. StaleIn(s) => StaleIn(t)
  BY <1>1 DEF StaleIn
<1>6. SumPassed(s) \/ e.of[1].op = "+" => SumPassed(t)
  BY <1>1 DEF SumPassed
<1>7. SumPassed(s) /\ e.of[1].op = "local" => StaleIn(t)
  BY <1>1 DEF SumPassed, StaleIn
<1> QED BY <1>3, <1>4, <1>5, <1>6, <1>7 DEF t

\* What a let makes of the memory.
LEMMA LetMemory ==
  ASSUME NEW s, NEW m, MemoryShape(s, m), NEW e, e.do = "let", NEW x, e.of[1] = x
  PROVE  LET result == Evaluate(m, x)
             next == TtlStep(m, e)
         IN  /\ next = [constants |-> next.constants, current_constant |-> next.current_constant,
                        inits |-> next.inits, holds |-> next.holds]
             /\ next.constants = IF result.constant THEN With(m.constants, e.v, result.current)
                                 ELSE m.constants
             /\ next.current_constant = IF result.constant THEN Nowhere ELSE result.current
             /\ next.inits = With(m.inits, e.v, x)
             /\ next.holds = With(m.holds, e.v, FormOf(m.holds, x))
<1> DEFINE result == Evaluate(m, x)
           next == TtlStep(m, e)
<1>1. next = [constants |-> IF result.constant THEN With(m.constants, e.v, result.current)
                            ELSE m.constants,
              current_constant |-> IF result.constant THEN Nowhere ELSE result.current,
              inits |-> With(m.inits, e.v, x),
              holds |-> With(m.holds, e.v, FormOf(m.holds, x))]
  BY DEF TtlStep
<1> HIDE DEF result, next
<1>2. /\ next.constants = IF result.constant THEN With(m.constants, e.v, result.current)
                          ELSE m.constants
      /\ next.current_constant = IF result.constant THEN Nowhere ELSE result.current
      /\ next.inits = With(m.inits, e.v, x)
      /\ next.holds = With(m.holds, e.v, FormOf(m.holds, x))
  BY <1>1
<1> QED BY <1>1, <1>2 DEF result, next

\* A let of an initializer keeps what is known of the memory.
LEMMA LetKnown ==
  ASSUME NEW N, N \subseteq Nat, NEW E, NEW s \in Seq(E), NEW m, TtlKnown(s, m, N),
         NEW e \in E, e.do = "let", e.v \in Locals \cup {Nowhere}, e.v \notin LetBound(s),
         NEW x, e.of[1] = x, Initializer(N, LetBound(s), x)
  PROVE  TtlKnown(Append(s, e), TtlStep(m, e), N)
<1> DEFINE t == Append(s, e)
           next == TtlStep(m, e)
           result == Evaluate(m, x)
           form == FormOf(m.holds, x)
<1>0. /\ m.current_constant \in N \cup {Nowhere}
      /\ m.current_constant # Nowhere => SumPassed(s)
  <2>1. Leftover(s, m, N)
    BY DEF TtlKnown
  <2> QED BY <2>1 DEF Leftover
<1>1. /\ MemoryShape(s, m) /\ Leftover(s, m, N)
      /\ DOMAIN m.inits = LetBound(s) /\ DOMAIN m.holds = LetBound(s)
      /\ DOMAIN m.constants \subseteq LetBound(s)
      /\ \A v \in LetBound(s) : BoundRight(s, m, N, v)
      /\ \A v \in DOMAIN m.constants : ConstantRight(s, m, N, v)
  BY DEF TtlKnown, MemoryShape
<1>2. /\ e.v = Nowhere => LetBound(t) = LetBound(s)
      /\ e.v # Nowhere => LetBound(t) = LetBound(s) \cup {e.v}
      /\ AssignedIn(t) <=> AssignedIn(s)
      /\ StaleIn(s) => StaleIn(t)
      /\ SumPassed(s) \/ x.op = "+" => SumPassed(t)
      /\ SumPassed(s) /\ x.op = "local" => StaleIn(t)
  BY LetNext
<1>3. /\ next = [constants |-> next.constants, current_constant |-> next.current_constant,
                 inits |-> next.inits, holds |-> next.holds]
      /\ next.constants = IF result.constant THEN With(m.constants, e.v, result.current)
                          ELSE m.constants
      /\ next.current_constant = IF result.constant THEN Nowhere ELSE result.current
      /\ next.inits = With(m.inits, e.v, x)
      /\ next.holds = With(m.holds, e.v, form)
  BY <1>1, LetMemory
<1>4. /\ FormsHeld(LetBound(s), m.holds)
      /\ \A v \in LetBound(s) : Initializer(N, LetBound(s), m.inits[v])
  BY <1>1 DEF BoundRight, FormsHeld
<1>5. form \in Forms
  BY <1>4, FormIs
<1>6. \A n \in N : n # Nowhere
  BY NowhereAssumption
\* What the initializer evaluates to, by its kind.
<1>7. /\ result.constant \in BOOLEAN
      /\ LiteralOf(N, x) => /\ result.constant /\ result.current \in N /\ x.op = "literal"
                            /\ result.current = x.args[1] /\ form = Form(0, 0, result.current)
      /\ x = Unknown => ~result.constant /\ result.current = m.current_constant /\ x.op = "unknown"
      /\ CopyOf(LetBound(s), x) => result.current = m.current_constant /\ x.op = "local"
      /\ UnfinishedSum(N, x) => ~result.constant /\ result.current \in N /\ x.op = "+"
  <2>1. LiteralOf(N, x) => /\ result = [constant |-> TRUE, current |-> x.args[1]] /\ x.op = "literal"
                           /\ x.args[1] \in N /\ form = Form(0, 0, x.args[1])
    <3> SUFFICES ASSUME NEW n \in N, x = Literal(n)
                 PROVE  /\ result = [constant |-> TRUE, current |-> x.args[1]] /\ x.op = "literal"
                        /\ x.args[1] \in N /\ form = Form(0, 0, x.args[1])
      BY DEF LiteralOf
    <3>1. x.op = "literal" /\ x.args[1] = n
      BY NodesAre
    <3>2. result = [constant |-> TRUE, current |-> n]
      BY <1>1, EvaluateIs
    <3>3. form = Form(0, 0, n)
      BY FormOfIs
    <3> QED BY <3>1, <3>2, <3>3
  <2>2. x = Unknown => /\ result = [constant |-> FALSE, current |-> m.current_constant]
                       /\ x.op = "unknown"
    BY <1>1, EvaluateIs, NodesAre
  <2>3. CopyOf(LetBound(s), x) =>
          /\ \E b \in BOOLEAN : result = [constant |-> b, current |-> m.current_constant]
          /\ x.op = "local"
    <3> SUFFICES ASSUME NEW v, x = Local(v)
                 PROVE  /\ \E b \in BOOLEAN : result = [constant |-> b, current |-> m.current_constant]
                        /\ x.op = "local"
      BY DEF CopyOf
    <3>1. x.op = "local"
      BY NodesAre
    <3>2. result = [constant |-> v \in DOMAIN m.constants, current |-> m.current_constant]
      BY <1>1, EvaluateIs
    <3>3. (v \in DOMAIN m.constants) \in BOOLEAN
      OBVIOUS
    <3> QED BY <3>1, <3>2, <3>3
  <2>4. UnfinishedSum(N, x) => /\ \E n \in N : result = [constant |-> FALSE, current |-> n]
                               /\ x.op = "+"
    <3> SUFFICES ASSUME NEW n \in N, x = Sum2(Literal(n), Node("call", <<>>))
                 PROVE  result = [constant |-> FALSE, current |-> n] /\ x.op = "+"
      BY DEF UnfinishedSum
    <3>1. x.op = "+"
      BY NodesAre
    <3>2. result = [constant |-> FALSE, current |-> n]
      BY <1>1, EvaluateIs
    <3> QED BY <3>1, <3>2
  <2> HIDE DEF result, form
  <2>5. LiteralOf(N, x) \/ x = Unknown \/ CopyOf(LetBound(s), x) \/ UnfinishedSum(N, x)
    BY DEF Initializer
  <2>6. LiteralOf(N, x) => /\ result.constant /\ result.current \in N /\ x.op = "literal"
                           /\ result.current = x.args[1] /\ form = Form(0, 0, result.current)
    BY <2>1
  <2>7. x = Unknown => ~result.constant /\ result.current = m.current_constant /\ x.op = "unknown"
    BY <2>2
  <2>8. CopyOf(LetBound(s), x) => result.current = m.current_constant /\ x.op = "local"
    BY <2>3
  <2>9. UnfinishedSum(N, x) => ~result.constant /\ result.current \in N /\ x.op = "+"
    BY <2>4
  <2>10. \E c : \E b \in BOOLEAN : result = [constant |-> b, current |-> c]
    BY <2>1, <2>2, <2>3, <2>4, <2>5
  <2>11. result.constant \in BOOLEAN
    BY <2>10
  <2> QED BY <2>6, <2>7, <2>8, <2>9, <2>11
<1> HIDE DEF t, next, result, form
<1>8. MemoryShape(t, next)
  <2>1. CASE e.v = Nowhere
    BY <1>1, <1>2, <1>3, <2>1 DEF MemoryShape, With
  <2>2. CASE e.v # Nowhere
    <3>1. /\ DOMAIN With(m.inits, e.v, x) = LetBound(t) /\ DOMAIN With(m.holds, e.v, form) = LetBound(t)
          /\ DOMAIN With(m.constants, e.v, result.current) \subseteq LetBound(t)
      BY <1>1, <1>2, <2>2 DEF With
    <3>2. DOMAIN m.constants \subseteq LetBound(t)
      BY <1>1, <1>2, <2>2
    <3> QED BY <1>3, <3>1, <3>2 DEF MemoryShape
  <2> QED BY <2>1, <2>2
<1>9. Leftover(t, next, N)
  <2>1. /\ m.current_constant \in N \cup {Nowhere}
        /\ m.current_constant # Nowhere => SumPassed(s)
    BY <1>0
  <2>2. result.constant \/ \/ result.current = m.current_constant
                           \/ result.current \in N /\ x.op = "+"
    BY <1>7 DEF Initializer
  <2> QED BY <1>2, <1>3, <2>1, <2>2 DEF Leftover
<1>10. \A v \in LetBound(s) :
         /\ next.inits[v] = m.inits[v] /\ next.holds[v] = m.holds[v]
         /\ v \in DOMAIN m.constants =>
              v \in DOMAIN next.constants /\ next.constants[v] = m.constants[v]
         /\ v \in DOMAIN next.constants => v \in DOMAIN m.constants
  <2> SUFFICES ASSUME NEW v \in LetBound(s)
               PROVE  /\ next.inits[v] = m.inits[v] /\ next.holds[v] = m.holds[v]
                      /\ v \in DOMAIN m.constants =>
                           v \in DOMAIN next.constants /\ next.constants[v] = m.constants[v]
                      /\ v \in DOMAIN next.constants => v \in DOMAIN m.constants
    OBVIOUS
  <2>1. v # e.v
    OBVIOUS
  <2>2. With(m.inits, e.v, x)[v] = m.inits[v] /\ With(m.holds, e.v, form)[v] = m.holds[v]
    BY <1>1, <2>1 DEF With
  <2>3. /\ v \in DOMAIN With(m.constants, e.v, result.current) <=> v \in DOMAIN m.constants
        /\ v \in DOMAIN m.constants => With(m.constants, e.v, result.current)[v] = m.constants[v]
    BY <2>1 DEF With
  <2> QED BY <1>3, <2>2, <2>3
<1>11. \A y : Initializer(N, LetBound(s), y) =>
         /\ Initializer(N, LetBound(t), y)
         /\ FormOf(next.holds, y) = FormOf(m.holds, y)
  <2> SUFFICES ASSUME NEW y, Initializer(N, LetBound(s), y)
               PROVE  Initializer(N, LetBound(t), y) /\ FormOf(next.holds, y) = FormOf(m.holds, y)
    OBVIOUS
  <2>1. LetBound(s) \subseteq LetBound(t)
    BY <1>2
  <2>2. Initializer(N, LetBound(t), y)
    BY <2>1 DEF Initializer, CopyOf
  <2>3. FormOf(With(m.holds, e.v, form), y) = FormOf(m.holds, y)
    <3>1. DOMAIN m.holds = LetBound(s)
      BY <1>1
    <3> QED BY <3>1, FormStays
  <2> QED BY <1>3, <2>2, <2>3
<1>12. ASSUME NEW v \in LetBound(t)
       PROVE  BoundRight(t, next, N, v)
  <2>1. CASE v \in LetBound(s)
    BY <1>1, <1>2, <1>10, <1>11, <2>1 DEF BoundRight
  <2>2. CASE v \notin LetBound(s)
    <3>1. v = e.v /\ e.v # Nowhere
      BY <1>2, <2>2
    <3>2. next.inits[v] = x /\ next.holds[v] = form
      BY <1>3, <3>1 DEF With
    <3>3. Initializer(N, LetBound(t), x) /\ FormOf(next.holds, x) = form
      BY <1>11 DEF form
    <3>4. x.op = "literal" => v \in DOMAIN next.constants /\ next.constants[v] = x.args[1]
      <4>1. x.op = "literal" => result.constant /\ result.current = x.args[1]
        BY <1>7 DEF Initializer
      <4>2. v \in DOMAIN With(m.constants, v, result.current)
            /\ With(m.constants, v, result.current)[v] = result.current
        BY <3>1 DEF With
      <4> QED BY <1>3, <3>1, <4>1, <4>2
    <3> QED BY <1>5, <3>2, <3>3, <3>4 DEF BoundRight
  <2> QED BY <2>1, <2>2
<1>13. ASSUME NEW v \in DOMAIN next.constants
       PROVE  ConstantRight(t, next, N, v)
  <2>0. v \in LetBound(t)
    BY <1>8 DEF MemoryShape
  <2>1. CASE v \in LetBound(s)
    <3>1. v \in DOMAIN m.constants /\ next.constants[v] = m.constants[v] /\ next.holds[v] = m.holds[v]
      BY <1>10, <2>1
    <3> QED BY <1>1, <1>2, <3>1 DEF ConstantRight
  <2>2. CASE v \notin LetBound(s)
    <3>1. v = e.v /\ e.v # Nowhere
      BY <1>2, <2>0, <2>2
    <3>2. result.constant /\ next.constants[v] = result.current
      BY <1>1, <1>3, <2>2, <3>1 DEF With
    <3>3. next.holds[v] = form
      BY <1>3, <3>1 DEF With
    <3>4. \/ LiteralOf(N, x) /\ result.current \in N /\ form = Form(0, 0, result.current)
          \/ result.current = m.current_constant /\ x.op = "local"
      BY <1>7, <3>2 DEF Initializer
    <3> QED BY <1>0, <1>2, <3>2, <3>3, <3>4 DEF ConstantRight
  <2> QED BY <2>1, <2>2
<1> QED BY <1>8, <1>9, <1>12, <1>13 DEF TtlKnown, t, next

\* Anything else binds nothing.
LEMMA OtherNext ==
  ASSUME NEW E, NEW s \in Seq(E), NEW e \in E, e.do # "let"
  PROVE  LET t == Append(s, e)
         IN  /\ LetBound(t) = LetBound(s)
             /\ AssignedIn(t) <=> AssignedIn(s) \/ e.do = "assign"
             /\ StaleIn(t) <=> StaleIn(s)
             /\ SumPassed(t) <=> SumPassed(s)
<1> DEFINE t == Append(s, e)
           n == Len(s) + 1
<1>1. /\ DOMAIN s = 1 .. Len(s) /\ DOMAIN t = DOMAIN s \cup {n} /\ n \notin DOMAIN s
      /\ t[n] = e /\ (\A i \in DOMAIN s : t[i] = s[i])
  OBVIOUS
<1> HIDE DEF t, n
<1>2. LetBound(t) = LetBound(s)
  BY <1>1 DEF LetBound
<1>3. AssignedIn(t) <=> AssignedIn(s) \/ e.do = "assign"
  BY <1>1 DEF AssignedIn
<1>4. StaleIn(t) <=> StaleIn(s)
  BY <1>1 DEF StaleIn
<1>5. SumPassed(t) <=> SumPassed(s)
  BY <1>1 DEF SumPassed
<1> QED BY <1>2, <1>3, <1>4, <1>5 DEF t

LEMMA AssignKnown ==
  ASSUME NEW N, NEW E, NEW s \in Seq(E), NEW m, TtlKnown(s, m, N),
         NEW e \in E, e.do = "assign", e.v \in LetBound(s)
  PROVE  TtlKnown(Append(s, e), TtlStep(m, e), N)
<1> DEFINE t == Append(s, e)
           next == TtlStep(m, e)
<1>1. /\ MemoryShape(s, m) /\ Leftover(s, m, N)
      /\ DOMAIN m.inits = LetBound(s) /\ DOMAIN m.holds = LetBound(s)
      /\ DOMAIN m.constants \subseteq LetBound(s)
      /\ \A v \in LetBound(s) : BoundRight(s, m, N, v)
      /\ \A v \in DOMAIN m.constants : ConstantRight(s, m, N, v)
  BY DEF TtlKnown, MemoryShape
<1>2. /\ LetBound(t) = LetBound(s) /\ AssignedIn(t) /\ (StaleIn(s) => StaleIn(t))
      /\ SumPassed(s) => SumPassed(t)
  BY OtherNext
<1>3. next = [m EXCEPT !.holds[e.v].plus = @ + 1]
  BY DEF TtlStep
<1>4. /\ next = [constants |-> m.constants, current_constant |-> m.current_constant,
                 inits |-> m.inits, holds |-> [m.holds EXCEPT ![e.v].plus = @ + 1]]
  BY <1>1, <1>3 DEF MemoryShape
<1> HIDE DEF t, next
<1>5. /\ next.constants = m.constants /\ next.current_constant = m.current_constant
      /\ next.inits = m.inits /\ next.holds = [m.holds EXCEPT ![e.v].plus = @ + 1]
  BY <1>4
<1>6. MemoryShape(t, next) /\ Leftover(t, next, N)
  BY <1>1, <1>2, <1>4, <1>5 DEF MemoryShape, Leftover
<1>7. ASSUME NEW v \in LetBound(t)
      PROVE  BoundRight(t, next, N, v)
  <2>1. v \in LetBound(s) /\ m.holds[v] \in Forms
    BY <1>1, <1>2 DEF BoundRight
  <2>2. next.holds[v] = IF v = e.v THEN [m.holds[v] EXCEPT !.plus = @ + 1] ELSE m.holds[v]
    BY <1>1, <1>5, <2>1
  <2>3. next.holds[v] \in Forms
    BY <2>1, <2>2 DEF Forms
  <2> QED BY <1>1, <1>2, <1>5, <2>1, <2>3 DEF BoundRight
<1>8. \A v \in DOMAIN next.constants : ConstantRight(t, next, N, v)
  BY <1>1, <1>2, <1>5 DEF ConstantRight
<1> QED BY <1>6, <1>7, <1>8 DEF TtlKnown, t, next

LEMMA OtherKnown ==
  ASSUME NEW N, NEW E, NEW s \in Seq(E), NEW m, TtlKnown(s, m, N),
         NEW e \in E, e.do \notin {"let", "assign"}
  PROVE  TtlStep(m, e) = m /\ TtlKnown(Append(s, e), m, N)
<1> DEFINE t == Append(s, e)
<1>1. /\ LetBound(t) = LetBound(s) /\ (AssignedIn(t) <=> AssignedIn(s))
      /\ StaleIn(t) <=> StaleIn(s)
      /\ SumPassed(t) <=> SumPassed(s)
  BY OtherNext
<1>2. TtlStep(m, e) = m
  BY DEF TtlStep
<1> HIDE DEF t
<1>3. MemoryShape(t, m) /\ Leftover(t, m, N)
  BY <1>1 DEF TtlKnown, MemoryShape, Leftover
<1>4. \A v \in LetBound(t) : BoundRight(t, m, N, v)
  BY <1>1 DEF TtlKnown, BoundRight
<1>5. \A v \in DOMAIN m.constants : ConstantRight(t, m, N, v)
  BY <1>1 DEF TtlKnown, ConstantRight
<1> QED BY <1>2, <1>3, <1>4, <1>5 DEF TtlKnown, t

-----------------------------------------------------------------------------
\* What may be handed to the functions that the detectors look for.
ArgumentOne(D, x) == (\E n \in Int : x = Literal(n)) \/ x = Unknown \/ CopyOf(D, x)

Argument(D, x) == \/ ArgumentOne(D, x)
                  \/ \E l, r : ArgumentOne(D, l) /\ ArgumentOne(D, r) /\ x = Sum2(l, r)

LEMMA ArgumentOneIs ==
  ASSUME NEW D, NEW holds, \A v \in D : holds[v] \in Forms, NEW x, ArgumentOne(D, x)
  PROVE  /\ x.op \in {"literal", "unknown", "local"}
         /\ x.op = "literal" => /\ x.args[1] \in Int
                                /\ FormOfOne(holds, x) = Form(0, 0, x.args[1])
         /\ x.op = "unknown" => FormOfOne(holds, x) = Form(1, 0, 0)
         /\ x.op = "local" => x.args[1] \in D /\ FormOfOne(holds, x) = holds[x.args[1]]
         /\ FormOfOne(holds, x) \in [unknown : Nat, call : Nat, plus : Int]
<1>1. ASSUME NEW n \in Int, x = Literal(n)
      PROVE  x.op = "literal" /\ x.args[1] = n /\ FormOfOne(holds, x) = Form(0, 0, n)
    BY <1>1, NodesAre DEF FormOfOne
<1>2. ASSUME x = Unknown
      PROVE  x.op = "unknown" /\ FormOfOne(holds, x) = Form(1, 0, 0)
    BY <1>2, NodesAre DEF FormOfOne
<1>3. ASSUME NEW v \in D, x = Local(v)
      PROVE  x.op = "local" /\ x.args[1] = v /\ FormOfOne(holds, x) = holds[v]
    BY <1>3, NodesAre DEF FormOfOne
<1>4. \A n \in Int : Form(0, 0, n) \in [unknown : Nat, call : Nat, plus : Int]
  BY DEF Form
<1>5. Form(1, 0, 0) \in [unknown : Nat, call : Nat, plus : Int]
  BY DEF Form
<1>6. Forms \subseteq [unknown : Nat, call : Nat, plus : Int]
  BY DEF Forms
<1> QED BY <1>1, <1>2, <1>3, <1>4, <1>5, <1>6 DEF ArgumentOne, CopyOf

LEMMA ArgumentIs ==
  ASSUME NEW D, NEW holds, \A v \in D : holds[v] \in Forms, NEW x, Argument(D, x)
  PROVE  /\ FormOf(holds, x) \in [unknown : Nat, call : Nat, plus : Int]
         /\ \/ /\ ArgumentOne(D, x) /\ x.op # "+" /\ FormOf(holds, x) = FormOfOne(holds, x)
            \/ /\ x.op = "+" /\ ArgumentOne(D, x.args[1]) /\ ArgumentOne(D, x.args[2])
               /\ FormOf(holds, x) = Added(FormOfOne(holds, x.args[1]), FormOfOne(holds, x.args[2]))
<1>1. CASE ArgumentOne(D, x)
  <2>1. x.op # "+" /\ FormOfOne(holds, x) \in [unknown : Nat, call : Nat, plus : Int]
    BY <1>1, ArgumentOneIs
  <2> QED BY <1>1, <2>1 DEF FormOf
<1>2. ASSUME NEW l, NEW r, ArgumentOne(D, l), ArgumentOne(D, r), x = Sum2(l, r)
      PROVE  /\ FormOf(holds, x) \in [unknown : Nat, call : Nat, plus : Int]
             /\ x.op = "+" /\ x.args[1] = l /\ x.args[2] = r
             /\ FormOf(holds, x) = Added(FormOfOne(holds, l), FormOfOne(holds, r))
  <2>1. x.op = "+" /\ x.args[1] = l /\ x.args[2] = r
    BY <1>2, NodesAre
  <2>2. FormOf(holds, x) = Added(FormOfOne(holds, l), FormOfOne(holds, r))
    BY <1>2, FormOfIs
  <2>3. /\ FormOfOne(holds, l) \in [unknown : Nat, call : Nat, plus : Int]
        /\ FormOfOne(holds, r) \in [unknown : Nat, call : Nat, plus : Int]
    BY <1>2, ArgumentOneIs
  <2>4. Added(FormOfOne(holds, l), FormOfOne(holds, r)) \in [unknown : Nat, call : Nat, plus : Int]
    BY <2>3 DEF Added, Form
  <2> QED BY <2>1, <2>2, <2>4
<1> QED BY <1>1, <1>2 DEF Argument

\* What GetConstant finds is what the program computes, but for the two exceptions.
LEMMA ConstantIs ==
  ASSUME NEW N, N \subseteq Nat, NEW s, NEW m, TtlKnown(s, m, N), NEW x, Argument(LetBound(s), x)
  PROVE  LET constant == GetConstant(m, x)
         IN  /\ constant \in Int \cup {Nowhere}
             /\ constant # Nowhere => AssignedIn(s) \/ StaleIn(s)
                                      \/ FormOf(m.holds, x) = Form(0, 0, constant)
<1> DEFINE constant == GetConstant(m, x)
<1>1. /\ \A v \in LetBound(s) : m.holds[v] \in Forms
      /\ \A v \in DOMAIN m.constants : ConstantRight(s, m, N, v)
  BY DEF TtlKnown, BoundRight
<1>2. CASE ArgumentOne(LetBound(s), x) /\ x.op # "+" /\ FormOf(m.holds, x) = FormOfOne(m.holds, x)
  <2>1. CASE x.op = "literal"
    <3>1. constant = x.args[1]
      BY <2>1 DEF GetConstant
    <3>2. x.args[1] \in Int /\ FormOfOne(m.holds, x) = Form(0, 0, x.args[1])
      BY <1>1, <1>2, <2>1, ArgumentOneIs
    <3> QED BY <1>2, <3>1, <3>2
  <2>2. CASE x.op = "local" /\ x.args[1] \in DOMAIN m.constants
    <3>1. constant = m.constants[x.args[1]]
      BY <2>2 DEF GetConstant
    <3>2. FormOfOne(m.holds, x) = m.holds[x.args[1]]
      BY <1>1, <1>2, <2>2, ArgumentOneIs
    <3>3. ConstantRight(s, m, N, x.args[1])
      BY <1>1, <2>2
    <3> DEFINE c == m.constants[x.args[1]]
    <3>4. /\ c \in N \cup {Nowhere}
          /\ c # Nowhere => AssignedIn(s) \/ StaleIn(s) \/ m.holds[x.args[1]] = Form(0, 0, c)
      BY <3>3 DEF ConstantRight
    <3> HIDE DEF c
    <3>5. c \in Int \cup {Nowhere}
      BY <3>4
    <3>6. constant = c /\ FormOf(m.holds, x) = m.holds[x.args[1]]
      BY <1>2, <3>1, <3>2 DEF c
    <3> QED BY <3>4, <3>5, <3>6
  <2>3. CASE x.op # "literal" /\ ~(x.op = "local" /\ x.args[1] \in DOMAIN m.constants)
    <3>1. constant = Nowhere
      BY <1>2, <2>3 DEF GetConstant
    <3> QED BY <3>1
  <2> QED BY <2>1, <2>2, <2>3
<1>3. CASE /\ x.op = "+" /\ ArgumentOne(LetBound(s), x.args[1]) /\ ArgumentOne(LetBound(s), x.args[2])
           /\ FormOf(m.holds, x) = Added(FormOfOne(m.holds, x.args[1]), FormOfOne(m.holds, x.args[2]))
  <2>1. CASE x.args[1].op = "literal" /\ x.args[2].op = "literal"
    <3> DEFINE k == x.args[1].args[1]
               n == x.args[2].args[1]
    <3>1. k \in Int /\ n \in Int /\ FormOfOne(m.holds, x.args[1]) = Form(0, 0, k)
          /\ FormOfOne(m.holds, x.args[2]) = Form(0, 0, n)
      BY <1>1, <1>3, <2>1, ArgumentOneIs
    <3>2. constant = k + n
      <4>1. \A i \in {1, 2} : x.args[i].op = "literal"
        BY <2>1
      <4> QED BY <1>3, <4>1 DEF GetConstant
    <3> HIDE DEF k, n
    <3>3. Added(Form(0, 0, k), Form(0, 0, n)) = Form(0, 0, k + n)
      BY <3>1 DEF Added, Form
    <3>4. FormOf(m.holds, x) = Form(0, 0, k + n)
      BY <1>3, <3>1, <3>3
    <3> QED BY <3>1, <3>2, <3>4
  <2>2. CASE ~(x.args[1].op = "literal" /\ x.args[2].op = "literal")
    <3>1. ~(\A i \in {1, 2} : x.args[i].op = "literal")
      BY <2>2
    <3>2. constant = Nowhere
      BY <1>3, <3>1 DEF GetConstant
    <3> QED BY <3>2
  <2> QED BY <2>1, <2>2
<1> QED BY <1>1, <1>2, <1>3, ArgumentIs

\* What the detector takes for the same has the same form.
LEMMA SameForms ==
  ASSUME NEW holds, NEW same, \A p \in same : holds[p[1]] = holds[p[2]],
         NEW a, NEW b, AreSame(same, a, b)
  PROVE  FormOf(holds, a) = FormOf(holds, b)
<1>1. ASSUME NEW c, NEW d, AreSameOne(same, c, d)
      PROVE  FormOfOne(holds, c) = FormOfOne(holds, d) /\ c.op # "+" /\ d.op # "+"
  <2>1. CASE c.op = "local" /\ d.op = "local" /\ <<c.args[1], d.args[1]>> \in same
    <3>1. holds[c.args[1]] = holds[d.args[1]]
      BY <2>1
    <3>2. FormOfOne(holds, c) = holds[c.args[1]] /\ FormOfOne(holds, d) = holds[d.args[1]]
      BY <2>1 DEF FormOfOne
    <3> QED BY <2>1, <3>1, <3>2
  <2> QED BY <1>1, <2>1 DEF AreSameOne
<1>2. CASE AreSameOne(same, a, b)
  BY <1>1, <1>2 DEF FormOf
<1>3. CASE a.op = "+" /\ b.op = "+" /\ \A i \in {1, 2} : AreSameOne(same, a.args[i], b.args[i])
  <2>1. /\ FormOfOne(holds, a.args[1]) = FormOfOne(holds, b.args[1])
        /\ FormOfOne(holds, a.args[2]) = FormOfOne(holds, b.args[2])
    BY <1>1, <1>3
  <2> QED BY <1>3, <2>1 DEF FormOf
<1> QED BY <1>2, <1>3 DEF AreSame

LEMMA SameLocalsAre ==
  ASSUME NEW N, NEW s, NEW m, TtlKnown(s, m, N), ~AssignedIn(s)
  PROVE  \A p \in SameLocals(m) : m.holds[p[1]] = m.holds[p[2]]
<1> DEFINE pairs == (DOMAIN m.inits) \X (DOMAIN m.inits)
           equal == {p \in pairs : m.holds[p[1]] = m.holds[p[2]]}
<1>1. \A v \in DOMAIN m.inits : m.holds[v] = FormOf(m.holds, m.inits[v])
  BY DEF TtlKnown, MemoryShape, BoundRight
<1>2. ASSUME NEW p \in pairs, AreSame(equal, m.inits[p[1]], m.inits[p[2]])
      PROVE  p \in equal
  <2>1. \A q \in equal : m.holds[q[1]] = m.holds[q[2]]
    OBVIOUS
  <2>2. p[1] \in DOMAIN m.inits /\ p[2] \in DOMAIN m.inits
    OBVIOUS
  <2> HIDE DEF equal
  <2>3. FormOf(m.holds, m.inits[p[1]]) = FormOf(m.holds, m.inits[p[2]])
    BY <1>2, <2>1, SameForms
  <2>4. m.holds[p[1]] = m.holds[p[2]]
    BY <1>1, <2>2, <2>3
  <2> QED BY <2>4 DEF equal
<1>3. equal \in SUBSET pairs
  OBVIOUS
<1>4. \A p \in SameLocals(m) : p \in equal
  <2> HIDE DEF equal
  <2> QED BY <1>2, <1>3 DEF SameLocals
<1> QED BY <1>4

\* A call that is reported cannot lengthen a life.
LEMMA IneffectiveIs ==
  ASSUME NEW N, N \subseteq Nat, NEW s, NEW m, TtlKnown(s, m, N), ~AssignedIn(s), ~StaleIn(s),
         NEW a, NEW b, Argument(LetBound(s), a), Argument(LetBound(s), b), IsIneffective(m, a, b)
  PROVE  Ineffective(FormOf(m.holds, a), FormOf(m.holds, b))
<1>1. \A v \in LetBound(s) : m.holds[v] \in Forms
  BY DEF TtlKnown, BoundRight
<1>2. CASE AreEquivalent(m, a, b)
  <2>1. \A p \in SameLocals(m) : m.holds[p[1]] = m.holds[p[2]]
    BY SameLocalsAre
  <2>2. FormOf(m.holds, a) = FormOf(m.holds, b)
    BY <1>2, <2>1, SameForms DEF AreEquivalent
  <2>3. FormOf(m.holds, a) \in [unknown : Nat, call : Nat, plus : Int]
    BY <1>1, ArgumentIs
  <2>4. \A f \in [unknown : Nat, call : Nat, plus : Int] : Ineffective(f, f)
    BY DEF Ineffective
  <2> QED BY <2>2, <2>3, <2>4
<1>3. CASE /\ GetConstant(m, a) # Nowhere /\ GetConstant(m, b) # Nowhere
           /\ GetConstant(m, b) <= GetConstant(m, a)
  <2>1. /\ GetConstant(m, a) \in Int /\ FormOf(m.holds, a) = Form(0, 0, GetConstant(m, a))
        /\ GetConstant(m, b) \in Int /\ FormOf(m.holds, b) = Form(0, 0, GetConstant(m, b))
    BY <1>3, ConstantIs
  <2>2. \A k, n \in Int : k <= n => Ineffective(Form(0, 0, n), Form(0, 0, k))
    BY DEF Ineffective, Form
  <2> QED BY <1>3, <2>1, <2>2
<1> QED BY <1>2, <1>3 DEF IsIneffective

\* Between literals, and locals that hold one, the constants are what counts.
LEMMA PlainIs ==
  ASSUME NEW N, N \subseteq Nat, NEW s, NEW m, TtlKnown(s, m, N), ~AssignedIn(s),
         NEW x, ArgumentOne(LetBound(s), x),
         x.op = "literal" \/ (x.op = "local" /\ m.inits[x.args[1]].op = "literal")
  PROVE  GetConstant(m, x) \in Int /\ FormOf(m.holds, x) = Form(0, 0, GetConstant(m, x))
<1>1. \A v \in LetBound(s) : m.holds[v] \in Forms /\ BoundRight(s, m, N, v)
  BY DEF TtlKnown, BoundRight
<1>2. FormOf(m.holds, x) = FormOfOne(m.holds, x)
  BY DEF FormOf
<1>3. CASE x.op = "literal"
  <2>1. GetConstant(m, x) = x.args[1]
    BY <1>3 DEF GetConstant
  <2>2. x.args[1] \in Int /\ FormOfOne(m.holds, x) = Form(0, 0, x.args[1])
    BY <1>1, <1>3, ArgumentOneIs
  <2> QED BY <1>2, <2>1, <2>2
<1>4. CASE x.op = "local" /\ m.inits[x.args[1]].op = "literal"
  <2> DEFINE v == x.args[1]
             i == m.inits[v]
  <2>1. v \in LetBound(s) /\ FormOfOne(m.holds, x) = m.holds[v]
    BY <1>1, <1>4, ArgumentOneIs
  <2>2. /\ i.op = "literal" /\ Initializer(N, LetBound(s), i) /\ m.holds[v] = FormOf(m.holds, i)
        /\ v \in DOMAIN m.constants /\ m.constants[v] = i.args[1]
    BY <1>1, <1>4, <2>1 DEF BoundRight
  <2> HIDE DEF v, i
  <2>3. PICK n \in N : i = Literal(n)
    BY <2>2, NodesAre DEF Initializer, LiteralOf, CopyOf, UnfinishedSum
  <2>4. i.args[1] = n /\ FormOf(m.holds, i) = Form(0, 0, n)
    <3>1. Literal(n).args[1] = n
      BY NodesAre
    <3>2. \A k : FormOf(m.holds, Literal(k)) = Form(0, 0, k)
      BY FormOfIs
    <3> QED BY <2>3, <3>1, <3>2
  <2>5. GetConstant(m, x) = m.constants[v]
    BY <1>4, <2>2 DEF GetConstant, v
  <2>6. n \in Int
    OBVIOUS
  <2>7. GetConstant(m, x) = n
    BY <2>2, <2>4, <2>5
  <2>8. FormOf(m.holds, x) = Form(0, 0, n)
    BY <1>2, <2>1, <2>2, <2>4
  <2> QED BY <2>6, <2>7, <2>8
<1> QED BY <1>3, <1>4

-----------------------------------------------------------------------------
\* The constructs: what is named in one was bound before it.
LEMMA LocalsAre ==
  /\ \A v : v \in LocalsOf(Local(v))
  /\ \A v, x : v \in LocalsOf(Sum2(Local(v), x))
<1>1. \A v : v \in LocalsOf(Local(v))
  <2> TAKE v
  <2>1. Local(v).op = "local" /\ Local(v).args[1] = v
    BY NodesAre
  <2> QED BY <2>1 DEF LocalsOf
<1>2. \A v, x : v \in LocalsOf(Sum2(Local(v), x))
  <2> TAKE v, x
  <2>1. Local(v).op = "local" /\ Local(v).args[1] = v
    BY NodesAre
  <2>2. Sum2(Local(v), x).op = "+" /\ Sum2(Local(v), x).args[1] = Local(v)
    BY NodesAre
  <2> QED BY <2>1, <2>2 DEF LocalsOf
<1> QED BY <1>1, <1>2

LEMMA BoundIs == \A v \in Locals : BoundBefore(v) <=> v \in LetBound(walked)
BY DEF BoundBefore, LetBound

NamesBound(e) == \A i \in DOMAIN e.of : \A v \in LocalsOf(e.of[i]) : BoundBefore(v)

\* What keeps the memory known, whatever the detector looks for.
LEMMA KnownNext ==
  ASSUME NEW N, N \subseteq Nat, NEW E, NEW s \in Seq(E), NEW m, TtlKnown(s, m, N), NEW e \in E,
         e.do = "let" => /\ e.v \in Locals \cup {Nowhere} /\ e.v \notin LetBound(s)
                         /\ Initializer(N, LetBound(s), e.of[1]),
         e.do = "assign" => e.v \in LetBound(s)
  PROVE  TtlKnown(Append(s, e), TtlStep(m, e), N)
<1>1. CASE e.do = "let"
  <2> DEFINE x == e.of[1]
  <2>1. /\ e.v \in Locals \cup {Nowhere} /\ e.v \notin LetBound(s) /\ Initializer(N, LetBound(s), x)
        /\ e.of[1] = x
    BY <1>1
  <2> HIDE DEF x
  <2> QED BY <1>1, <2>1, LetKnown
<1>2. CASE e.do = "assign"
  BY <1>2, AssignKnown
<1>3. CASE e.do \notin {"let", "assign"}
  <2>1. TtlStep(m, e) = m /\ TtlKnown(Append(s, e), m, N)
    BY <1>3, OtherKnown
  <2> QED BY <2>1
<1> QED BY <1>1, <1>2, <1>3

LEMMA BeginKnown ==
  ASSUME NEW N
  PROVE  TtlKnown(<<>>, TtlStart, N)
<1>1. DOMAIN <<>> = {}
  OBVIOUS
<1>2. LetBound(<<>>) = {}
  BY <1>1 DEF LetBound
<1> DEFINE m == TtlStart
<1>3. /\ m = [constants |-> <<>>, current_constant |-> Nowhere, inits |-> <<>>, holds |-> <<>>]
      /\ m.constants = <<>> /\ m.current_constant = Nowhere /\ m.inits = <<>> /\ m.holds = <<>>
  BY DEF TtlStart
<1> HIDE DEF m
<1>4. MemoryShape(<<>>, m) /\ Leftover(<<>>, m, N)
  BY <1>1, <1>2, <1>3 DEF MemoryShape, Leftover
<1> QED BY <1>1, <1>2, <1>3, <1>4 DEF TtlKnown, m

-----------------------------------------------------------------------------
TtlInv == /\ walked \in Seq(TtlConstructs) /\ reported \subseteq DOMAIN walked
          /\ TtlKnown(walked, memory, Nat)
          /\ TtlsJudged

TtlPass(e) ==
  /\ lint \in {"ineffective-extend-ttl"} /\ e \in TtlConstructs /\ NamesBound(e)
  /\ e.do = "let" /\ e.v # Nowhere => ~BoundBefore(e.v)
  /\ e.do = "assign" => BoundBefore(e.v)
  /\ Pass(e, TtlStep(memory, e), Mark(e.do = "extend_ttl" /\ IsIneffective(memory, e.of[1], e.of[2])))

LEMMA VisitTtlIs == ASSUME VisitTtl PROVE \E e : TtlPass(e)
BY DEF VisitTtl, Works, TtlPass, NamesBound

LEMMA TtlsAre ==
  ASSUME NEW x \in Ttls
  PROVE  x = Literal(1) \/ x = Literal(2) \/ x = Unknown \/ \E v \in Locals : x = Local(v)
BY DEF Ttls

TtlInitializers == Ttls \cup {Sum2(Literal(1), Node("call", <<>>))}

TtlArguments == Ttls \cup {Sum2(e, Literal(1)) : e \in Ttls}

LEMMA TtlConstructIs ==
  ASSUME NEW e \in TtlConstructs
  PROVE  /\ e.do = "let" => /\ e.v \in Locals \cup {Nowhere} /\ 1 \in DOMAIN e.of
                            /\ e.of[1] \in TtlInitializers
         /\ e.do = "assign" => e.v \in Locals
         /\ e.do = "extend_ttl" => /\ 1 \in DOMAIN e.of /\ 2 \in DOMAIN e.of
                                   /\ e.of[1] \in TtlArguments /\ e.of[2] \in TtlArguments
<1> DEFINE I == TtlInitializers
           A == TtlArguments
           Lets == [do : {"let"}, v : Locals \cup {Nowhere}, of : {<<x>> : x \in I}]
           Assigns == [do : {"assign"}, v : Locals, of : {<<>>}]
           Calls == [do : {"extend_ttl"}, v : {Nowhere}, of : A \X A]
<1>1. TtlConstructs = Lets \cup Assigns \cup Calls
  BY DEF TtlConstructs, TtlInitializers, TtlArguments
<1> HIDE DEF I, A
<1>2. CASE e \in Lets
  <2>1. PICK x \in I : e.of = <<x>>
    BY <1>2
  <2>2. 1 \in DOMAIN e.of /\ e.of[1] = x
    BY <2>1
  <2> QED BY <1>2, <2>2 DEF I
<1>3. CASE e \in Assigns
  BY <1>3
<1>4. CASE e \in Calls
  <2>1. e.of \in A \X A /\ e.do = "extend_ttl"
    BY <1>4
  <2>2. 1 \in DOMAIN e.of /\ 2 \in DOMAIN e.of /\ e.of[1] \in A /\ e.of[2] \in A
    BY <2>1
  <2> QED BY <2>1, <2>2 DEF A
<1> QED BY <1>1, <1>2, <1>3, <1>4

LEMMA TtlIsInitializer ==
  ASSUME NEW D, NEW x \in TtlInitializers, \A v \in LocalsOf(x) : v \in Locals => v \in D
  PROVE  Initializer(Nat, D, x)
<1>1. CASE x \in Ttls
  <2>1. CASE \E v \in Locals : x = Local(v)
    <3>1. PICK v \in Locals : x = Local(v)
      BY <2>1
    <3>2. v \in D
      BY <3>1, LocalsAre
    <3> QED BY <3>1, <3>2 DEF Initializer, CopyOf
  <2>2. LiteralOf(Nat, Literal(1)) /\ LiteralOf(Nat, Literal(2))
    BY DEF LiteralOf
  <2> QED BY <1>1, <2>1, <2>2, TtlsAre DEF Initializer
<1>2. CASE x = Sum2(Literal(1), Node("call", <<>>))
  BY <1>2 DEF Initializer, UnfinishedSum
<1> QED BY <1>1, <1>2 DEF TtlInitializers

LEMMA TtlIsArgument ==
  ASSUME NEW D, NEW x \in TtlArguments, \A v \in LocalsOf(x) : v \in Locals => v \in D
  PROVE  Argument(D, x)
<1>1. ArgumentOne(D, Literal(1)) /\ ArgumentOne(D, Literal(2)) /\ ArgumentOne(D, Unknown)
  BY DEF ArgumentOne
<1>2. \A v \in D : ArgumentOne(D, Local(v))
  BY DEF ArgumentOne, CopyOf
<1>3. CASE x \in Ttls
  <2>1. ASSUME NEW v \in Locals, x = Local(v)
        PROVE  ArgumentOne(D, x)
    <3>1. v \in D
      BY <2>1, LocalsAre
    <3> QED BY <1>2, <2>1, <3>1
  <2> QED BY <1>1, <1>3, <2>1, TtlsAre DEF Argument
<1>4. ASSUME NEW y \in Ttls, x = Sum2(y, Literal(1))
      PROVE  Argument(D, x)
  <2>1. ASSUME NEW v \in Locals, y = Local(v)
        PROVE  ArgumentOne(D, y)
    <3>1. v \in D
      BY <1>4, <2>1, LocalsAre
    <3> QED BY <1>2, <2>1, <3>1
  <2>2. ArgumentOne(D, y)
    BY <1>1, <2>1, TtlsAre
  <2> QED BY <1>1, <1>4, <2>2 DEF Argument
<1> QED BY <1>3, <1>4 DEF TtlArguments

\* TtlsJudged, of a call of extend_ttl.
TtlJudged(m, a, b, marked, assigned, stale) ==
  LET plain(e) == \/ e.op = "literal"
                  \/ e.op = "local" /\ m.inits[e.args[1]].op = "literal"
      ineffective == Ineffective(FormOf(m.holds, a), FormOf(m.holds, b))
  IN  /\ marked => ineffective \/ assigned \/ stale
      /\ plain(a) /\ plain(b) /\ ineffective /\ ~assigned => marked

\* What a call of extend_ttl is reported for, and what is not missed.
LEMMA CallIsJudged ==
  ASSUME NEW s, NEW m, TtlKnown(s, m, Nat),
         NEW a, NEW b, Argument(LetBound(s), a), Argument(LetBound(s), b)
  PROVE  TtlJudged(m, a, b, IsIneffective(m, a, b), AssignedIn(s), StaleIn(s))
<1> DEFINE plain(e) == \/ e.op = "literal"
                       \/ e.op = "local" /\ m.inits[e.args[1]].op = "literal"
           ineffective == Ineffective(FormOf(m.holds, a), FormOf(m.holds, b))
<1>1. IsIneffective(m, a, b) => ineffective \/ AssignedIn(s) \/ StaleIn(s)
  <2>1. ASSUME IsIneffective(m, a, b), ~AssignedIn(s), ~StaleIn(s)
        PROVE  ineffective
    <3>1. Nat \subseteq Nat
      OBVIOUS
    <3> QED BY <2>1, <3>1, IneffectiveIs
  <2> QED BY <2>1
<1>2. ASSUME plain(a), plain(b), ineffective, ~AssignedIn(s)
      PROVE  IsIneffective(m, a, b)
  <2>1. \A v \in LetBound(s) : m.holds[v] \in Forms
    BY DEF TtlKnown, BoundRight
  <2>2. a.op # "+" /\ b.op # "+"
    BY <1>2
  <2>3. ArgumentOne(LetBound(s), a) /\ ArgumentOne(LetBound(s), b)
    BY <2>1, <2>2, ArgumentIs
  <2>4. Nat \subseteq Nat
    OBVIOUS
  <2>5. GetConstant(m, a) \in Int /\ FormOf(m.holds, a) = Form(0, 0, GetConstant(m, a))
    BY <1>2, <2>3, <2>4, PlainIs
  <2>6. GetConstant(m, b) \in Int /\ FormOf(m.holds, b) = Form(0, 0, GetConstant(m, b))
    BY <1>2, <2>3, <2>4, PlainIs
  <2>7. \A k, n \in Int : Ineffective(Form(0, 0, n), Form(0, 0, k)) => k <= n
    <3> TAKE k, n \in Int
    <3>1. Form(0, 0, n)["plus"] = n /\ Form(0, 0, k)["plus"] = k
      BY DEF Form
    <3> QED BY <3>1 DEF Ineffective
  <2>8. GetConstant(m, b) <= GetConstant(m, a)
    BY <1>2, <2>5, <2>6, <2>7
  <2>9. GetConstant(m, a) # Nowhere /\ GetConstant(m, b) # Nowhere
    BY <2>5, <2>6, NowhereAssumption
  <2> QED BY <2>8, <2>9 DEF IsIneffective
<1> QED BY <1>1, <1>2 DEF TtlJudged

LEMMA TtlFollows ==
  ASSUME TtlInv, NEW e, TtlPass(e)
  PROVE  TtlInv'
<1> DEFINE s == walked
           m == memory
           t == Append(walked, e)
           next == TtlStep(memory, e)
           marked == e.do = "extend_ttl" /\ IsIneffective(memory, e.of[1], e.of[2])
<1>1. /\ e \in TtlConstructs /\ walked' = t /\ memory' = next /\ Pass(e, next, Mark(marked))
      /\ s \in Seq(TtlConstructs) /\ reported \subseteq DOMAIN s /\ TtlKnown(s, m, Nat)
  BY DEF TtlPass, TtlInv, Pass
<1>2. /\ walked' \in Seq(TtlConstructs) /\ reported' \subseteq DOMAIN walked'
      /\ Len(walked') = Here /\ walked'[Here] = e /\ (Here \in reported' <=> marked)
  <2>1. Mark(marked) \subseteq {Here} /\ (Here \in Mark(marked) <=> marked)
    BY MarkIs
  <2> HIDE DEF marked, next, t
  <2> QED BY <1>1, <2>1, PassMarks
\* What the construct names is bound.
<1>3. /\ \A i \in DOMAIN e.of : \A v \in LocalsOf(e.of[i]) : v \in Locals => v \in LetBound(s)
      /\ e.do = "let" /\ e.v # Nowhere => e.v \notin Locals \/ e.v \notin LetBound(s)
      /\ e.do = "assign" /\ e.v \in Locals => e.v \in LetBound(s)
  BY BoundIs DEF TtlPass, NamesBound
<1>4. /\ e.do = "let" => /\ e.v \in Locals \cup {Nowhere} /\ e.v \notin LetBound(s)
                         /\ Initializer(Nat, LetBound(s), e.of[1])
      /\ e.do = "assign" => e.v \in LetBound(s)
  <2>1. ASSUME e.do = "let"
        PROVE  /\ e.v \in Locals \cup {Nowhere} /\ e.v \notin LetBound(s)
               /\ Initializer(Nat, LetBound(s), e.of[1])
    <3>1. e.v \in Locals \cup {Nowhere} /\ 1 \in DOMAIN e.of /\ e.of[1] \in TtlInitializers
      BY <1>1, <2>1, TtlConstructIs
    <3>2. e.v \notin LetBound(s)
      BY <1>3, <2>1, <3>1, NowhereAssumption DEF LetBound
    <3>3. \A v \in LocalsOf(e.of[1]) : v \in Locals => v \in LetBound(s)
      BY <1>3, <3>1
    <3>4. Initializer(Nat, LetBound(s), e.of[1])
      BY <3>1, <3>3, TtlIsInitializer
    <3> QED BY <3>1, <3>2, <3>4
  <2>2. e.do = "assign" => e.v \in LetBound(s)
    BY <1>1, <1>3, TtlConstructIs
  <2> QED BY <2>1, <2>2
<1>5. TtlKnown(t, next, Nat)
  <2>1. Nat \subseteq Nat
    OBVIOUS
  <2> HIDE DEF t, next
  <2> QED BY <1>1, <1>4, <2>1, KnownNext DEF t, next
<1>6. ASSUME walked'[Len(walked')].do = "extend_ttl"
      PROVE  TtlJudged(memory', e.of[1], e.of[2], Here \in reported', Assigned', Stale')
  <2>1. e.do = "extend_ttl"
    BY <1>2, <1>6
  <2>2. next = m
    BY <2>1 DEF TtlStep
  <2>3. (Assigned' <=> AssignedIn(s)) /\ (Stale' <=> StaleIn(s))
    <3>1. (AssignedIn(t) <=> AssignedIn(s)) /\ (StaleIn(t) <=> StaleIn(s))
      BY <1>1, <2>1, OtherNext
    <3>2. (Assigned' <=> AssignedIn(t)) /\ (Stale' <=> StaleIn(t))
      BY <1>1 DEF Assigned, AssignedIn, Stale, StaleIn
    <3> QED BY <3>1, <3>2
  <2>4. Argument(LetBound(s), e.of[1]) /\ Argument(LetBound(s), e.of[2])
    <3>1. /\ 1 \in DOMAIN e.of /\ 2 \in DOMAIN e.of
          /\ e.of[1] \in TtlArguments /\ e.of[2] \in TtlArguments
      BY <1>1, <2>1, TtlConstructIs
    <3>2. /\ \A v \in LocalsOf(e.of[1]) : v \in Locals => v \in LetBound(s)
          /\ \A v \in LocalsOf(e.of[2]) : v \in Locals => v \in LetBound(s)
      BY <1>3, <3>1
    <3> QED BY <3>1, <3>2, TtlIsArgument
  <2>5. TtlJudged(m, e.of[1], e.of[2], IsIneffective(m, e.of[1], e.of[2]), AssignedIn(s), StaleIn(s))
    BY <1>1, <2>4, CallIsJudged
  <2>6. memory' = m /\ (Here \in reported' <=> IsIneffective(m, e.of[1], e.of[2]))
    BY <1>1, <1>2, <2>1, <2>2
  <2> QED BY <2>3, <2>5, <2>6 DEF TtlJudged
<1>7. TtlsJudged'
  BY <1>2, <1>6 DEF TtlsJudged, TtlJudged
<1> QED BY <1>1, <1>2, <1>5, <1>7 DEF TtlInv

-----------------------------------------------------------------------------
Ledgers == 0 .. MAX

ApprovalInv == /\ walked \in Seq(ApprovalConstructs) /\ reported \subseteq DOMAIN walked
               /\ TtlKnown(walked, memory, Ledgers)
               /\ ApprovalsReported

ApprovalPass(e) ==
  /\ lint \in {"excessive-token-approval"} /\ e \in ApprovalConstructs /\ NamesBound(e)
  /\ e.do = "let" /\ e.v # Nowhere => ~BoundBefore(e.v)
  /\ e.do = "assign" => BoundBefore(e.v)
  /\ Pass(e, TtlStep(memory, e),
          Mark(e.do = "approve" /\ \E i \in {1, 2} : IsExcessive(GetConstant(memory, e.of[i]))))

LEMMA VisitApprovalIs == ASSUME VisitApproval PROVE \E e : ApprovalPass(e)
BY DEF VisitApproval, Works, ApprovalPass, NamesBound

ApprovalInitializers ==
  {Literal(1), Literal(MAX - 1), Unknown, Sum2(Literal(MAX - 1), Node("call", <<>>))}
  \cup {Local(v) : v \in Locals}

LEMMA ApprovalConstructIs ==
  ASSUME NEW e \in ApprovalConstructs
  PROVE  /\ e.do = "let" => /\ e.v \in Locals \cup {Nowhere} /\ 1 \in DOMAIN e.of
                            /\ e.of[1] \in ApprovalInitializers
         /\ e.do = "assign" => e.v \in Locals
         /\ e.do = "approve" => /\ 1 \in DOMAIN e.of /\ 2 \in DOMAIN e.of
                                /\ e.of[1] \in Approved /\ e.of[2] \in Approved
<1> DEFINE I == ApprovalInitializers
           A == Approved
           Lets == [do : {"let"}, v : Locals \cup {Nowhere}, of : {<<x>> : x \in I}]
           Assigns == [do : {"assign"}, v : Locals, of : {<<>>}]
           Calls == [do : {"approve", "approve of another client"}, v : {Nowhere}, of : A \X A]
<1>1. ApprovalConstructs = Lets \cup Assigns \cup Calls
  BY DEF ApprovalConstructs, ApprovalInitializers
<1> HIDE DEF I, A
<1>2. CASE e \in Lets
  <2>1. PICK x \in I : e.of = <<x>>
    BY <1>2
  <2>2. 1 \in DOMAIN e.of /\ e.of[1] = x
    BY <2>1
  <2> QED BY <1>2, <2>2 DEF I
<1>3. CASE e \in Assigns
  BY <1>3
<1>4. CASE e \in Calls
  <2>1. e.of \in A \X A /\ e.do # "let" /\ e.do # "assign"
    BY <1>4
  <2>2. 1 \in DOMAIN e.of /\ 2 \in DOMAIN e.of /\ e.of[1] \in A /\ e.of[2] \in A
    BY <2>1
  <2> QED BY <2>1, <2>2 DEF A
<1> QED BY <1>1, <1>2, <1>3, <1>4

LEMMA ApprovalIsInitializer ==
  ASSUME NEW D, NEW x \in ApprovalInitializers, \A v \in LocalsOf(x) : v \in Locals => v \in D
  PROVE  Initializer(Ledgers, D, x)
<1>1. CASE \E v \in Locals : x = Local(v)
  <2>1. PICK v \in Locals : x = Local(v)
    BY <1>1
  <2>2. v \in D
    BY <2>1, LocalsAre
  <2> QED BY <2>1, <2>2 DEF Initializer, CopyOf
<1>2. 1 \in Ledgers /\ MAX - 1 \in Ledgers
  BY DEF Ledgers, MAX
<1>3. LiteralOf(Ledgers, Literal(1)) /\ LiteralOf(Ledgers, Literal(MAX - 1))
  BY <1>2 DEF LiteralOf
<1>4. UnfinishedSum(Ledgers, Sum2(Literal(MAX - 1), Node("call", <<>>)))
  BY <1>2 DEF UnfinishedSum
<1> QED BY <1>1, <1>3, <1>4 DEF ApprovalInitializers, Initializer

\* Negative literals, and those that reach the largest, are what may be approved.
LEMMA ApprovedIs ==
  ASSUME NEW D, NEW x \in Approved, \A v \in LocalsOf(x) : v \in Locals => v \in D
  PROVE  \/ \E n \in {-1, 1, MAX - 1} : x = Literal(n)
         \/ x = Unknown
         \/ x = Sum2(Literal(MAX - 1), Literal(1))
         \/ \E v \in D : x = Local(v)
<1>1. CASE \E v \in Locals : x = Local(v)
  <2>1. PICK v \in Locals : x = Local(v)
    BY <1>1
  <2>2. v \in D
    BY <2>1, LocalsAre
  <2> QED BY <2>1, <2>2
<1> QED BY <1>1 DEF Approved

ExcessiveForm(form) == form.unknown = 0 /\ form.call = 0 /\ form.plus >= MAX - SLACK

LEMMA ExcessiveIs ==
  ASSUME NEW n \in -1 .. MAX
  PROVE  /\ IsExcessive(n) <=> n >= MAX - SLACK
         /\ ExcessiveForm(Form(0, 0, n)) <=> n >= MAX - SLACK
         /\ ~ExcessiveForm(Form(0, 1, n)) /\ ~ExcessiveForm(Form(1, 0, n))
<1>1. n \in Int /\ n # Nowhere
  BY NowhereAssumption
<1>2. IsExcessive(n) <=> n >= MAX - SLACK
  BY <1>1 DEF IsExcessive, Bits, MAX, SLACK
<1>3. ExcessiveForm(Form(0, 0, n)) <=> n >= MAX - SLACK
  BY <1>1 DEF ExcessiveForm, Form
<1>4. ~ExcessiveForm(Form(0, 1, n)) /\ ~ExcessiveForm(Form(1, 0, n))
  BY DEF ExcessiveForm, Form
<1> QED BY <1>2, <1>3, <1>4

\* An amount, or an expiration, is judged by what it comes to.
LEMMA AmountIsJudged ==
  ASSUME NEW s, NEW m, TtlKnown(s, m, Ledgers), ~AssignedIn(s),
         NEW x \in Approved, \A v \in LocalsOf(x) : v \in Locals => v \in LetBound(s)
  PROVE  LET form == FormOf(m.holds, x)
             aCopy == x.op = "local" /\ m.inits[x.args[1]].op = "local"
         IN  /\ IsExcessive(GetConstant(m, x)) => ExcessiveForm(form) \/ StaleIn(s)
             /\ ExcessiveForm(form) => aCopy \/ IsExcessive(GetConstant(m, x))
<1> DEFINE form == FormOf(m.holds, x)
           aCopy == x.op = "local" /\ m.inits[x.args[1]].op = "local"
           constant == GetConstant(m, x)
<1> SUFFICES /\ IsExcessive(constant) => ExcessiveForm(form) \/ StaleIn(s)
             /\ ExcessiveForm(form) => aCopy \/ IsExcessive(constant)
  OBVIOUS
<1>1. ~IsExcessive(Nowhere)
  BY DEF IsExcessive
<1>2. ASSUME NEW n \in {-1, 1, MAX - 1}, x = Literal(n)
      PROVE  /\ IsExcessive(constant) => ExcessiveForm(form)
             /\ ExcessiveForm(form) => IsExcessive(constant)
  <2>1. n \in -1 .. MAX
    BY DEF MAX
  <2>2. x.op = "literal" /\ x.args[1] = n
    BY <1>2, NodesAre
  <2>3. constant = n
    BY <2>2 DEF GetConstant
  <2>4. form = Form(0, 0, n)
    BY <1>2, FormOfIs
  <2> HIDE DEF constant, form
  <2> QED BY <2>1, <2>3, <2>4, ExcessiveIs
<1>3. ASSUME x = Unknown
      PROVE  ~IsExcessive(constant) /\ ~ExcessiveForm(form)
  <2>1. constant = Nowhere
    BY <1>3, NodesAre DEF GetConstant
  <2>2. form = Form(1, 0, 0)
    BY <1>3, FormOfIs
  <2>3. 0 \in -1 .. MAX
    BY DEF MAX
  <2> HIDE DEF constant, form
  <2> QED BY <1>1, <2>1, <2>2, <2>3, ExcessiveIs
<1>4. ASSUME x = Sum2(Literal(MAX - 1), Literal(1))
      PROVE  IsExcessive(constant) /\ ExcessiveForm(form)
  <2> DEFINE l == Literal(MAX - 1)
             r == Literal(1)
  <2>1. x.op = "+" /\ x.args[1] = l /\ x.args[2] = r
    BY <1>4, NodesAre
  <2>2. l.op = "literal" /\ l.args[1] = MAX - 1 /\ r.op = "literal" /\ r.args[1] = 1
    BY NodesAre
  <2> HIDE DEF l, r
  <2>3. \A i \in {1, 2} : x.args[i].op = "literal"
    BY <2>1, <2>2
  <2>4. constant = (MAX - 1) + 1
    BY <2>1, <2>2, <2>3 DEF GetConstant
  <2>5. FormOfOne(m.holds, l) = Form(0, 0, MAX - 1) /\ FormOfOne(m.holds, r) = Form(0, 0, 1)
    BY <2>2 DEF FormOfOne
  <2>6. form = Added(Form(0, 0, MAX - 1), Form(0, 0, 1))
    BY <2>1, <2>5 DEF FormOf
  <2>7. Added(Form(0, 0, MAX - 1), Form(0, 0, 1)) = Form(0, 0, MAX)
    BY DEF Added, Form, MAX
  <2>8. constant = MAX /\ MAX \in -1 .. MAX /\ MAX >= MAX - SLACK
    BY <2>4 DEF MAX, SLACK
  <2> HIDE DEF constant, form
  <2> QED BY <2>6, <2>7, <2>8, ExcessiveIs
<1>5. ASSUME NEW v \in LetBound(s), x = Local(v)
      PROVE  /\ IsExcessive(constant) => ExcessiveForm(form) \/ StaleIn(s)
             /\ ExcessiveForm(form) => aCopy \/ IsExcessive(constant)
  <2>1. x.op = "local" /\ x.args[1] = v
    BY <1>5, NodesAre
  <2>2. form = m.holds[v]
    BY <1>5, FormOfIs
  <2>3. constant = IF v \in DOMAIN m.constants THEN m.constants[v] ELSE Nowhere
    BY <2>1 DEF GetConstant
  <2>4. aCopy <=> m.inits[v].op = "local"
    BY <2>1
  <2> HIDE DEF constant, form, aCopy
  <2>5. ASSUME IsExcessive(constant), ~StaleIn(s)
        PROVE  ExcessiveForm(form)
    <3>1. v \in DOMAIN m.constants /\ constant = m.constants[v] /\ constant # Nowhere
      BY <1>1, <2>3, <2>5
    <3>2. ConstantRight(s, m, Ledgers, v)
      BY <3>1 DEF TtlKnown
    <3>3. constant \in Ledgers /\ m.holds[v] = Form(0, 0, constant)
      BY <2>5, <3>1, <3>2 DEF ConstantRight
    <3>4. constant \in -1 .. MAX
      BY <3>3 DEF Ledgers, MAX
    <3> QED BY <2>2, <2>5, <3>3, <3>4, ExcessiveIs
  <2>6. ASSUME ExcessiveForm(form), ~aCopy
        PROVE  IsExcessive(constant)
    <3> DEFINE i == m.inits[v]
    <3>1. BoundRight(s, m, Ledgers, v)
      BY DEF TtlKnown
    <3>2. /\ Initializer(Ledgers, LetBound(s), i) /\ form = FormOf(m.holds, i)
          /\ i.op = "literal" => v \in DOMAIN m.constants /\ m.constants[v] = i.args[1]
      BY <2>2, <3>1 DEF BoundRight
    <3>3. i.op # "local"
      BY <2>4, <2>6
    <3> HIDE DEF i
    <3>4. ~CopyOf(LetBound(s), i)
      BY <3>3, NodesAre DEF CopyOf
    <3>5. i # Unknown
      <4>1. SUFFICES ASSUME i = Unknown PROVE FALSE
        OBVIOUS
      <4>2. form = Form(1, 0, 0) /\ 0 \in -1 .. MAX
        BY <3>2, <4>1, FormOfIs DEF MAX
      <4> QED BY <2>6, <4>2, ExcessiveIs
    <3>6. ~UnfinishedSum(Ledgers, i)
      <4> SUFFICES ASSUME NEW n \in Ledgers, i = Sum2(Literal(n), Node("call", <<>>)) PROVE FALSE
        BY DEF UnfinishedSum
      <4>1. n \in -1 .. MAX /\ n \in Int
        BY DEF Ledgers, MAX
      <4>2. form = Form(0, 1, n)
        BY <3>2, <4>1, FormOfIs
      <4> QED BY <2>6, <4>1, <4>2, ExcessiveIs
    <3>7. PICK n \in Ledgers : i = Literal(n)
      BY <3>2, <3>4, <3>5, <3>6 DEF Initializer, LiteralOf
    <3>8. i.op = "literal" /\ i.args[1] = n
      BY <3>7, NodesAre
    <3>9. form = Form(0, 0, n)
      BY <3>2, <3>7, FormOfIs
    <3>10. constant = n
      BY <2>3, <3>2, <3>8
    <3>11. n \in -1 .. MAX
      BY DEF Ledgers, MAX
    <3> QED BY <2>6, <3>9, <3>10, <3>11, ExcessiveIs
  <2> QED BY <2>5, <2>6
<1> HIDE DEF constant, form, aCopy
<1> QED BY <1>2, <1>3, <1>4, <1>5, ApprovedIs

LEMMA ApprovalFollows ==
  ASSUME ApprovalInv, NEW e, ApprovalPass(e)
  PROVE  ApprovalInv'
<1> DEFINE s == walked
           m == memory
           t == Append(walked, e)
           next == TtlStep(memory, e)
           marked == e.do = "approve" /\ \E i \in {1, 2} : IsExcessive(GetConstant(memory, e.of[i]))
<1>1. /\ e \in ApprovalConstructs /\ walked' = t /\ memory' = next /\ Pass(e, next, Mark(marked))
      /\ s \in Seq(ApprovalConstructs) /\ reported \subseteq DOMAIN s /\ TtlKnown(s, m, Ledgers)
  BY DEF ApprovalPass, ApprovalInv, Pass
<1>2. /\ walked' \in Seq(ApprovalConstructs) /\ reported' \subseteq DOMAIN walked' /\ Latest' = {Here}
      /\ walked'[Here] = e /\ (Here \in reported' <=> marked)
  <2>1. Mark(marked) \subseteq {Here} /\ (Here \in Mark(marked) <=> marked)
    BY MarkIs
  <2> HIDE DEF marked, next, t
  <2> QED BY <1>1, <2>1, PassMarks
<1>3. /\ \A i \in DOMAIN e.of : \A v \in LocalsOf(e.of[i]) : v \in Locals => v \in LetBound(s)
      /\ e.do = "let" /\ e.v # Nowhere => e.v \notin Locals \/ e.v \notin LetBound(s)
      /\ e.do = "assign" /\ e.v \in Locals => e.v \in LetBound(s)
  BY BoundIs DEF ApprovalPass, NamesBound
<1>4. /\ e.do = "let" => /\ e.v \in Locals \cup {Nowhere} /\ e.v \notin LetBound(s)
                         /\ Initializer(Ledgers, LetBound(s), e.of[1])
      /\ e.do = "assign" => e.v \in LetBound(s)
  <2>1. ASSUME e.do = "let"
        PROVE  /\ e.v \in Locals \cup {Nowhere} /\ e.v \notin LetBound(s)
               /\ Initializer(Ledgers, LetBound(s), e.of[1])
    <3>1. e.v \in Locals \cup {Nowhere} /\ 1 \in DOMAIN e.of /\ e.of[1] \in ApprovalInitializers
      BY <1>1, <2>1, ApprovalConstructIs
    <3>2. e.v \notin LetBound(s)
      BY <1>3, <2>1, <3>1, NowhereAssumption DEF LetBound
    <3>3. \A v \in LocalsOf(e.of[1]) : v \in Locals => v \in LetBound(s)
      BY <1>3, <3>1
    <3>4. Initializer(Ledgers, LetBound(s), e.of[1])
      BY <3>1, <3>3, ApprovalIsInitializer
    <3> QED BY <3>1, <3>2, <3>4
  <2>2. e.do = "assign" => e.v \in LetBound(s)
    BY <1>1, <1>3, ApprovalConstructIs
  <2> QED BY <2>1, <2>2
<1>5. TtlKnown(t, next, Ledgers)
  <2>1. Ledgers \subseteq Nat
    BY DEF Ledgers
  <2> HIDE DEF t, next
  <2> QED BY <1>1, <1>4, <2>1, KnownNext DEF t, next
<1>6. ApprovalsReported'
  <2> DEFINE excessive(x) == ExcessiveForm(FormOf(m.holds, x))
             aCopy(x) == x.op = "local" /\ m.inits[x.args[1]].op = "local"
  <2>1. ASSUME e.do = "approve"
        PROVE  /\ memory' = m
               /\ Here \in reported' => Assigned' \/ Stale' \/ \E i \in {1, 2} : excessive(e.of[i])
               /\ Here \notin reported' =>
                    Assigned' \/ \A i \in {1, 2} : excessive(e.of[i]) => aCopy(e.of[i])
    <3>1. memory' = m
      BY <1>1, <2>1 DEF TtlStep
    <3>2. (Assigned' <=> AssignedIn(s)) /\ (Stale' <=> StaleIn(s))
      <4>1. (AssignedIn(t) <=> AssignedIn(s)) /\ (StaleIn(t) <=> StaleIn(s))
        BY <1>1, <2>1, OtherNext
      <4>2. (Assigned' <=> AssignedIn(t)) /\ (Stale' <=> StaleIn(t))
        BY <1>1 DEF Assigned, AssignedIn, Stale, StaleIn
      <4> QED BY <4>1, <4>2
    <3>3. ASSUME ~AssignedIn(s), NEW i \in {1, 2}
          PROVE  /\ IsExcessive(GetConstant(m, e.of[i])) => excessive(e.of[i]) \/ StaleIn(s)
                 /\ excessive(e.of[i]) => aCopy(e.of[i]) \/ IsExcessive(GetConstant(m, e.of[i]))
      <4>1. i \in DOMAIN e.of /\ e.of[i] \in Approved
        BY <1>1, <2>1, ApprovalConstructIs
      <4>2. \A v \in LocalsOf(e.of[i]) : v \in Locals => v \in LetBound(s)
        BY <1>3, <4>1
      <4> DEFINE x == e.of[i]
      <4>3. x \in Approved /\ \A v \in LocalsOf(x) : v \in Locals => v \in LetBound(s)
        BY <4>1, <4>2
      <4> HIDE DEF x
      <4>4. /\ IsExcessive(GetConstant(m, x)) => excessive(x) \/ StaleIn(s)
            /\ excessive(x) => aCopy(x) \/ IsExcessive(GetConstant(m, x))
        BY <1>1, <3>3, <4>3, AmountIsJudged
      <4> QED BY <4>4 DEF x
    <3>4. Here \in reported' <=> \E i \in {1, 2} : IsExcessive(GetConstant(m, e.of[i]))
      BY <1>2, <2>1
    <3> HIDE DEF excessive, aCopy
    <3> QED BY <3>1, <3>2, <3>3, <3>4
  <2> QED BY <1>2, <2>1 DEF ApprovalsReported, ExcessiveForm
<1> QED BY <1>1, <1>2, <1>5, <1>6 DEF ApprovalInv

-----------------------------------------------------------------------------
LEMMA TtlInvariant ==
  Follows({"ineffective-extend-ttl"}, TtlStart, VisitTtl)
    => [](lint \in {"ineffective-extend-ttl"} => TtlInv)
<1>1. (lint \in {"ineffective-extend-ttl"} => Begin(TtlStart))
      => (lint \in {"ineffective-extend-ttl"} => TtlInv)
  <2> SUFFICES ASSUME Begin(TtlStart) PROVE TtlInv
    OBVIOUS
  <2>1. walked = <<>> /\ reported = {} /\ memory = TtlStart /\ <<>> \in Seq(TtlConstructs)
    BY DEF Begin
  <2>2. TtlKnown(walked, memory, Nat)
    BY <2>1, BeginKnown
  <2> QED BY <2>1, <2>2 DEF TtlInv, TtlsJudged
<1>2. /\ lint \in {"ineffective-extend-ttl"} => TtlInv
      /\ [IF lint \in {"ineffective-extend-ttl"} THEN VisitTtl ELSE UNCHANGED lint]_walk
      => (lint \in {"ineffective-extend-ttl"} => TtlInv)'
  <2> SUFFICES ASSUME lint = "ineffective-extend-ttl" => TtlInv,
                      [IF lint \in {"ineffective-extend-ttl"} THEN VisitTtl ELSE UNCHANGED lint]_walk,
                      lint' = "ineffective-extend-ttl"
               PROVE  TtlInv'
    OBVIOUS
  <2>1. lint' = lint
    <3>1. VisitTtl => lint' = lint
      BY DEF VisitTtl, Pass
    <3> QED BY <3>1 DEF walk
  <2>2. TtlInv /\ (VisitTtl \/ UNCHANGED walk)
    BY <2>1
  <2>3. CASE VisitTtl
    <3>1. PICK e : TtlPass(e)
      BY <2>3, VisitTtlIs
    <3> QED BY <2>2, <3>1, TtlFollows
  <2>4. CASE UNCHANGED walk
    <3>1. (Assigned' <=> Assigned) /\ (Stale' <=> Stale)
      BY <2>4 DEF Assigned, Stale, walk
    <3> QED BY <2>2, <2>4, <3>1 DEF TtlInv, TtlsJudged, walk
  <2> QED BY <2>2, <2>3, <2>4
<1> QED BY <1>1, <1>2, PTL DEF Follows

LEMMA ApprovalInvariant ==
  Follows({"excessive-token-approval"}, TtlStart, VisitApproval)
    => [](lint \in {"excessive-token-approval"} => ApprovalInv)
<1>1. (lint \in {"excessive-token-approval"} => Begin(TtlStart))
      => (lint \in {"excessive-token-approval"} => ApprovalInv)
  <2> SUFFICES ASSUME Begin(TtlStart) PROVE ApprovalInv
    OBVIOUS
  <2>1. /\ walked = <<>> /\ reported = {} /\ memory = TtlStart /\ <<>> \in Seq(ApprovalConstructs)
        /\ Latest = {}
    BY DEF Begin, Latest
  <2>2. TtlKnown(walked, memory, Ledgers)
    BY <2>1, BeginKnown
  <2> QED BY <2>1, <2>2 DEF ApprovalInv, ApprovalsReported
<1>2. /\ lint \in {"excessive-token-approval"} => ApprovalInv
      /\ [IF lint \in {"excessive-token-approval"} THEN VisitApproval ELSE UNCHANGED lint]_walk
      => (lint \in {"excessive-token-approval"} => ApprovalInv)'
  <2> SUFFICES ASSUME lint = "excessive-token-approval" => ApprovalInv,
                      [IF lint \in {"excessive-token-approval"} THEN VisitApproval ELSE UNCHANGED lint]_walk,
                      lint' = "excessive-token-approval"
               PROVE  ApprovalInv'
    OBVIOUS
  <2>1. lint' = lint
    <3>1. VisitApproval => lint' = lint
      BY DEF VisitApproval, Pass
    <3> QED BY <3>1 DEF walk
  <2>2. ApprovalInv /\ (VisitApproval \/ UNCHANGED walk)
    BY <2>1
  <2>3. CASE VisitApproval
    <3>1. PICK e : ApprovalPass(e)
      BY <2>3, VisitApprovalIs
    <3> QED BY <2>2, <3>1, ApprovalFollows
  <2>4. CASE UNCHANGED walk
    <3>1. (Assigned' <=> Assigned) /\ (Stale' <=> Stale) /\ Latest' = Latest
      BY <2>4 DEF Assigned, Stale, Latest, walk
    <3> QED BY <2>2, <2>4, <3>1 DEF ApprovalInv, ApprovalsReported, walk
  <2> QED BY <2>2, <2>3, <2>4
<1> QED BY <1>1, <1>2, PTL DEF Follows

\* What the detectors take for known at compile time is known: a value is passed over
\* as constant exactly when no parameter reaches it through lets, a cast as lossless
\* when it loses no value, and arithmetic that a comparison excuses cannot fail; a
\* lifetime is reported only if it cannot be longer, and an approval only if it is
\* near the largest, but for the constants that are left behind or assigned
\* (constant_analyzer/mod.rs, unsafe-lossy-cast/src/lib.rs, arithmetic_checker.rs,
\* ineffective-extend-ttl/src/lib.rs, excessive-token-approval/src/lib.rs).
THEOREM ConstantsAreJudged == ConstantSpec => []ConstantsJudged
<1>1. /\ lint \in {"unsafe-lossy-cast", "dos-unbounded-operation"} => ConstantInv
      /\ lint \in {"unsafe-unwrap of arithmetic"} => ArithmeticInv
      /\ lint \in {"ineffective-extend-ttl"} => TtlInv
      /\ lint \in {"excessive-token-approval"} => ApprovalInv
      => ConstantsJudged
  <2>1. lint \notin {"unsafe-lossy-cast", "dos-unbounded-operation"} => UnknownValuesReported
    BY DEF UnknownValuesReported
  <2>2. lint # "unsafe-unwrap of arithmetic" => ArithmeticExcused
    BY DEF ArithmeticExcused
  <2>3. LossyCastsRight
    BY LossyCastIs DEF LossyCastsRight
  <2>4. lint # "ineffective-extend-ttl" => TtlsJudged
    BY DEF TtlsJudged
  <2>5. lint # "excessive-token-approval" => ApprovalsReported
    BY DEF ApprovalsReported
  <2> QED BY <2>1, <2>2, <2>3, <2>4, <2>5
             DEF ConstantsJudged, ConstantInv, ArithmeticInv, TtlInv, ApprovalInv
<1> QED BY <1>1, ConstantInvariant, ArithmeticInvariant, TtlInvariant, ApprovalInvariant, PTL
        DEF ConstantSpec

-----------------------------------------------------------------------------
(* A crate and its dependencies.                                              *)

ImportConstructs == Dependencies \cup Unreadable \cup Imports

\* The packages that the contract is built with.
Declared(s) == {PackageName(s[n]) : n \in {n \in DOMAIN s : /\ s[n].do = "dependency"
                                                            /\ s[n].table # "dev-dependencies"}}

\* What the detector knows of them, which is nothing without a manifest.
WasRead(s) == \A n \in DOMAIN s : s[n].do # "unreadable"

Loaded(s) == IF WasRead(s) THEN Declared(s) ELSE {}

ImportInv == /\ walked \in Seq(ImportConstructs) /\ reported \subseteq DOMAIN walked
             /\ memory.cargo_dependencies = Loaded(walked)
             /\ memory = [cargo_dependencies |-> memory.cargo_dependencies,
                          wrong_path |-> memory.wrong_path]
             /\ ImportsTracked

Separators == {Hyphen, Underscore}

LEMMA SeparatorsAre == Hyphen # Underscore /\ "." # Hyphen /\ "." # Underscore
BY DEF Hyphen, Underscore

LEMMA NamesAre ==
  ASSUME NEW name \in Names
  PROVE  /\ name \in Seq(Separators) /\ Len(name) \in Nat /\ DOMAIN name = 1 .. Len(name)
         /\ \A i \in DOMAIN name : name[i] \in Separators
<1> DEFINE C == Separators
<1> HIDE DEF C
<1>1. \A c \in C : /\ <<c>> \in Seq(C) /\ Len(<<c>>) = 1 /\ DOMAIN <<c>> = 1 .. 1 /\ <<c>>[1] = c
  OBVIOUS
<1>2. \A c, d \in C : /\ <<c, d>> \in Seq(C) /\ Len(<<c, d>>) = 2 /\ DOMAIN <<c, d>> = 1 .. 2
                      /\ <<c, d>>[1] = c /\ <<c, d>>[2] = d
  OBVIOUS
<1>3. Hyphen \in C /\ Underscore \in C
  BY DEF C, Separators
<1>4. (\E c \in C : name = <<c>>) \/ (\E c, d \in C : name = <<c, d>>)
  BY <1>3 DEF Names
<1>5. name \in Seq(C)
  BY <1>1, <1>2, <1>4
<1>6. \A i \in DOMAIN name : name[i] \in C
  BY <1>5
<1> QED BY <1>5, <1>6 DEF C

LEMMA PackageNames ==
  ASSUME NEW e \in Dependencies
  PROVE  e.do = "dependency" /\ PackageName(e) \in Names
BY DEF Dependencies, PackageName

LEMMA DeclaredNames == ASSUME NEW s \in Seq(ImportConstructs) PROVE Declared(s) \subseteq Names
<1> SUFFICES ASSUME NEW n \in DOMAIN s, s[n].do = "dependency" PROVE PackageName(s[n]) \in Names
  BY DEF Declared
<1>1. s[n] \in ImportConstructs
  OBVIOUS
<1>2. s[n] \notin Imports /\ s[n] \notin Unreadable
  BY DEF Imports, Unreadable
<1> QED BY <1>1, <1>2, PackageNames DEF ImportConstructs

Dashed(name) == [i \in DOMAIN name |-> IF name[i] = Underscore THEN Hyphen ELSE name[i]]

LEMMA UnderscoredIs ==
  ASSUME NEW name \in Names
  PROVE  /\ Underscored(name) \in Seq({Underscore}) /\ Len(Underscored(name)) = Len(name)
         /\ Underscored(name) \o <<>> = Underscored(name)
         /\ Underscored(Underscored(name)) = Underscored(name)
         /\ Underscored(Dashed(Underscored(name))) = Underscored(name)
<1>1. name \in Seq(Separators) /\ DOMAIN name = 1 .. Len(name) /\ Len(name) \in Nat
  BY NamesAre
<1>2. /\ Underscored(name) \in Seq({Underscore}) /\ Len(Underscored(name)) = Len(name)
      /\ DOMAIN Underscored(name) = DOMAIN name
  <2>1. \A i \in DOMAIN name : Underscore \in {Underscore}
    OBVIOUS
  <2>2. \A T, u : \A n \in Nat : u \in T => [i \in 1 .. n |-> u] \in Seq(T) /\ Len([i \in 1 .. n |-> u]) = n
    OBVIOUS
  <2> QED BY <1>1, <2>1, <2>2 DEF Underscored
<1>3. Underscored(name) \o <<>> = Underscored(name)
  BY <1>2, ConcatEmptySeq
<1>4. DOMAIN Dashed(Underscored(name)) = DOMAIN name
  BY <1>2 DEF Dashed
<1>5. \A n : DOMAIN n = DOMAIN name => Underscored(n) = Underscored(name)
  BY DEF Underscored
<1> QED BY <1>2, <1>3, <1>4, <1>5

\* A name that is found among the packages is one of them, whatever its separators.
LEMMA FoundIsDeclared ==
  ASSUME NEW e \in Imports, NEW name \in Names,
         name \in {ContractName(e), Dashed(ContractName(e))}
  PROVE  Underscored(name) = Underscored(e.of)
<1>1. e.of \in Names /\ e.optimized \in BOOLEAN
  BY DEF Imports
<1>2. name \in Seq(Separators)
  BY NamesAre
<1>3. CASE e.optimized
  <2> DEFINE c == ContractName(e)
             n == Len(e.of) + 1
  <2>1. /\ Underscored(e.of) \in Seq({Underscore}) /\ Len(Underscored(e.of)) = Len(e.of)
        /\ c = Underscored(e.of) \o <<".">>
    BY <1>1, <1>3, UnderscoredIs DEF ContractName
  <2>2. n \in DOMAIN c /\ c[n] = "."
    <3> DEFINE u == Underscored(e.of)
    <3>1. u \in Seq({Underscore}) /\ c = u \o <<".">> /\ n = Len(u) + 1
      BY <2>1
    <3> DEFINE Letters == {Underscore, "."}
    <3>2. u \in Seq(Letters) /\ <<".">> \in Seq(Letters) /\ Len(<<".">>) = 1 /\ <<".">>[1] = "."
      BY <3>1
    <3> HIDE DEF u, c, n, Letters
    <3>3. /\ c \in Seq(Letters) /\ Len(c) = Len(u) + 1 /\ Len(u) \in Nat
          /\ \A i \in 1 .. Len(u) + 1 : c[i] = IF i <= Len(u) THEN u[i] ELSE <<".">>[i - Len(u)]
      BY <3>1, <3>2, ConcatProperties
    <3>4. n \in 1 .. Len(u) + 1 /\ n - Len(u) = 1 /\ ~(n <= Len(u))
      BY <3>1, <3>3
    <3> QED BY <3>2, <3>3, <3>4
  <2>3. n \in DOMAIN Dashed(c) /\ Dashed(c)[n] = "."
    BY <2>2, SeparatorsAre DEF Dashed
  <2>4. n \in DOMAIN name /\ name[n] = "."
    BY <2>2, <2>3
  <2>5. \A k \in DOMAIN name : name[k] \in Separators
    BY NamesAre
  <2> HIDE DEF n
  <2> QED BY <2>4, <2>5, SeparatorsAre DEF Separators
<1>4. CASE ~e.optimized
  <2>1. ContractName(e) = Underscored(e.of)
    BY <1>1, <1>4, UnderscoredIs DEF ContractName
  <2> QED BY <1>1, <2>1, UnderscoredIs
<1> QED BY <1>1, <1>3, <1>4

\* A package with one separator in its name is found under it.
LEMMA DeclaredIsFound ==
  ASSUME NEW e \in Imports, ~e.optimized, \A k, n \in DOMAIN e.of : e.of[k] = e.of[n]
  PROVE  e.of \in {ContractName(e), Dashed(ContractName(e))}
<1>1. e.of \in Names
  BY DEF Imports
<1>2. ContractName(e) = Underscored(e.of)
  BY <1>1, UnderscoredIs DEF ContractName
<1>3. /\ DOMAIN Underscored(e.of) = DOMAIN e.of /\ e.of = [i \in DOMAIN e.of |-> e.of[i]]
      /\ \A k \in DOMAIN e.of : e.of[k] \in Separators
  <2>1. /\ e.of \in Seq(Separators) /\ \A k \in DOMAIN e.of : e.of[k] \in Separators
    BY <1>1, NamesAre
  <2>2. e.of = [i \in DOMAIN e.of |-> e.of[i]]
    BY <2>1
  <2> QED BY <2>1, <2>2 DEF Underscored
<1>4. CASE \A k \in DOMAIN e.of : e.of[k] = Underscore
  <2>1. e.of = Underscored(e.of)
    BY <1>3, <1>4 DEF Underscored
  <2> QED BY <1>2, <2>1
<1>5. CASE \A k \in DOMAIN e.of : e.of[k] = Hyphen
  <2>1. e.of = Dashed(Underscored(e.of))
    BY <1>3, <1>5 DEF Underscored, Dashed
  <2> QED BY <1>2, <2>1
<1> QED BY <1>3, <1>4, <1>5 DEF Separators

ImportPass(e) ==
  \/ /\ \A i \in DOMAIN walked : walked[i].do = "dependency"
     /\ \/ e \in Dependencies /\ Pass(e, LoadDependency(memory, e), {})
        \/ e \in Unreadable /\ Pass(e, LoadNothing(memory), {})
  \/ /\ e \in Imports
     /\ Pass(e, [memory EXCEPT !.wrong_path = IF e.uses_deps_path THEN @ ELSE @ \cup {Here}],
             Mark(~IsContractInDependencies(memory, ContractName(e))))

LEMMA VisitImportsIs == VisitImports => \E e : ImportPass(e)
BY DEF VisitImports, ImportPass

LEMMA ImportFollows ==
  ASSUME ImportInv, NEW e, ImportPass(e)
  PROVE  (lint = "contract-import-dependency" => ImportInv)'
<1> DEFINE s == walked
           t == walked'
           n == Len(walked) + 1
<1>1. /\ e \in ImportConstructs /\ t = Append(s, e) /\ s \in Seq(ImportConstructs)
      /\ e \in Dependencies => /\ memory' = LoadDependency(memory, e) /\ reported' = reported
                               /\ \A i \in DOMAIN s : s[i].do = "dependency"
      /\ e \in Unreadable => memory' = LoadNothing(memory) /\ reported' = reported
      /\ e \in Imports =>
           /\ memory' = [memory EXCEPT !.wrong_path = IF e.uses_deps_path THEN @ ELSE @ \cup {n}]
           /\ reported' = reported \cup IF ~IsContractInDependencies(memory, ContractName(e)) THEN {n} ELSE {}
  <2>1. /\ \A d \in Dependencies : d \notin Imports /\ d \notin Unreadable
        /\ \A d \in Unreadable : d \notin Imports
    BY DEF Dependencies, Unreadable, Imports
  <2>2. /\ e \in ImportConstructs /\ t = Append(s, e) /\ s \in Seq(ImportConstructs)
        /\ reported \cup {} = reported
    BY DEF ImportPass, ImportConstructs, ImportInv, Pass
  <2>3. CASE e \in Imports
    BY <2>1, <2>2, <2>3 DEF ImportPass, Pass, Mark, Here
  <2>4. CASE e \notin Imports
    BY <2>1, <2>2, <2>4 DEF ImportPass, Pass
  <2> QED BY <2>3, <2>4
<1>2. /\ Len(t) = n /\ t \in Seq(ImportConstructs) /\ DOMAIN t = 1 .. n /\ DOMAIN s = 1 .. n - 1 /\ n \in Nat \ {0}
      /\ t[n] = e /\ \A i \in DOMAIN s : t[i] = s[i]
  BY <1>1
<1>3. /\ e \in Dependencies => e.do = "dependency" /\ e.table \in Tables
      /\ e \in Unreadable => e.do = "unreadable"
      /\ e \in Imports => e.do = "contractimport"
      /\ e \in Dependencies \/ e \in Unreadable \/ e \in Imports
  BY <1>1 DEF Dependencies, Unreadable, Imports, ImportConstructs
<1> HIDE DEF s, t, n
<1>4. Declared(t) = Declared(s) \cup IF e \in Dependencies /\ e.table # "dev-dependencies"
                                     THEN {PackageName(e)} ELSE {}
  <2> DEFINE is(d) == d.do = "dependency" /\ d.table # "dev-dependencies"
  <2>1. {k \in DOMAIN t : is(t[k])} = {k \in DOMAIN s : is(s[k])} \cup IF is(e) THEN {n} ELSE {}
    BY <1>2
  <2>2. is(e) <=> e \in Dependencies /\ e.table # "dev-dependencies"
    BY <1>3
  <2>3. /\ Declared(t) = {PackageName(t[k]) : k \in {k \in DOMAIN t : is(t[k])}}
        /\ Declared(s) = {PackageName(s[k]) : k \in {k \in DOMAIN s : is(s[k])}}
    BY DEF Declared
  <2> HIDE DEF is
  <2>4. \A p : p \in Declared(t) <=> p \in Declared(s) \/ (is(e) /\ p = PackageName(e))
    BY <1>2, <2>1, <2>3
  <2> QED BY <2>2, <2>4
<1>5. /\ WasRead(t) <=> WasRead(s) /\ e \notin Unreadable
      /\ e \in Dependencies => WasRead(s)
  BY <1>1, <1>2, <1>3 DEF WasRead
<1>6. /\ memory'.cargo_dependencies = Loaded(t)
      /\ memory' = [cargo_dependencies |-> memory'.cargo_dependencies, wrong_path |-> memory'.wrong_path]
  <2>1. PICK c, w : memory = [cargo_dependencies |-> c, wrong_path |-> w] /\ c = Loaded(s)
    BY DEF ImportInv, s
  <2>2. /\ memory.cargo_dependencies = c /\ memory.wrong_path = w
        /\ \A d : [memory EXCEPT !.cargo_dependencies = d] = [cargo_dependencies |-> d, wrong_path |-> w]
        /\ \A v : [memory EXCEPT !.wrong_path = v] = [cargo_dependencies |-> c, wrong_path |-> v]
    BY <2>1
  <2>3. CASE e \in Dependencies
    <3>1. memory' = [cargo_dependencies |-> IF e.table = "dev-dependencies" THEN c ELSE c \cup {PackageName(e)},
                     wrong_path |-> w]
      BY <1>1, <2>1, <2>2, <2>3 DEF LoadDependency
    <3>2. WasRead(s) /\ WasRead(t)
      BY <1>3, <1>5, <2>3
    <3>3. c = Declared(s) /\ Loaded(t) = Declared(t)
      BY <2>1, <3>2 DEF Loaded
    <3> HIDE DEF Loaded
    <3> QED BY <1>4, <2>3, <3>1, <3>3
  <2>4. CASE e \in Unreadable
    <3>1. memory' = [cargo_dependencies |-> {}, wrong_path |-> w]
      BY <1>1, <2>2, <2>4 DEF LoadNothing
    <3> QED BY <1>5, <2>4, <3>1 DEF Loaded
  <2>5. CASE e \in Imports
    <3>1. PICK v : memory' = [cargo_dependencies |-> c, wrong_path |-> v]
      BY <1>1, <2>2, <2>5
    <3>2. Declared(t) = Declared(s) /\ (WasRead(t) <=> WasRead(s))
      BY <1>3, <1>4, <1>5, <2>5
    <3>3. Loaded(t) = c
      BY <2>1, <3>2 DEF Loaded
    <3> QED BY <3>1, <3>3
  <2> QED BY <1>3, <2>3, <2>4, <2>5
<1>7. /\ reported' \subseteq DOMAIN t
      /\ e \in Imports => (n \in reported' <=> ~IsContractInDependencies(memory, ContractName(e)))
  BY <1>1, <1>2, <1>3 DEF ImportInv, s
<1>8. ImportsTracked'
  <2> SUFFICES ASSUME e.do = "contractimport"
               PROVE  LET declared == {PackageName(t[k]) :
                                         k \in {k \in 1 .. n - 1 : /\ t[k].do = "dependency"
                                                                   /\ t[k].table # "dev-dependencies"}}
                          wasRead == \A k \in 1 .. n - 1 : t[k].do # "unreadable"
                      IN  /\ n \notin reported' =>
                               wasRead /\ \E name \in declared : Underscored(name) = Underscored(e.of)
                          /\ n \in reported' /\ e.of \in declared =>
                               ~wasRead \/ e.optimized \/ \E k, i \in DOMAIN e.of : e.of[k] # e.of[i]
    BY <1>2 DEF ImportsTracked, Latest, t
  <2>1. e \in Imports
    BY <1>3
  <2>2. {PackageName(t[k]) : k \in {k \in 1 .. n - 1 : /\ t[k].do = "dependency"
                                                       /\ t[k].table # "dev-dependencies"}} = Declared(s)
    BY <1>2 DEF Declared
  <2>3. (\A k \in 1 .. n - 1 : t[k].do # "unreadable") <=> WasRead(s)
    BY <1>2 DEF WasRead
  <2>4. IsContractInDependencies(memory, ContractName(e)) <=>
          {ContractName(e), Dashed(ContractName(e))} \cap Loaded(s) # {}
    BY DEF IsContractInDependencies, Dashed, ImportInv, s
  <2>5. Declared(s) \subseteq Names
    BY <1>1, DeclaredNames
  <2> DEFINE found == {ContractName(e), Dashed(ContractName(e))}
  <2>6. n \notin reported' <=> WasRead(s) /\ found \cap Declared(s) # {}
    BY <1>7, <2>1, <2>4 DEF Loaded
  <2>7. n \notin reported' => WasRead(s) /\ \E name \in Declared(s) : Underscored(name) = Underscored(e.of)
    BY <2>1, <2>5, <2>6, FoundIsDeclared
  <2>8. n \in reported' /\ e.of \in Declared(s) =>
          ~WasRead(s) \/ e.optimized \/ \E k, i \in DOMAIN e.of : e.of[k] # e.of[i]
    BY <2>1, <2>6, DeclaredIsFound
  <2> QED BY <2>2, <2>3, <2>7, <2>8
<1> QED BY <1>2, <1>6, <1>7, <1>8 DEF ImportInv, t

LEMMA ImportInvariant ==
  Follows({"contract-import-dependency"}, ImportStart, VisitImports)
    => [](lint \in {"contract-import-dependency"} => ImportInv)
<1>1. (lint \in {"contract-import-dependency"} => Begin(ImportStart))
      => (lint \in {"contract-import-dependency"} => ImportInv)
  BY DEF Begin, ImportStart, ImportInv, Loaded, WasRead, Declared, ImportsTracked, Latest
<1>2. /\ lint \in {"contract-import-dependency"} => ImportInv
      /\ [IF lint \in {"contract-import-dependency"} THEN VisitImports ELSE UNCHANGED lint]_walk
      => (lint \in {"contract-import-dependency"} => ImportInv)'
  <2> SUFFICES ASSUME lint = "contract-import-dependency" => ImportInv,
                      [IF lint \in {"contract-import-dependency"} THEN VisitImports ELSE UNCHANGED lint]_walk,
                      lint' = "contract-import-dependency"
               PROVE  ImportInv'
    OBVIOUS
  <2>1. VisitImports => lint' = lint
    BY DEF VisitImports, Pass
  <2>2. ImportInv /\ (VisitImports \/ UNCHANGED walk)
    BY <2>1 DEF walk
  <2>3. CASE VisitImports
    BY <2>2, <2>3, VisitImportsIs, ImportFollows
  <2>4. CASE UNCHANGED walk
    BY <2>2, <2>4 DEF ImportInv, ImportsTracked, Latest, walk
  <2> QED BY <2>2, <2>3, <2>4
<1> QED BY <1>1, <1>2, PTL DEF Follows

-----------------------------------------------------------------------------
(* What is asked about a crate.                                               *)

AnyQuestion == {Questions[l][k] : l \in DOMAIN Questions, k \in Nat}

Asked == {"soroban-version", "overflow-check", "known-vulnerabilities"}

AllAnswered == Len(walked) = Len(Questions[lint]) /\ \A i \in DOMAIN walked : walked[i].answered

\* The package of the workspace is the crate's own if there is only one.
Possible(m) == m \in Manifests /\ (lint = "soroban-version" /\ m.one => m.first = m.own)

ManifestInv ==
  /\ walked \in Seq([do : AnyQuestion, answered : BOOLEAN]) /\ Len(walked) <= Len(Questions[lint])
  /\ \A k \in 1 .. Len(walked) - 1 : walked[k].answered
  /\ walked # <<>> => Possible(memory)
  /\ lint = "soroban-version" /\ Len(walked) = Len(Questions[lint]) =>
       walked[Len(walked)].answered = Parses(memory.first)
  /\ reported # {} <=> walked # <<>> /\ AllAnswered /\ Finding(memory)

LEMMA QuestionsAre ==
  /\ DOMAIN Questions = Asked
  /\ \A l \in Asked : Len(Questions[l]) \in Nat \ {0}
  /\ Questions["soroban-version"][Len(Questions["soroban-version"])] = "requirement-parses"
<1>1. DOMAIN Questions = Asked
  BY DEF Questions, Asked
<1>2. /\ Questions["soroban-version"] =
            <<"latest-version", "metadata", "packages", "first-package", "dependencies",
              "soroban-sdk", "requirement", "latest-parses", "requirement-parses">>
      /\ Questions["overflow-check"] = <<"workspace", "Cargo.toml", "Cargo.toml-parses">>
      /\ Questions["known-vulnerabilities"] =
           <<"directory", "Cargo.lock-path", "repository", "database", "Cargo.lock">>
  BY DEF Questions
<1>3. /\ Len(Questions["soroban-version"]) = 9
      /\ Questions["soroban-version"][9] = "requirement-parses"
  BY <1>2
<1>4. Len(Questions["overflow-check"]) = 3
  BY <1>2
<1>5. Len(Questions["known-vulnerabilities"]) = 5
  BY <1>2
<1>6. ASSUME NEW l \in Asked PROVE Len(Questions[l]) \in Nat \ {0}
  <2>1. l = "soroban-version" \/ l = "overflow-check" \/ l = "known-vulnerabilities"
    BY DEF Asked
  <2>2. Len(Questions[l]) = 9 \/ Len(Questions[l]) = 3 \/ Len(Questions[l]) = 5
    BY <1>3, <1>4, <1>5, <2>1
  <2>3. 9 \in Nat \ {0} /\ 3 \in Nat \ {0} /\ 5 \in Nat \ {0}
    OBVIOUS
  <2> QED BY <2>2, <2>3
<1>7. Questions["soroban-version"][Len(Questions["soroban-version"])] = "requirement-parses"
  BY <1>3
<1> QED BY <1>1, <1>6, <1>7

LEMMA ManifestIs ==
  ASSUME NEW m \in Manifests
  PROVE  /\ lint = "soroban-version" =>
              /\ m.first \in Requirements /\ m.one \in BOOLEAN
              /\ Finding(m) <=> m.first.version # m.latest
              /\ Parses(m.first) => m.first.full
         /\ lint = "overflow-check" => (Finding(m) <=> m.workspace # "true")
<1>1. CASE lint = "soroban-version"
  BY <1>1 DEF Manifests, Finding, Parses
<1>2. CASE lint = "overflow-check"
  BY <1>2 DEF Manifests, Finding
<1> QED BY <1>1, <1>2

LEMMA ManifestIsReported ==
  ASSUME lint \in Asked, ManifestInv
  PROVE  ManifestsReported
<1> SUFFICES ASSUME walked # <<>>
             PROVE  /\ reported # {} => AllAnswered
                    /\ lint = "soroban-version" =>
                         /\ reported # {} => memory.first.full /\ (memory.one => memory.own.version # memory.latest)
                         /\ AllAnswered /\ memory.one /\ reported = {} => memory.own.version = memory.latest
                    /\ lint = "overflow-check" /\ AllAnswered => (reported = {}) = (memory.workspace = "true")
  BY DEF ManifestsReported, AllAnswered, Answered
<1>1. /\ Possible(memory) /\ memory \in Manifests
      /\ reported # {} <=> AllAnswered /\ Finding(memory)
  BY DEF ManifestInv, Possible
<1>2. CASE lint = "soroban-version"
  <2>1. ASSUME AllAnswered PROVE memory.first.full
    <3>1. Len(walked) \in DOMAIN walked
      BY DEF ManifestInv
    <3>2. walked[Len(walked)].answered = Parses(memory.first) /\ walked[Len(walked)].answered
      BY <1>2, <2>1, <3>1 DEF ManifestInv, AllAnswered
    <3> QED BY <1>1, <1>2, <3>2, ManifestIs
  <2>2. memory.one => memory.first = memory.own
    BY <1>1, <1>2 DEF Possible
  <2>3. Finding(memory) <=> memory.first.version # memory.latest
    BY <1>1, <1>2, ManifestIs
  <2> QED BY <1>1, <1>2, <2>1, <2>2, <2>3
<1>3. CASE lint = "overflow-check"
  <2>1. Finding(memory) <=> memory.workspace # "true"
    BY <1>1, <1>3, ManifestIs
  <2>2. AllAnswered => ((reported = {}) <=> (memory.workspace = "true"))
    BY <1>1, <2>1
  <2> QED BY <1>1, <1>3, <2>2
<1> QED BY <1>1, <1>2, <1>3

ManifestPass(answered, m) ==
  LET n == Len(walked) + 1
      question == Questions[lint][n]
  IN  /\ n <= Len(Questions[lint]) /\ answered \in BOOLEAN /\ Possible(m)
      /\ \A i \in Latest : walked[i].answered
      /\ walked # <<>> => m = memory
      /\ question = "requirement-parses" => answered = Parses(m.first)
      /\ Pass([do |-> question, answered |-> answered], m,
              Mark(n = Len(Questions[lint]) /\ answered /\ Finding(m)))

LEMMA VisitManifestIs ==
  ASSUME ManifestInv, lint \in Asked, VisitManifest
  PROVE  \E answered, m : ManifestPass(answered, m)
<1>1. Len(walked) \in Nat /\ Len(Questions[lint]) \in Nat
  BY QuestionsAre DEF ManifestInv
<1>2. Len(walked) < Len(Questions[lint]) <=> Len(walked) + 1 <= Len(Questions[lint])
  BY <1>1
<1> QED BY <1>2 DEF VisitManifest, ManifestPass, Possible, Answered

LEMMA ManifestFollows ==
  ASSUME ManifestInv, lint \in Asked, NEW answered, NEW m, ManifestPass(answered, m)
  PROVE  lint' = lint /\ ManifestInv'
<1> DEFINE n == Len(walked) + 1
           e == [do |-> Questions[lint][n], answered |-> answered]
           t == walked'
           last == Len(Questions[lint])
<1>1. /\ lint' = lint /\ t = Append(walked, e) /\ memory' = m
      /\ reported' = reported \cup Mark(n = last /\ answered /\ Finding(m))
      /\ n <= last /\ answered \in BOOLEAN /\ Possible(m)
      /\ Questions[lint][n] = "requirement-parses" => answered = Parses(m.first)
  BY DEF ManifestPass, Pass
<1>2. /\ last \in Nat \ {0}
      /\ lint = "soroban-version" => Questions[lint][last] = "requirement-parses"
  BY QuestionsAre
<1>3. walked \in Seq([do : AnyQuestion, answered : BOOLEAN]) /\ Len(walked) \in Nat
  BY DEF ManifestInv
<1>4. Questions[lint][n] \in AnyQuestion
  BY <1>3, QuestionsAre DEF AnyQuestion
<1>5. e \in [do : AnyQuestion, answered : BOOLEAN] /\ e.answered = answered
  BY <1>1, <1>4
<1> HIDE DEF e, t, last
<1>6. /\ t \in Seq([do : AnyQuestion, answered : BOOLEAN]) /\ Len(t) = n /\ t # <<>>
      /\ DOMAIN t = 1 .. n /\ t[n] = e /\ \A i \in 1 .. Len(walked) : t[i] = walked[i]
  BY <1>1, <1>3, <1>5
<1>7. \A i \in 1 .. Len(walked) : walked[i].answered
  <2>1. \A i \in Latest : walked[i].answered
    BY DEF ManifestPass
  <2>2. \A i \in 1 .. Len(walked) : i \in 1 .. Len(walked) - 1 \/ (i = Len(walked) /\ walked # <<>>)
    BY <1>3
  <2> QED BY <2>1, <2>2 DEF ManifestInv, Latest
<1>8. reported = {}
  <2>1. Len(walked) # last
    BY <1>1, <1>2, <1>3
  <2> QED BY <2>1 DEF ManifestInv, AllAnswered, last
<1>9. Possible(m)' /\ (Finding(m)' <=> Finding(m))
  BY <1>1 DEF Possible, Finding, Manifests
<1>10. AllAnswered' <=> n = last /\ answered
  BY <1>1, <1>5, <1>6, <1>7 DEF AllAnswered, t, last
<1>11. reported' # {} <=> AllAnswered' /\ Finding(m)
  BY <1>1, <1>8, <1>10 DEF Mark
<1>12. lint = "soroban-version" /\ n = last => t[n].answered = Parses(m.first)
  BY <1>1, <1>2, <1>5, <1>6
<1>13. \A k \in 1 .. Len(t) - 1 : t[k].answered
  BY <1>3, <1>6, <1>7
<1>14. /\ lint' = "soroban-version" /\ Len(t) = Len(Questions[lint'])
            => t[Len(t)].answered = Parses(memory'.first)
       /\ Possible(memory)' /\ Len(t) <= Len(Questions[lint'])
       /\ reported' # {} <=> t # <<>> /\ AllAnswered' /\ Finding(memory)'
  BY <1>1, <1>6, <1>9, <1>11, <1>12 DEF last
<1>15. (walked \in Seq([do : AnyQuestion, answered : BOOLEAN]))'
  BY <1>6 DEF t
<1>16. (\A k \in 1 .. Len(walked) - 1 : walked[k].answered)'
  BY <1>13 DEF t
<1>17. /\ (walked # <<>> => Possible(memory))' /\ (Len(walked) <= Len(Questions[lint]))'
       /\ (reported # {} <=> walked # <<>> /\ AllAnswered /\ Finding(memory))'
  BY <1>14, <1>6 DEF t
<1>18. (lint = "soroban-version" /\ Len(walked) = Len(Questions[lint]) =>
          walked[Len(walked)].answered = Parses(memory.first))'
  BY <1>14 DEF t
<1> QED BY <1>1, <1>15, <1>16, <1>17, <1>18 DEF ManifestInv

LEMMA ManifestInvariant ==
  Follows(DOMAIN Questions, Nothing, VisitManifest) => [](lint \in DOMAIN Questions => ManifestInv)
<1>1. (lint \in DOMAIN Questions => Begin(Nothing)) => (lint \in DOMAIN Questions => ManifestInv)
  <2> SUFFICES ASSUME lint \in Asked, Begin(Nothing) PROVE ManifestInv
    BY QuestionsAre
  <2>1. walked = <<>> /\ reported = {} /\ Len(walked) = 0 /\ walked \in Seq([do : AnyQuestion, answered : BOOLEAN])
    BY DEF Begin
  <2>2. Len(Questions[lint]) \in Nat \ {0}
    BY QuestionsAre
  <2> QED BY <2>1, <2>2 DEF ManifestInv
<1>2. /\ lint \in DOMAIN Questions => ManifestInv
      /\ [IF lint \in DOMAIN Questions THEN VisitManifest ELSE UNCHANGED lint]_walk
      => (lint \in DOMAIN Questions => ManifestInv)'
  <2> SUFFICES ASSUME lint \in Asked => ManifestInv,
                      [IF lint \in Asked THEN VisitManifest ELSE UNCHANGED lint]_walk,
                      lint' \in Asked
               PROVE  ManifestInv'
    BY QuestionsAre DEF Questions
  <2>1. CASE VisitManifest /\ lint \in Asked
    <3>1. PICK answered, m : ManifestPass(answered, m)
      BY <2>1, VisitManifestIs
    <3> QED BY <2>1, <3>1, ManifestFollows
  <2>2. CASE lint' = lint /\ UNCHANGED walk
    <3>1. ManifestInv
      BY <2>2
    <3>2. \A m : (Possible(m)' <=> Possible(m)) /\ (Finding(m)' <=> Finding(m))
      BY <2>2 DEF Possible, Finding, Manifests
    <3> QED BY <2>2, <3>1, <3>2 DEF ManifestInv, AllAnswered, walk
  <2>3. CASE lint \notin Asked /\ lint' = lint
    BY <2>3
  <2> QED BY <2>1, <2>2, <2>3 DEF walk
<1> QED BY <1>1, <1>2, PTL DEF Follows

-----------------------------------------------------------------------------
(* The functions of a token.                                                  *)

TokenConstructs == TokenTypes \cup {[do |-> "end"]}

\* The functions of all types are counted, and each type comes once.
TokenKnown(s, m) ==
  /\ s \in Seq(TokenConstructs) /\ m.impl_token_interface_trait \in BOOLEAN
  /\ m.detected_canonical_functions_count \in Nat
  /\ \A i \in DOMAIN s : s[i].do = "type" =>
       /\ m.detected_canonical_functions_count >= s[i].distinct + s[i].alike
       /\ Len(s) = 1 => m.detected_canonical_functions_count = s[i].distinct + s[i].alike
       /\ s[i].implements => m.impl_token_interface_trait
       /\ \A k \in DOMAIN s \ {i} : s[k].do = "type" => s[i].of # s[k].of
  /\ s = <<>> => m.detected_canonical_functions_count = 0
  /\ m.impl_token_interface_trait => \E i \in DOMAIN s : s[i].do = "type" /\ s[i].implements

TokenInv ==
  /\ TokenKnown(walked, memory)
  /\ memory = [impl_token_interface_trait |-> memory.impl_token_interface_trait,
               detected_canonical_functions_count |-> memory.detected_canonical_functions_count]
  /\ (\A i \in DOMAIN walked : walked[i].do # "end") => reported = {}
  /\ TokensReported

TokenPass(e) ==
  /\ \A i \in DOMAIN walked : walked[i].do # "end"
  /\ e \in TokenConstructs
  /\ e.do = "type" => \A i \in DOMAIN walked : walked[i].of # e.of
  /\ Pass(e, TokenStep(memory, e),
          Mark(/\ e.do = "end" /\ ~memory.impl_token_interface_trait
               /\ LooksLikeAToken(memory)))

LEMMA VisitTokenIs == VisitToken => \E e : TokenPass(e)
BY DEF VisitToken, TokenPass, TokenConstructs

LEMMA TokenConstructIs ==
  ASSUME NEW e \in TokenConstructs
  PROVE  /\ e.do \in {"type", "end"}
         /\ e.do = "type" => e.distinct \in Nat /\ e.alike \in Nat /\ e.implements \in BOOLEAN
BY DEF TokenConstructs, TokenTypes, NamesOfATokenCount

LEMMA TokenKnownNext ==
  ASSUME NEW s, NEW m, TokenKnown(s, m), NEW e \in TokenConstructs,
         \A i \in DOMAIN s : s[i].do = "type" /\ (e.do = "type" => s[i].of # e.of)
  PROVE  LET t == Append(s, e)
             next == TokenStep(m, e)
         IN  /\ e.do = "type" => TokenKnown(t, next)
             /\ e.do = "end" => TokenKnown(t, m)
<1> DEFINE t == Append(s, e)
           next == TokenStep(m, e)
           n == Len(s) + 1
<1>1. /\ t \in Seq(TokenConstructs) /\ Len(t) = n /\ DOMAIN t = 1 .. n /\ DOMAIN s = 1 .. Len(s)
      /\ t[n] = e /\ Len(s) \in Nat /\ t # <<>>
      /\ \A i \in 1 .. Len(s) : t[i] = s[i]
  BY DEF TokenKnown
<1> HIDE DEF t
<1>2. /\ \A i \in DOMAIN s : s[i] \in TokenConstructs /\ s[i].distinct \in Nat /\ s[i].alike \in Nat
                             /\ s[i].implements \in BOOLEAN
      /\ m.detected_canonical_functions_count \in Nat
  BY <1>1, TokenConstructIs DEF TokenKnown
<1>3. ASSUME e.do = "type" PROVE TokenKnown(t, next)
  <2>0. m.impl_token_interface_trait \in BOOLEAN /\ e.implements \in BOOLEAN
    BY <1>3, TokenConstructIs DEF TokenKnown
  <2>1. /\ next.impl_token_interface_trait \in BOOLEAN
        /\ next.impl_token_interface_trait <=> (m.impl_token_interface_trait \/ e.implements)
        /\ next.detected_canonical_functions_count
             = m.detected_canonical_functions_count + e.distinct + e.alike
        /\ e.distinct \in Nat /\ e.alike \in Nat
    BY <1>3, <2>0, TokenConstructIs DEF TokenStep
  <2> HIDE DEF next
  <2>2. next.detected_canonical_functions_count \in Nat
    BY <1>2, <2>1
  <2>3. ASSUME NEW i \in DOMAIN t
        PROVE  /\ next.detected_canonical_functions_count >= t[i].distinct + t[i].alike
               /\ Len(t) = 1 => next.detected_canonical_functions_count = t[i].distinct + t[i].alike
               /\ t[i].implements => next.impl_token_interface_trait
               /\ \A k \in DOMAIN t \ {i} : t[i].of # t[k].of
    <3>1. CASE i = n
      <4>1. Len(t) = 1 => m.detected_canonical_functions_count = 0
        BY <1>1 DEF TokenKnown
      <4>2. \A k \in DOMAIN t \ {i} : t[k].of # e.of
        BY <1>1, <1>3, <3>1
      <4>3. t[i] = e
        BY <1>1, <3>1
      <4>4. e.implements => next.impl_token_interface_trait
        BY <2>1
      <4> QED BY <1>2, <2>1, <4>1, <4>2, <4>3, <4>4
    <3>2. CASE i # n
      <4>1. i \in DOMAIN s /\ t[i] = s[i] /\ Len(t) # 1
        BY <1>1, <3>2
      <4>2. /\ m.detected_canonical_functions_count >= s[i].distinct + s[i].alike
            /\ s[i].implements => m.impl_token_interface_trait
            /\ \A k \in DOMAIN s \ {i} : s[i].of # s[k].of
        BY <4>1 DEF TokenKnown
      <4>3. \A k \in DOMAIN t \ {i} : t[i].of # t[k].of
        BY <1>1, <1>3, <4>1, <4>2
      <4>4. /\ s[i].distinct \in Nat /\ s[i].alike \in Nat
            /\ s[i].implements => next.impl_token_interface_trait
        BY <1>2, <2>1, <4>1, <4>2
      <4> QED BY <1>2, <2>1, <4>1, <4>2, <4>3, <4>4
    <3> QED BY <3>1, <3>2
  <2>4. next.impl_token_interface_trait => \E i \in DOMAIN t : t[i].do = "type" /\ t[i].implements
    <3>1. m.impl_token_interface_trait => \E i \in DOMAIN s : s[i].do = "type" /\ s[i].implements
      BY DEF TokenKnown
    <3>2. n \in DOMAIN t /\ \A i \in DOMAIN s : i \in DOMAIN t /\ t[i] = s[i]
      BY <1>1
    <3> QED BY <1>1, <1>3, <2>1, <3>1, <3>2
  <2> QED BY <1>1, <2>1, <2>2, <2>3, <2>4 DEF TokenKnown
<1>4. ASSUME e.do = "end" PROVE TokenKnown(t, m)
  <2>1. \A i \in DOMAIN t : t[i].do = "type" => Len(t) # 1
    BY <1>1, <1>4
  <2>2. \A i \in DOMAIN t : t[i].do = "type" => i \in DOMAIN s
    BY <1>1, <1>4
  <2> QED BY <1>1, <2>1, <2>2 DEF TokenKnown
<1> QED BY <1>3, <1>4 DEF t

LEMMA ManyTypes ==
  ASSUME NEW s, Len(s) \in Nat, Len(s) >= 2, s[1] # s[2]
  PROVE  Cardinality({s[i] : i \in 1 .. Len(s)}) > 1
<1> DEFINE T == {s[i] : i \in 1 .. Len(s)}
           f == [i \in 1 .. Len(s) |-> s[i]]
<1>1. f \in Surjection(1 .. Len(s), T)
  BY DEF Surjection
<1>2. IsFiniteSet(1 .. Len(s))
  BY FS_Interval
<1>3. IsFiniteSet(T)
  BY <1>1, <1>2, FS_Surjection
<1>4. s[1] \in T /\ s[2] \in T
  OBVIOUS
<1> HIDE DEF T
<1>5. Cardinality(T) \in Nat /\ Cardinality(T) # 0 /\ Cardinality(T) # 1
  BY <1>3, <1>4, FS_CardinalityType, FS_EmptySet, FS_Singleton
<1> QED BY <1>5 DEF T

\* What is concluded at the end of the crate.
LEMMA TokenEnds ==
  ASSUME NEW s, NEW m, TokenKnown(s, m), \A i \in DOMAIN s : s[i].do = "type",
         NEW found, found <=> ~m.impl_token_interface_trait /\ LooksLikeAToken(m)
  PROVE  LET types == {s[i] : i \in 1 .. Len(s)}
             tokens == {t \in types : t.distinct >= 6}
         IN  /\ tokens # {} => found \/ \E t \in types : t.implements
             /\ found => \A t \in tokens : ~t.implements
             /\ found /\ tokens = {} => (\E t \in types : t.alike > 0) \/ Cardinality(types) > 1
<1> DEFINE types == {s[i] : i \in 1 .. Len(s)}
           count == m.detected_canonical_functions_count
<1>1. /\ Len(s) \in Nat /\ DOMAIN s = 1 .. Len(s) /\ count \in Nat
      /\ \A i \in DOMAIN s : s[i] \in TokenConstructs
  BY DEF TokenKnown
<1>2. \A i \in DOMAIN s : s[i].distinct \in Nat /\ s[i].alike \in Nat
  BY <1>1, TokenConstructIs
<1>3. LooksLikeAToken(m) <=> count >= 6
  <2> HIDE DEF count
  <2>1. (count * 100) \div 10 >= 60 <=> count >= 6
    BY <1>1
  <2> QED BY <2>1 DEF LooksLikeAToken, CANONICAL_FUNCTIONS_AMOUNT, INCLUDED_FUNCTIONS_THRESHOLD, count
<1> HIDE DEF count
<1>4. ASSUME NEW i \in DOMAIN s, s[i].distinct >= 6
      PROVE  found \/ \E k \in DOMAIN s : s[k].implements
  <2>1. count >= s[i].distinct + s[i].alike
    BY DEF TokenKnown, count
  <2>2. count >= 6
    BY <1>1, <1>2, <1>4, <2>1
  <2> QED BY <1>3, <2>2 DEF TokenKnown
<1>5. found => \A i \in DOMAIN s : ~s[i].implements
  BY DEF TokenKnown
<1>6. ASSUME found, \A i \in DOMAIN s : ~(s[i].distinct >= 6)
      PROVE  (\E i \in DOMAIN s : s[i].alike > 0) \/ Cardinality(types) > 1
  <2>1. count >= 6
    BY <1>3, <1>6
  <2>2. Len(s) # 0
    BY <1>1, <2>1 DEF TokenKnown, count
  <2>3. CASE Len(s) = 1
    <3>1. 1 \in DOMAIN s /\ count = s[1].distinct + s[1].alike
      BY <1>1, <2>3 DEF TokenKnown, count
    <3> QED BY <1>2, <1>6, <2>1, <3>1
  <2>4. CASE Len(s) # 1
    <3>1. 1 \in DOMAIN s /\ 2 \in DOMAIN s \ {1} /\ Len(s) >= 2
      BY <1>1, <2>2, <2>4
    <3>2. s[1].of # s[2].of
      BY <3>1 DEF TokenKnown
    <3> QED BY <1>1, <3>1, <3>2, ManyTypes
  <2> QED BY <2>3, <2>4
<1>7. \A t : t \in types <=> \E i \in DOMAIN s : t = s[i]
  BY <1>1
<1> HIDE DEF types
<1>8. found /\ (\A t \in types : ~(t.distinct >= 6)) => (\E t \in types : t.alike > 0) \/ Cardinality(types) > 1
  BY <1>6, <1>7
<1>9. (\E t \in types : t.distinct >= 6) => found \/ \E t \in types : t.implements
  BY <1>4, <1>7
<1>10. found => \A t \in types : ~t.implements
  BY <1>5, <1>7
<1> QED BY <1>8, <1>9, <1>10 DEF types

LEMMA TokenFollows ==
  ASSUME TokenInv, NEW e, TokenPass(e)
  PROVE  (lint = "token-interface-inference" => TokenInv)'
<1> DEFINE s == walked
           t == walked'
           n == Len(walked) + 1
           found == e.do = "end" /\ ~memory.impl_token_interface_trait /\ LooksLikeAToken(memory)
<1>1. /\ e \in TokenConstructs /\ t = Append(s, e) /\ memory' = TokenStep(memory, e)
      /\ reported' = reported \cup IF found THEN {n} ELSE {}
      /\ s \in Seq(TokenConstructs) /\ TokenKnown(s, memory)
  BY DEF TokenPass, Pass, Mark, Here, TokenInv, TokenKnown
<1>2. /\ \A i \in DOMAIN s : s[i] \in TokenConstructs /\ s[i].do # "end"
      /\ e.do = "type" => \A i \in DOMAIN s : s[i].of # e.of
  BY <1>1 DEF TokenPass
<1>3. /\ \A i \in DOMAIN s : s[i].do = "type" /\ (e.do = "type" => s[i].of # e.of)
      /\ e.do \in {"type", "end"}
  BY <1>1, <1>2, TokenConstructIs
<1>4. reported = {}
  BY <1>2 DEF TokenInv
<1>5. /\ Len(t) = n /\ n \in Nat \ {0} /\ DOMAIN t = 1 .. n /\ t[n] = e /\ t # <<>>
      /\ n - 1 = Len(s) /\ DOMAIN s = 1 .. Len(s) /\ \A i \in 1 .. Len(s) : t[i] = s[i]
  BY <1>1
<1>6. /\ memory' = [impl_token_interface_trait |-> memory'.impl_token_interface_trait,
                     detected_canonical_functions_count |-> memory'.detected_canonical_functions_count]
      /\ e.do = "end" => memory' = memory
  BY <1>1, <1>3 DEF TokenStep, TokenInv
<1> HIDE DEF s, t, n
<1>7. TokenKnown(t, memory')
  <2>1. /\ e.do = "type" => TokenKnown(Append(s, e), TokenStep(memory, e))
        /\ e.do = "end" => TokenKnown(Append(s, e), memory)
    BY <1>1, <1>3, TokenKnownNext
  <2> QED BY <1>1, <1>3, <1>6, <2>1
<1>8. CASE e.do = "type"
  <2>1. t[Len(t)].do # "end" /\ reported' = {}
    BY <1>1, <1>4, <1>5, <1>8
  <2> QED BY <1>6, <1>7, <2>1 DEF TokenInv, TokensReported, t
<1>9. CASE e.do = "end"
  <2> DEFINE types == {s[i] : i \in 1 .. Len(s)}
             tokens == {u \in types : u.distinct >= 6}
  <2>1. /\ tokens # {} => found \/ \E u \in types : u.implements
        /\ found => \A u \in tokens : ~u.implements
        /\ found /\ tokens = {} => (\E u \in types : u.alike > 0) \/ Cardinality(types) > 1
    <3>1. found <=> ~memory.impl_token_interface_trait /\ LooksLikeAToken(memory)
      BY <1>9
    <3> HIDE DEF found
    <3> QED BY <1>1, <1>3, <3>1, TokenEnds
  <2>2. {t[i] : i \in 1 .. Len(t) - 1} = types
    BY <1>5
  <2>3. reported' # {} <=> found
    BY <1>1, <1>4
  <2> HIDE DEF types, found
  <2>4. TokensReported'
    BY <2>1, <2>2, <2>3 DEF TokensReported, t
  <2>5. ~\A i \in DOMAIN t : t[i].do # "end"
    BY <1>5, <1>9
  <2> QED BY <1>6, <1>7, <2>4, <2>5 DEF TokenInv, t
<1> QED BY <1>3, <1>8, <1>9

LEMMA TokenInvariant ==
  Follows({"token-interface-inference"}, TokenStart, VisitToken)
    => [](lint \in {"token-interface-inference"} => TokenInv)
<1>1. (lint \in {"token-interface-inference"} => Begin(TokenStart))
      => (lint \in {"token-interface-inference"} => TokenInv)
  <2> SUFFICES ASSUME Begin(TokenStart) PROVE TokenInv
    OBVIOUS
  <2>1. /\ walked = <<>> /\ reported = {} /\ DOMAIN walked = {} /\ walked \in Seq(TokenConstructs)
        /\ memory = [impl_token_interface_trait |-> FALSE, detected_canonical_functions_count |-> 0]
    BY DEF Begin, TokenStart
  <2>2. memory.impl_token_interface_trait = FALSE /\ memory.detected_canonical_functions_count = 0
    BY <2>1
  <2>3. TokenKnown(walked, memory)
    BY <2>1, <2>2 DEF TokenKnown
  <2> QED BY <2>1, <2>2, <2>3 DEF TokenInv, TokensReported
<1>2. /\ lint \in {"token-interface-inference"} => TokenInv
      /\ [IF lint \in {"token-interface-inference"} THEN VisitToken ELSE UNCHANGED lint]_walk
      => (lint \in {"token-interface-inference"} => TokenInv)'
  <2> SUFFICES ASSUME lint = "token-interface-inference" => TokenInv,
                      [IF lint \in {"token-interface-inference"} THEN VisitToken ELSE UNCHANGED lint]_walk,
                      lint' = "token-interface-inference"
               PROVE  TokenInv'
    OBVIOUS
  <2>1. VisitToken => lint' = lint
    BY DEF VisitToken, Pass
  <2>2. TokenInv /\ (VisitToken \/ UNCHANGED walk)
    BY <2>1 DEF walk
  <2>3. CASE VisitToken
    BY <2>2, <2>3, VisitTokenIs, TokenFollows
  <2>4. CASE UNCHANGED walk
    BY <2>2, <2>4 DEF TokenInv, TokensReported, walk
  <2> QED BY <2>2, <2>3, <2>4
<1> QED BY <1>1, <1>2, PTL DEF Follows

-----------------------------------------------------------------------------
(* The constructs around a position.                                          *)

EncOf(s, i) == {n \in 1 .. i - 1 : s[n].do \in Opening /\ Scoped(s, n, i)}

ParentOf(s, i) == IF EncOf(s, i) = {} THEN 0
                  ELSE CHOOSE n \in EncOf(s, i) : \A k \in EncOf(s, i) : k <= n

StandOf(s, i) == IF ParentOf(s, i) = 0 THEN "" ELSE s[ParentOf(s, i)].do

SourceBody(s) == /\ s \in Seq(SourceConstructs)
                 /\ \A i \in DOMAIN s : StandOf(s, i) \in Within(s[i].do)

LEMMA EnclosingIs ==
  \A i : /\ Enclosing(i) = EncOf(walked, i) /\ Parent(i) = ParentOf(walked, i)
         /\ StandsIn(i) = StandOf(walked, i)
<1> SUFFICES ASSUME NEW i
             PROVE  /\ Enclosing(i) = EncOf(walked, i) /\ Parent(i) = ParentOf(walked, i)
                    /\ StandsIn(i) = StandOf(walked, i)
  OBVIOUS
<1>1. Enclosing(i) = EncOf(walked, i)
  BY DepthIs DEF Enclosing, EncOf
<1>2. Parent(i) = ParentOf(walked, i)
  BY <1>1 DEF Parent, ParentOf
<1> QED BY <1>1, <1>2 DEF StandsIn, StandOf

\* A set of numbers has a least one, and with a bound a greatest one.
LEMMA LeastIs ==
  ASSUME NEW S, S \subseteq Nat, S # {}
  PROVE  \E x \in S : \A y \in S : x <= y
<1> DEFINE R == OpToRel(<, Nat)
<1>1. IsWellFoundedOn(R, Nat)
  BY NatLessThanWellFounded
<1>2. \A x, y \in Nat : x < y => <<x, y>> \in R
  BY DEF OpToRel
<1> HIDE DEF R
<1>3. PICK x \in S : \A y \in S : ~(<<y, x>> \in R)
  BY <1>1, WFMin
<1>4. ASSUME NEW y \in S PROVE x <= y
  <2>1. x \in Nat /\ y \in Nat /\ ~(<<y, x>> \in R)
    BY <1>3
  <2>2. ~(y < x)
    BY <1>2, <2>1
  <2> QED BY <2>1, <2>2
<1> QED BY <1>4

LEMMA GreatestIs ==
  ASSUME NEW n \in Nat, NEW S, S \subseteq 1 .. n, S # {}
  PROVE  \E x \in S : \A y \in S : y <= x
<1> DEFINE T == {n - x : x \in S}
<1>1. T \subseteq Nat
  OBVIOUS
<1>0. T # {}
  OBVIOUS
<1> HIDE DEF T
<1>2. PICK d \in T : \A c \in T : d <= c
  BY <1>0, <1>1, LeastIs
<1> USE DEF T
<1>3. PICK x \in S : d = n - x
  OBVIOUS
<1>4. \A y \in S : n - x <= n - y
  BY <1>2, <1>3
<1> QED BY <1>3, <1>4

LEMMA ParentIs ==
  ASSUME NEW s, NEW i \in Nat \ {0}
  PROVE  IF EncOf(s, i) = {} THEN ParentOf(s, i) = 0
         ELSE ParentOf(s, i) \in EncOf(s, i) /\ \A k \in EncOf(s, i) : k <= ParentOf(s, i)
<1>1. CASE EncOf(s, i) = {}
  BY <1>1 DEF ParentOf
<1>2. CASE EncOf(s, i) # {}
  <2>1. \E n \in EncOf(s, i) : \A k \in EncOf(s, i) : k <= n
    <3>1. i - 1 \in Nat /\ EncOf(s, i) \subseteq 1 .. i - 1
      BY DEF EncOf
    <3> QED BY <1>2, <3>1, GreatestIs
  <2> QED BY <1>2, <2>1 DEF ParentOf
<1> QED BY <1>1, <1>2

LEMMA EncAppend ==
  ASSUME NEW E, NEW s \in Seq(E), NEW e, NEW i \in 1 .. Len(s) + 1
  PROVE  /\ EncOf(Append(s, e), i) = EncOf(s, i) /\ ParentOf(Append(s, e), i) = ParentOf(s, i)
         /\ StandOf(Append(s, e), i) = StandOf(s, i)
<1> DEFINE t == Append(s, e)
<1>1. \A n \in 1 .. Len(s) : t[n] = s[n]
  OBVIOUS
<1>2. \A n \in Nat : Scoped(t, n, i) <=> Scoped(s, n, i)
  BY ScopedAppend
<1>3. EncOf(t, i) = EncOf(s, i)
  <2> HIDE DEF t
  <2> QED BY <1>1, <1>2 DEF EncOf
<1> HIDE DEF t
<1>4. ParentOf(t, i) = ParentOf(s, i)
  BY <1>3 DEF ParentOf
<1>5. ParentOf(s, i) # 0 => ParentOf(s, i) \in 1 .. Len(s)
  <2>1. i \in Nat \ {0} /\ i - 1 <= Len(s) /\ Len(s) \in Nat
    OBVIOUS
  <2>2. ParentOf(s, i) # 0 => ParentOf(s, i) \in 1 .. i - 1
    BY <2>1, ParentIs DEF EncOf
  <2> QED BY <2>1, <2>2
<1>6. StandOf(t, i) = StandOf(s, i)
  BY <1>1, <1>4, <1>5 DEF StandOf
<1> QED BY <1>3, <1>4, <1>6 DEF t

\* What encloses is itself enclosed.
LEMMA EncInside ==
  ASSUME NEW s, NEW i \in Nat, NEW k \in EncOf(s, i)
  PROVE  /\ k \in 1 .. i - 1 /\ s[k].do \in Opening
         /\ EncOf(s, k) = {n \in EncOf(s, i) : n < k}
<1>1. k \in 1 .. i - 1 /\ s[k].do \in Opening /\ Scoped(s, k, i) /\ s[k].do # "close"
  BY DEF EncOf, Opening
<1>2. ASSUME NEW n \in EncOf(s, i), n < k PROVE n \in EncOf(s, k)
  BY <1>1, <1>2 DEF EncOf, Scoped
<1>3. ASSUME NEW n \in EncOf(s, k) PROVE n \in EncOf(s, i) /\ n < k
  <2>1. n \in 1 .. k - 1 /\ s[n].do \in Opening /\ Scoped(s, n, k)
    BY DEF EncOf
  <2>2. Scoped(s, n, i)
    BY <1>1, <2>1, ScopedInside
  <2> QED BY <1>1, <2>1, <2>2 DEF EncOf
<1> QED BY <1>1, <1>2, <1>3

LEMMA SourceAppend ==
  ASSUME NEW s, SourceBody(s), NEW e \in SourceConstructs, StandOf(s, Len(s) + 1) \in Within(e.do)
  PROVE  SourceBody(Append(s, e))
<1> DEFINE t == Append(s, e)
<1>1. /\ s \in Seq(SourceConstructs) /\ Len(s) \in Nat
      /\ t \in Seq(SourceConstructs) /\ DOMAIN t = 1 .. Len(s) + 1 /\ DOMAIN s = 1 .. Len(s)
      /\ t[Len(s) + 1] = e /\ \A i \in DOMAIN s : t[i] = s[i]
  BY DEF SourceBody
<1>2. \A i \in 1 .. Len(s) + 1 : StandOf(t, i) = StandOf(s, i)
  BY <1>1, EncAppend
<1> HIDE DEF t
<1>3. \A i \in DOMAIN s : StandOf(s, i) \in Within(s[i].do)
  BY DEF SourceBody
<1>4. ASSUME NEW i \in DOMAIN t PROVE StandOf(t, i) \in Within(t[i].do)
  <2>1. i \in DOMAIN s \/ i = Len(s) + 1
    BY <1>1
  <2> QED BY <1>1, <1>2, <1>3, <2>1
<1> QED BY <1>1, <1>4 DEF SourceBody, t

LEMMA WithinIs ==
  /\ \A do \in Items : Within(do) = {"", "mod"}
  /\ Within("method") = {"impl"} /\ \A do \in Macros : Within(do) = {"fn", "method"}
  /\ Items \cup {"method"} \subseteq Opening /\ "" \notin Opening
BY DEF Within, Items, Macros, Opening

LEMMA SourceConstructIs ==
  ASSUME NEW e \in SourceConstructs
  PROVE  /\ e.do \in Items \cup {"method", "macro", "statement", "close", "end"}
         /\ e.do \in Opening => e.do \in Items \cup {"method"}
         /\ e.result \in BOOLEAN /\ (e.result => e.do \in {"fn", "method"})
         /\ e.attr \in Attributes
<1> DEFINE A == [do : {"mod", "impl"}, attr : Attributes, result : {FALSE}]
           B == [do : {"fn", "method"}, attr : Attributes, result : BOOLEAN]
           C == [do : {"macro", "statement", "close", "end"}, attr : {""}, result : {FALSE}]
<1>1. e \in A \/ e \in B \/ e \in C
  BY DEF SourceConstructs
<1>2. "" \in Attributes
  BY DEF Attributes
<1>3. CASE e \in A
  BY <1>3 DEF Items
<1>4. CASE e \in B
  BY <1>4 DEF Items
<1>5. CASE e \in C
  BY <1>2, <1>5 DEF Opening
<1> QED BY <1>1, <1>3, <1>4, <1>5

\* Items stand in modules.
LEMMA ItemsInModules ==
  ASSUME NEW s, SourceBody(s), NEW i \in DOMAIN s, s[i].do \in Items
  PROVE  \A n \in EncOf(s, i) : s[n].do = "mod"
<1> DEFINE S == {k \in DOMAIN s : s[k].do \in Items /\ \E n \in EncOf(s, k) : s[n].do # "mod"}
<1>1. DOMAIN s = 1 .. Len(s) /\ Len(s) \in Nat
  BY DEF SourceBody
<1>2. ASSUME S # {} PROVE FALSE
  <2>1. S \subseteq Nat
    BY <1>1
  <2> HIDE DEF S
  <2>2. PICK k \in S : \A j \in S : k <= j
    BY <1>2, <2>1, LeastIs
  <2>3. /\ k \in DOMAIN s /\ s[k].do \in Items
    BY DEF S
  <2>4. PICK n \in EncOf(s, k) : s[n].do # "mod"
    BY DEF S
  <2> DEFINE p == ParentOf(s, k)
  <2>5. p \in EncOf(s, k) /\ n <= p /\ k \in Nat \ {0}
    BY <1>1, <2>3, <2>4, ParentIs
  <2>6. p \in 1 .. k - 1 /\ s[p].do \in Opening /\ EncOf(s, p) = {m \in EncOf(s, k) : m < p}
    BY <2>5, EncInside
  <2>7. s[p].do = "mod"
    <3>1. StandOf(s, k) \in {"", "mod"}
      BY <2>3, WithinIs DEF SourceBody
    <3>2. StandOf(s, k) = s[p].do
      <4>1. p # 0
        BY <2>6
      <4> QED BY <4>1 DEF StandOf
    <3> QED BY <2>6, <3>1, <3>2, WithinIs
  <2>8. n # p /\ n \in EncOf(s, p)
    BY <2>4, <2>5, <2>6, <2>7 DEF EncOf
  <2>9. p \in DOMAIN s /\ p < k
    BY <1>1, <2>3, <2>6
  <2>10. p \in S
    BY <2>4, <2>7, <2>8, <2>9 DEF S, Items
  <2> QED BY <1>1, <2>2, <2>3, <2>9, <2>10
<1> QED BY <1>2

\* A method stands in its impl, which is an item.
LEMMA MethodsInImpls ==
  ASSUME NEW s, SourceBody(s), NEW i \in DOMAIN s, s[i].do = "method"
  PROVE  LET p == ParentOf(s, i)
         IN  /\ p \in DOMAIN s /\ p < i /\ s[p].do = "impl" /\ p \in EncOf(s, i)
             /\ EncOf(s, i) = EncOf(s, p) \cup {p}
<1> DEFINE p == ParentOf(s, i)
<1>1. i \in Nat \ {0} /\ DOMAIN s = 1 .. Len(s) /\ Len(s) \in Nat
  BY DEF SourceBody
<1>2. StandOf(s, i) = "impl"
  BY WithinIs DEF SourceBody
<1>3. p \in EncOf(s, i) /\ (\A k \in EncOf(s, i) : k <= p) /\ s[p].do = "impl"
  BY <1>1, <1>2, ParentIs DEF StandOf
<1>4. p \in 1 .. i - 1 /\ EncOf(s, p) = {n \in EncOf(s, i) : n < p}
  BY <1>1, <1>3, EncInside
<1>5. \A n \in EncOf(s, i) : n \in Nat
  BY DEF EncOf
<1> HIDE DEF p
<1>6. EncOf(s, i) = EncOf(s, p) \cup {p}
  <2>1. p \in Nat /\ \A n \in EncOf(s, i) : n = p \/ n < p
    BY <1>3, <1>4, <1>5
  <2> QED BY <1>3, <1>4, <2>1
<1> QED BY <1>1, <1>3, <1>4, <1>6 DEF p

\* Nothing with a body stands in a function.
LEMMA FunctionsAreInner ==
  ASSUME NEW s, SourceBody(s), NEW k \in DOMAIN s, s[k].do \in Opening,
         NEW n \in EncOf(s, k)
  PROVE  s[n].do \in {"mod", "impl"}
<1>1. s[k].do \in Items \cup {"method"}
  BY SourceConstructIs DEF SourceBody
<1>2. CASE s[k].do \in Items
  BY <1>2, ItemsInModules
<1>3. CASE s[k].do = "method"
  <2> DEFINE p == ParentOf(s, k)
  <2>1. p \in DOMAIN s /\ s[p].do = "impl" /\ EncOf(s, k) = EncOf(s, p) \cup {p}
    BY <1>3, MethodsInImpls
  <2>2. n = p \/ n \in EncOf(s, p)
    BY <2>1
  <2>3. \A j \in EncOf(s, p) : s[j].do = "mod"
    BY <2>1, ItemsInModules DEF Items
  <2> QED BY <2>1, <2>2, <2>3
<1> QED BY <1>1, <1>2, <1>3

-----------------------------------------------------------------------------
TestItem(s, n) == n \in DOMAIN s /\ s[n].do \in Items /\ IsTestItem(s[n])

\* The tests that the detectors of a macro have come to, and what they reported.
MacroInv ==
  /\ walked \in Seq(SourceConstructs)
  /\ memory = [test_spans |-> {n \in DOMAIN walked : TestItem(walked, n)}]
  /\ reported = {i \in DOMAIN walked : /\ walked[i].do \in Macros
                                       /\ ~\E n \in EncOf(walked, i) : TestItem(walked, n)}

LEMMA TestItemIs ==
  ASSUME NEW s, NEW n, TestItem(s, n)
  PROVE  n \in DOMAIN s /\ s[n].do \in Items /\ s[n].do \in Opening /\ s[n].attr \in {"test", "cfg_attr"}
BY WithinIs DEF TestItem, IsTestItem

SourcePass(e) ==
  /\ e \in SourceConstructs /\ ~WholeCrate
  /\ StandsIn(Here) \in Within(e.do)
  /\ IF lint \in MacroLints THEN Pass(e, CheckItem(memory, e), CheckMac(memory, e))
     ELSE Pass(e, memory, {})

LEMMA VisitSourceIs == VisitSource => \E e : SourcePass(e)
BY DEF VisitSource, SourcePass

LEMMA MacroFollows ==
  ASSUME MacroInv, lint \in MacroLints, NEW e, SourcePass(e)
  PROVE  MacroInv'
<1> DEFINE s == walked
           t == walked'
           n == Len(walked) + 1
           tests(q) == {k \in DOMAIN q : TestItem(q, k)}
           found(q) == {i \in DOMAIN q : q[i].do \in Macros /\ ~\E k \in EncOf(q, i) : TestItem(q, k)}
<1>1. /\ e \in SourceConstructs /\ t = Append(s, e)
      /\ memory' = CheckItem(memory, e) /\ reported' = reported \cup CheckMac(memory, e)
  BY DEF SourcePass, Pass
<1>2. /\ s \in Seq(SourceConstructs) /\ memory = [test_spans |-> tests(s)] /\ reported = found(s)
  BY DEF MacroInv
<1>3. /\ t \in Seq(SourceConstructs) /\ DOMAIN s = 1 .. n - 1 /\ DOMAIN t = 1 .. n /\ n \in Nat \ {0}
      /\ t[n] = e /\ \A i \in DOMAIN s : t[i] = s[i]
  BY <1>1, <1>2
<1>4. \A i \in 1 .. n : EncOf(t, i) = EncOf(s, i)
  BY <1>1, <1>2, EncAppend
<1>5. \A i \in 1 .. n : \A k \in EncOf(s, i) : k \in DOMAIN s
  BY <1>3 DEF EncOf
<1>6. memory'.test_spans = tests(s) \cup (IF e.do \in Items /\ IsTestItem(e) THEN {n} ELSE {})
      /\ memory' = [test_spans |-> memory'.test_spans]
  BY <1>1, <1>2 DEF CheckItem, Here
<1>7. CheckMac(memory, e) = IF e.do \in Macros /\ ~IsWithinTest(memory) THEN {n} ELSE {}
  BY DEF CheckMac, Mark, Here
<1> HIDE DEF s, t, n
<1>8. tests(t) = tests(s) \cup (IF e.do \in Items /\ IsTestItem(e) THEN {n} ELSE {})
  BY <1>3 DEF TestItem
<1>9. IsWithinTest(memory) <=> \E k \in EncOf(s, n) : TestItem(s, k)
  <2>1. IsWithinTest(memory) <=> \E k \in tests(s) : Scoped(s, k, n)
    BY <1>2, DepthIs DEF IsWithinTest, Here, s, n
  <2>2. \A k : k \in tests(s) => k \in 1 .. n - 1 /\ s[k].do \in Opening
    BY <1>3, TestItemIs
  <2>3. \A k : TestItem(s, k) => k \in tests(s)
    BY DEF TestItem
  <2> QED BY <2>1, <2>2, <2>3 DEF EncOf
<1>10. \A i : i \in found(t) <=> i \in found(s) \cup CheckMac(memory, e)
  <2>1. \A i \in DOMAIN s : i \in found(t) <=> i \in found(s)
    BY <1>3, <1>4, <1>5 DEF TestItem
  <2>2. n \in found(t) <=> e.do \in Macros /\ ~IsWithinTest(memory)
    BY <1>3, <1>4, <1>5, <1>9 DEF TestItem
  <2>3. n \notin DOMAIN s /\ \A i \in DOMAIN t : i \in DOMAIN s \/ i = n
    BY <1>3
  <2>4. DOMAIN s \subseteq DOMAIN t
    BY <1>3
  <2> QED BY <1>7, <2>1, <2>2, <2>3, <2>4
<1>11. memory' = [test_spans |-> tests(t)] /\ reported' = found(t)
  BY <1>1, <1>2, <1>6, <1>8, <1>10
<1> QED BY <1>3, <1>11 DEF MacroInv, t

LEMMA MacroIsReported == MacroInv /\ lint \in MacroLints => TestsToldApart
<1> SUFFICES ASSUME MacroInv, lint \in MacroLints,
                    NEW i \in DOMAIN walked, walked[i].do \in Macros
             PROVE  /\ ~OnlyInTests(i) /\ i \notin reported =>
                         \E n \in Enclosing(i) : walked[n].attr = "cfg_attr"
                    /\ OnlyInTests(i) /\ i \in reported =>
                         \A n \in Enclosing(i) : walked[n].do # "method" => walked[n].attr # "test"
  BY DEF TestsToldApart
<1> DEFINE s == walked
<1>1. /\ Enclosing(i) = EncOf(s, i) /\ DOMAIN s = 1 .. Len(s) /\ Len(s) \in Nat /\ s \in Seq(SourceConstructs)
  BY EnclosingIs DEF MacroInv
<1>2. i \in reported <=> ~\E n \in EncOf(s, i) : TestItem(s, n)
  BY DEF MacroInv
<1>3. OnlyInTests(i) <=> \E n \in EncOf(s, i) : s[n].attr \in {"test", "all"}
  BY <1>1 DEF OnlyInTests
<1>4. ASSUME ~OnlyInTests(i), i \notin reported PROVE \E n \in EncOf(s, i) : s[n].attr = "cfg_attr"
  BY <1>2, <1>3, <1>4, TestItemIs
<1>5. ASSUME i \in reported, NEW n \in EncOf(s, i), s[n].do # "method" PROVE s[n].attr # "test"
  <2>1. n \in DOMAIN s /\ s[n].do \in Opening /\ ~TestItem(s, n)
    BY <1>1, <1>2, <1>5 DEF EncOf
  <2>2. s[n].do \in Items
    BY <1>1, <1>5, <2>1, SourceConstructIs
  <2> QED BY <2>1, <2>2 DEF TestItem, IsTestItem
<1> QED BY <1>1, <1>4, <1>5

LEMMA MacroInvariant == Follows(MacroLints, MacroStart, VisitSource) => [](lint \in MacroLints => MacroInv)
<1>1. (lint \in MacroLints => Begin(MacroStart)) => (lint \in MacroLints => MacroInv)
  <2> SUFFICES ASSUME Begin(MacroStart) PROVE MacroInv
    OBVIOUS
  <2>1. /\ walked = <<>> /\ reported = {} /\ DOMAIN walked = {} /\ walked \in Seq(SourceConstructs)
        /\ memory = [test_spans |-> {}]
    BY DEF Begin, MacroStart
  <2> QED BY <2>1 DEF MacroInv
<1>2. /\ lint \in MacroLints => MacroInv
      /\ [IF lint \in MacroLints THEN VisitSource ELSE UNCHANGED lint]_walk
      => (lint \in MacroLints => MacroInv)'
  <2> SUFFICES ASSUME lint \in MacroLints => MacroInv,
                      [IF lint \in MacroLints THEN VisitSource ELSE UNCHANGED lint]_walk,
                      lint' \in MacroLints
               PROVE  MacroInv'
    BY DEF MacroLints
  <2>1. VisitSource => lint' = lint
    BY DEF VisitSource, Pass
  <2>2. MacroInv /\ lint \in MacroLints /\ (VisitSource \/ UNCHANGED walk)
    BY <2>1 DEF walk
  <2>3. CASE VisitSource
    BY <2>2, <2>3, VisitSourceIs, MacroFollows
  <2>4. CASE UNCHANGED walk
    BY <2>2, <2>4 DEF MacroInv, walk
  <2> QED BY <2>2, <2>3, <2>4
<1> QED BY <1>1, <1>2, PTL DEF Follows

-----------------------------------------------------------------------------
(* avoid-panic-error, which remembers one test at a time.                     *)

ChildrenOf(s, x) == {i \in DOMAIN s : s[i].do \in Items \cup {"method"} /\ ParentOf(s, i) = x}

\* The functions that are looked into with the item x, and the macros in the function f.
LookedInto(s, x) == IF s[x].do = "fn" THEN {x} ELSE ChildrenOf(s, x)

PanicsIn(s, f) == {i \in f .. Len(s) : s[f].result /\ s[i].do = "macro" /\ Scoped(s, f, i)}

PanicMemory(s) == [in_test_span : {0} \cup {n \in DOMAIN s : TestItem(s, n)},
                   visited : 0 .. Len(s), called : SUBSET DOMAIN s]

\* A test around the last item that the compiler came to is remembered, or it was
\* forgotten for another one within it.
TestsRemembered(s, m) ==
  \A n \in DOMAIN s : TestItem(s, n) /\ n <= m.visited /\ Scoped(s, n, m.visited) =>
    \/ m.called = {} /\ m.in_test_span = n
    \/ \E k \in DOMAIN s : TestItem(s, k) /\ n < k /\ k <= m.visited /\ Scoped(s, n, k)

\* The items that are still to be called are in no test but those around that item.
CalledInside(s, m) ==
  \A x \in m.called : /\ s[x].do \in Items /\ m.visited < x
                      /\ \A n \in EncOf(s, x) : TestItem(s, n) => n <= m.visited

InTests(s, x) == TestItem(s, x) \/ \E n \in EncOf(s, x) : TestItem(s, n)

\* Each function that the compiler came to is looked into, or is in a test.
AllExamined(s, m, r) ==
  \A x \in DOMAIN s : x <= m.visited /\ s[x].do \in {"fn", "impl"} =>
    InTests(s, x) \/ \A f \in LookedInto(s, x) : PanicsIn(s, f) \subseteq r

\* A test around x was forgotten for one within it that x is not in.
Forgotten(s, x) ==
  \A n \in EncOf(s, x) : TestItem(s, n) =>
    \E k \in DOMAIN s : TestItem(s, k) /\ k < x /\ n \in EncOf(s, k) /\ ~Scoped(s, k, x)

ReportedOf(s, r) ==
  \A i \in r : \E x \in DOMAIN s : /\ s[x].do \in {"fn", "impl"} /\ ~TestItem(s, x) /\ Forgotten(s, x)
                                   /\ \E f \in LookedInto(s, x) : i \in PanicsIn(s, f)

PanicKnown(s, m, r) ==
  /\ SourceBody(s) /\ m \in PanicMemory(s)
  /\ TestsRemembered(s, m) /\ CalledInside(s, m) /\ AllExamined(s, m, r) /\ ReportedOf(s, r)

PanicInv == /\ PanicKnown(walked, memory, reported)
            /\ ~WholeCrate => memory = PanicStart /\ reported = {}

LEMMA PanicStarts == ASSUME NEW s, SourceBody(s) PROVE PanicKnown(s, PanicStart, {})
<1>1. DOMAIN s = 1 .. Len(s) /\ Len(s) \in Nat
  BY DEF SourceBody
<1>2. PanicStart.in_test_span = 0 /\ PanicStart.visited = 0 /\ PanicStart.called = {}
  BY DEF PanicStart
<1>3. PanicStart \in PanicMemory(s)
  BY <1>1 DEF PanicStart, PanicMemory
<1>4. \A x \in DOMAIN s : ~(x <= PanicStart.visited)
  BY <1>1, <1>2
<1> QED BY <1>2, <1>3, <1>4 DEF PanicKnown, TestsRemembered, CalledInside, AllExamined, ReportedOf

\* What is checked when the item n is.
PanicStep(s, m, n, next, found) ==
  LET inside == m.in_test_span \in 1 .. n /\ Scoped(s, m.in_test_span, n)
      passed == TestItem(s, n) \/ inside
      children == IF s[n].do = "mod" /\ ~passed THEN ChildrenOf(s, n) ELSE {}
  IN  /\ n \in DOMAIN s /\ s[n].do \in Items
      /\ IF m.called # {} THEN n \in m.called
         ELSE n > m.visited /\ \A k \in DOMAIN s : s[k].do \in Items /\ k > m.visited => n <= k
      /\ next.in_test_span = IF TestItem(s, n) THEN n ELSE IF inside THEN m.in_test_span ELSE 0
      /\ next.visited = IF m.called = {} THEN n ELSE m.visited
      /\ next.called = (m.called \ {n}) \cup children
      /\ next = [in_test_span |-> next.in_test_span, visited |-> next.visited, called |-> next.called]
      /\ \A i : i \in found <=> /\ ~passed /\ s[n].do # "mod"
                                /\ \E f \in LookedInto(s, n) : i \in PanicsIn(s, f)

LEMMA CheckNextIs ==
  ASSUME CheckNext, PanicKnown(walked, memory, reported)
  PROVE  \E n, found : PanicStep(walked, memory, n, memory', found) /\ reported' = reported \cup found
<1> DEFINE s == walked
<1>1. PICK n \in ItemsLeft(memory) : /\ \A k \in ItemsLeft(memory) : n <= k
                                     /\ memory' = CheckOne(memory, n)
                                     /\ reported' = reported \cup UNION {CheckFunction(f) : f \in Examined(memory, n)}
  BY DEF CheckNext
<1>2. /\ s \in Seq(SourceConstructs) /\ DOMAIN s = 1 .. Len(s) /\ memory \in PanicMemory(s)
      /\ CalledInside(s, memory)
  BY DEF PanicKnown, SourceBody
<1>3. /\ n \in DOMAIN s /\ s[n].do \in Items
      /\ IF memory.called # {} THEN n \in memory.called
         ELSE n > memory.visited /\ \A k \in DOMAIN s : s[k].do \in Items /\ k > memory.visited => n <= k
  BY <1>1, <1>2 DEF ItemsLeft, CalledInside, PanicMemory
<1>4. TestItem(s, n) <=> IsTestItem(walked[n])
  BY <1>3 DEF TestItem
<1>5. InTestSpan(memory, n) <=> memory.in_test_span \in 1 .. n /\ Scoped(s, memory.in_test_span, n)
  BY DepthIs DEF InTestSpan
<1>6. PassedOver(memory, n) <=> TestItem(s, n) \/ InTestSpan(memory, n)
  BY <1>4 DEF PassedOver
<1>7. Children(n) = ChildrenOf(s, n)
  BY EnclosingIs DEF Children, ChildrenOf
<1>8. \A f : CheckFunction(f) = PanicsIn(s, f)
  BY DepthIs DEF CheckFunction, PanicsIn
<1> DEFINE found == UNION {CheckFunction(f) : f \in Examined(memory, n)}
<1>9. \A i : i \in found <=> /\ ~PassedOver(memory, n) /\ s[n].do # "mod"
                             /\ \E f \in LookedInto(s, n) : i \in PanicsIn(s, f)
  BY <1>7, <1>8 DEF Examined, LookedInto
<1>10. /\ memory'.in_test_span = IF TestItem(s, n) THEN n
                                 ELSE IF InTestSpan(memory, n) THEN memory.in_test_span ELSE 0
       /\ memory'.visited = IF memory.called = {} THEN n ELSE memory.visited
       /\ memory'.called = (memory.called \ {n})
                             \cup IF s[n].do = "mod" /\ ~PassedOver(memory, n) THEN ChildrenOf(s, n) ELSE {}
       /\ memory' = [in_test_span |-> memory'.in_test_span, visited |-> memory'.visited,
                     called |-> memory'.called]
  BY <1>1, <1>4, <1>7 DEF CheckOne
<1> HIDE DEF found
<1>11. PanicStep(walked, memory, n, memory', found)
  BY <1>3, <1>5, <1>6, <1>9, <1>10 DEF PanicStep
<1> QED BY <1>1, <1>11 DEF found

LEMMA ChildIs ==
  ASSUME NEW s, SourceBody(s), NEW y \in DOMAIN s, s[y].do = "mod", NEW x \in ChildrenOf(s, y)
  PROVE  /\ x \in DOMAIN s /\ s[x].do \in Items /\ y < x /\ y \in EncOf(s, x)
         /\ \A n \in EncOf(s, x) : n <= y
<1>1. x \in DOMAIN s /\ s[x].do \in Items \cup {"method"} /\ ParentOf(s, x) = y
  BY DEF ChildrenOf
<1>2. DOMAIN s = 1 .. Len(s) /\ Len(s) \in Nat /\ x \in Nat \ {0} /\ y \in Nat \ {0}
  BY <1>1 DEF SourceBody
<1>3. y \in EncOf(s, x) /\ \A n \in EncOf(s, x) : n <= y
  BY <1>1, <1>2, ParentIs
<1>4. y < x
  BY <1>2, <1>3 DEF EncOf
<1>5. s[x].do # "method"
  BY <1>1, MethodsInImpls
<1> QED BY <1>1, <1>3, <1>4, <1>5

LEMMA PanicKnownNext ==
  ASSUME NEW s, NEW m, NEW r, PanicKnown(s, m, r),
         NEW y, NEW next, NEW found, PanicStep(s, m, y, next, found)
  PROVE  PanicKnown(s, next, r \cup found)
<1> DEFINE V == m.visited
           T == m.in_test_span
           inside == T \in 1 .. y /\ Scoped(s, T, y)
           passed == TestItem(s, y) \/ inside
           children == IF s[y].do = "mod" /\ ~passed THEN ChildrenOf(s, y) ELSE {}
<1>1. /\ SourceBody(s) /\ DOMAIN s = 1 .. Len(s) /\ Len(s) \in Nat
      /\ V \in 0 .. Len(s) /\ (T = 0 \/ (T \in DOMAIN s /\ TestItem(s, T))) /\ m.called \subseteq DOMAIN s
      /\ TestsRemembered(s, m) /\ CalledInside(s, m) /\ AllExamined(s, m, r) /\ ReportedOf(s, r)
  BY DEF PanicKnown, PanicMemory, SourceBody
<1>2. /\ y \in DOMAIN s /\ s[y].do \in Items /\ s[y].do \in Opening
      /\ m.called # {} => y \in m.called
      /\ m.called = {} => y > V /\ \A k \in DOMAIN s : s[k].do \in Items /\ k > V => y <= k
      /\ next.in_test_span = IF TestItem(s, y) THEN y ELSE IF inside THEN T ELSE 0
      /\ next.visited = IF m.called = {} THEN y ELSE V
      /\ next.called = (m.called \ {y}) \cup children
      /\ next = [in_test_span |-> next.in_test_span, visited |-> next.visited, called |-> next.called]
      /\ \A i : i \in found <=> /\ ~passed /\ s[y].do # "mod"
                                /\ \E f \in LookedInto(s, y) : i \in PanicsIn(s, f)
  BY WithinIs DEF PanicStep
<1> HIDE DEF V, T
<1>3. V < y /\ y \in Nat /\ V \in Nat
  BY <1>1, <1>2 DEF CalledInside, V
<1>4. ASSUME NEW n \in EncOf(s, y), TestItem(s, n)
      PROVE  /\ n \in DOMAIN s /\ n <= V /\ n < y /\ Scoped(s, n, y)
             /\ \/ m.called = {} /\ T = n
                \/ \E k \in DOMAIN s : TestItem(s, k) /\ n < k /\ k <= V /\ Scoped(s, n, k)
  <2>1. n \in DOMAIN s /\ n < y /\ n \in Nat /\ Scoped(s, n, y) /\ s[n].do \in Items
    BY <1>1, <1>2, <1>4 DEF EncOf, TestItem
  <2>2. n <= V
    <3>1. CASE m.called = {}
      BY <1>1, <1>2, <1>3, <2>1, <3>1
    <3>2. CASE m.called # {}
      BY <1>1, <1>2, <1>4, <3>2 DEF CalledInside, V
    <3> QED BY <3>1, <3>2
  <2>3. Scoped(s, n, V)
    BY <1>3, <2>1 DEF Scoped
  <2> QED BY <1>1, <1>4, <2>1, <2>2, <2>3 DEF TestsRemembered, V, T
<1>5. ASSUME ~passed PROVE Forgotten(s, y)
  <2> SUFFICES ASSUME NEW n \in EncOf(s, y), TestItem(s, n)
               PROVE  \E k \in DOMAIN s : TestItem(s, k) /\ k < y /\ n \in EncOf(s, k) /\ ~Scoped(s, k, y)
    BY DEF Forgotten
  <2> DEFINE S == {j \in EncOf(s, y) : TestItem(s, j)}
  <2>1. S \subseteq 1 .. y - 1 /\ n \in S /\ y - 1 \in Nat
    BY <1>3, <1>1, <1>2 DEF EncOf
  <2> HIDE DEF S
  <2>2. PICK o \in S : \A j \in S : j <= o
    BY <2>1, GreatestIs
  <2>3. o \in EncOf(s, y) /\ TestItem(s, o)
    BY DEF S
  <2>4. /\ o < y /\ o <= V /\ o \in DOMAIN s /\ Scoped(s, o, y)
        /\ \/ m.called = {} /\ T = o
           \/ \E k \in DOMAIN s : TestItem(s, k) /\ o < k /\ k <= V /\ Scoped(s, o, k)
    BY <1>4, <2>3
  <2>5. T # o
    BY <1>1, <1>3, <1>5, <2>4
  <2>6. PICK k \in DOMAIN s : TestItem(s, k) /\ o < k /\ k <= V /\ Scoped(s, o, k)
    BY <2>4, <2>5
  <2>7. s[k].do \in Opening /\ k < y /\ k \in 1 .. y - 1
    BY <1>1, <1>3, <2>6, TestItemIs
  <2>8. ~Scoped(s, k, y)
    <3>1. k \notin S
      BY <1>1, <2>2, <2>4, <2>6
    <3> QED BY <2>6, <2>7, <3>1 DEF EncOf, S
  <2>9. o \in EncOf(s, k)
    BY <1>1, <2>3, <2>4, <2>6, TestItemIs DEF EncOf
  <2>10. n \in EncOf(s, k)
    <3>1. EncOf(s, o) = {j \in EncOf(s, y) : j < o} /\ EncOf(s, o) = {j \in EncOf(s, k) : j < o}
      BY <1>1, <1>3, <2>3, <2>9, EncInside
    <3>2. n = o \/ n < o
      BY <1>1, <1>4, <2>1, <2>2, <2>4
    <3> QED BY <2>9, <3>1, <3>2
  <2> QED BY <2>6, <2>7, <2>8, <2>10
<1>6. ASSUME NEW x \in children
      PROVE  /\ x \in DOMAIN s /\ s[x].do \in Items /\ y < x /\ y \in EncOf(s, x) /\ ~passed
             /\ \A n \in EncOf(s, x) : n <= y
  BY <1>1, <1>2, <1>6, ChildIs
<1>7. TestsRemembered(s, next)
  <2> SUFFICES ASSUME NEW n \in DOMAIN s, TestItem(s, n), n <= next.visited, Scoped(s, n, next.visited)
               PROVE  \/ next.called = {} /\ next.in_test_span = n
                      \/ \E k \in DOMAIN s : /\ TestItem(s, k) /\ n < k /\ k <= next.visited
                                             /\ Scoped(s, n, k)
    BY DEF TestsRemembered
  <2>1. CASE m.called = {} /\ n = y
    BY <1>2, <2>1
  <2>2. CASE m.called = {} /\ n # y
    <3>1. next.visited = y /\ n < y /\ n \in 1 .. y - 1 /\ s[n].do \in Opening
      BY <1>1, <1>2, <2>2, TestItemIs
    <3>2. n \in EncOf(s, y)
      BY <3>1 DEF EncOf
    <3>3. CASE T = n
      <4>1. inside
        BY <3>1, <3>3
      <4>2. next.called = {}
        BY <1>2, <2>2, <4>1
      <4>3. CASE TestItem(s, y)
        <5>1. Scoped(s, n, y) /\ y <= next.visited
          BY <1>3, <3>1
        <5> QED BY <1>2, <3>1, <4>3, <5>1
      <4>4. CASE ~TestItem(s, y)
        BY <1>2, <3>3, <4>1, <4>2, <4>4
      <4> QED BY <4>3, <4>4
    <3>4. CASE T # n
      <4>1. PICK k \in DOMAIN s : TestItem(s, k) /\ n < k /\ k <= V /\ Scoped(s, n, k)
        BY <1>4, <3>2, <3>4
      <4>2. k <= next.visited
        BY <1>1, <1>3, <3>1, <4>1
      <4> QED BY <4>1, <4>2
    <3> QED BY <3>3, <3>4
  <2>3. CASE m.called # {}
    BY <1>1, <1>2, <2>3 DEF TestsRemembered, V
  <2> QED BY <2>1, <2>2, <2>3
<1>8. CalledInside(s, next)
  <2> SUFFICES ASSUME NEW x \in next.called
               PROVE  /\ s[x].do \in Items /\ next.visited < x
                      /\ \A n \in EncOf(s, x) : TestItem(s, n) => n <= next.visited
    BY DEF CalledInside
  <2>1. CASE x \in m.called
    BY <1>1, <1>2, <2>1 DEF CalledInside, V
  <2>2. CASE x \in children /\ m.called = {}
    BY <1>2, <1>6, <2>2
  <2>3. CASE x \in children /\ m.called # {}
    <3>1. /\ x \in DOMAIN s /\ s[x].do \in Items /\ y < x /\ y \in EncOf(s, x) /\ ~passed
          /\ \A n \in EncOf(s, x) : n <= y
      BY <1>6, <2>3
    <3>2. V < x /\ x \in Nat
      BY <1>1, <1>3, <3>1
    <3>3. ASSUME NEW n \in EncOf(s, x), TestItem(s, n) PROVE n <= V
      <4>1. n # y /\ n \in Nat
        BY <3>1, <3>3 DEF EncOf
      <4>2. n < y
        BY <1>3, <3>1, <4>1
      <4>3. n \in EncOf(s, y)
        BY <3>1, <3>2, <4>2, EncInside
      <4> QED BY <1>4, <3>3, <4>3
    <3> QED BY <1>2, <2>3, <3>1, <3>2, <3>3
  <2> QED BY <1>2, <2>1, <2>2, <2>3
<1>9. AllExamined(s, next, r \cup found)
  <2> SUFFICES ASSUME NEW x \in DOMAIN s, x <= next.visited, s[x].do \in {"fn", "impl"}, ~InTests(s, x)
               PROVE  \A f \in LookedInto(s, x) : PanicsIn(s, f) \subseteq r \cup found
    BY DEF AllExamined
  <2>1. CASE x <= V
    BY <1>1, <2>1 DEF AllExamined, V
  <2>2. CASE ~(x <= V)
    <3>1. m.called = {} /\ next.visited = y
      BY <1>1, <1>2, <2>2
    <3>2. x = y
      <4>1. s[x].do \in Items /\ x > V
        BY <1>1, <1>3, <2>2 DEF Items
      <4>2. y <= x /\ x <= y /\ x \in Nat
        BY <1>1, <1>2, <3>1, <4>1
      <4> QED BY <1>3, <4>2
    <3>3. ~passed
      <4>1. ~TestItem(s, y)
        BY <3>2 DEF InTests
      <4>2. ASSUME inside PROVE FALSE
        <5>1. TestItem(s, T) /\ T \in DOMAIN s
          BY <1>1, <4>2
        <5>2. T # y
          BY <4>1, <5>1
        <5>3. T \in EncOf(s, y)
          BY <1>1, <1>3, <4>2, <5>1, <5>2, TestItemIs DEF EncOf
        <5> QED BY <3>2, <5>1, <5>3 DEF InTests
      <4> QED BY <4>1, <4>2
    <3> QED BY <1>2, <3>2, <3>3
  <2> QED BY <2>1, <2>2
<1>10. ReportedOf(s, r \cup found)
  <2> SUFFICES ASSUME NEW i \in found
               PROVE  \E x \in DOMAIN s : /\ s[x].do \in {"fn", "impl"} /\ ~TestItem(s, x) /\ Forgotten(s, x)
                                          /\ \E f \in LookedInto(s, x) : i \in PanicsIn(s, f)
    BY <1>1 DEF ReportedOf
  <2>1. ~passed /\ s[y].do # "mod" /\ \E f \in LookedInto(s, y) : i \in PanicsIn(s, f)
    BY <1>2
  <2>2. s[y].do \in {"fn", "impl"} /\ ~TestItem(s, y)
    BY <1>2, <2>1 DEF Items
  <2> QED BY <1>2, <1>5, <2>1, <2>2
<1>11. next \in PanicMemory(s)
  <2>1. next.in_test_span \in {0} \cup {n \in DOMAIN s : TestItem(s, n)}
    BY <1>1, <1>2
  <2>2. next.visited \in 0 .. Len(s)
    BY <1>1, <1>2
  <2>3. next.called \subseteq DOMAIN s
    BY <1>1, <1>2, <1>6
  <2> QED BY <1>2, <2>1, <2>2, <2>3 DEF PanicMemory
<1> QED BY <1>1, <1>7, <1>8, <1>9, <1>10, <1>11 DEF PanicKnown

\* A function in which position i is, with the item it is looked into with.
LEMMA LookedIntoIs ==
  ASSUME NEW s, SourceBody(s), NEW i \in DOMAIN s, NEW f \in EncOf(s, i), s[f].do \in {"fn", "method"}
  PROVE  /\ f \in DOMAIN s /\ f < i /\ Scoped(s, f, i)
         /\ \E x \in DOMAIN s : s[x].do \in {"fn", "impl"} /\ f \in LookedInto(s, x)
         /\ \A x \in DOMAIN s : s[x].do \in {"fn", "impl"} /\ f \in LookedInto(s, x) =>
              /\ x < i /\ EncOf(s, i) = EncOf(s, x) \cup {x, f}
              /\ s[f].do = "method" \/ x = f
              /\ \A n \in EncOf(s, x) : s[n].do = "mod"
<1>1. DOMAIN s = 1 .. Len(s) /\ Len(s) \in Nat
  BY DEF SourceBody
<1>2. /\ f \in DOMAIN s /\ f < i /\ f \in Nat /\ i \in Nat /\ s[f].do \in Opening /\ Scoped(s, f, i)
      /\ EncOf(s, f) = {n \in EncOf(s, i) : n < f}
  BY <1>1, EncInside DEF EncOf
<1>3. ASSUME NEW n \in EncOf(s, i) PROVE n \in Nat /\ (n < f \/ n = f)
  <2>1. n \in 1 .. i - 1 /\ s[n].do \in Opening /\ EncOf(s, n) = {k \in EncOf(s, i) : k < n} /\ n \in DOMAIN s
    BY <1>1, EncInside DEF EncOf
  <2>2. ~(f < n)
    <3>1. f < n => f \in EncOf(s, n)
      BY <2>1
    <3> QED BY <2>1, <3>1, FunctionsAreInner
  <2> QED BY <1>2, <2>1, <2>2
<1>4. EncOf(s, i) = EncOf(s, f) \cup {f}
  BY <1>2, <1>3
<1>5. CASE s[f].do = "fn"
  <2>1. \A n \in EncOf(s, f) : s[n].do = "mod"
    BY <1>2, <1>5, ItemsInModules DEF Items
  <2>2. f \in LookedInto(s, f)
    BY <1>5 DEF LookedInto
  <2>3. ASSUME NEW x \in DOMAIN s, s[x].do \in {"fn", "impl"}, f \in LookedInto(s, x) PROVE x = f
    <3>1. CASE s[x].do = "fn"
      BY <2>3, <3>1 DEF LookedInto
    <3>2. CASE s[x].do = "impl"
      <4>1. ParentOf(s, f) = x
        BY <2>3, <3>2 DEF LookedInto, ChildrenOf
      <4>2. x # 0
        BY <1>1
      <4>3. x \in EncOf(s, f)
        BY <1>1, <1>2, <4>1, <4>2, ParentIs
      <4> QED BY <2>1, <3>2, <4>3
    <3> QED BY <2>3, <3>1, <3>2
  <2>4. EncOf(s, i) = EncOf(s, f) \cup {f, f}
    BY <1>4
  <2> QED BY <1>2, <1>5, <2>1, <2>2, <2>3, <2>4
<1>6. CASE s[f].do = "method"
  <2> DEFINE p == ParentOf(s, f)
  <2>1. p \in DOMAIN s /\ p < f /\ s[p].do = "impl" /\ p \in EncOf(s, f) /\ EncOf(s, f) = EncOf(s, p) \cup {p}
    BY <1>2, <1>6, MethodsInImpls
  <2>2. \A n \in EncOf(s, p) : s[n].do = "mod"
    BY <2>1, ItemsInModules DEF Items
  <2>3. f \in LookedInto(s, p)
    BY <1>2, <1>6, <2>1 DEF LookedInto, ChildrenOf
  <2>4. ASSUME NEW x \in DOMAIN s, s[x].do \in {"fn", "impl"}, f \in LookedInto(s, x) PROVE x = p
    BY <1>6, <2>4 DEF LookedInto, ChildrenOf
  <2>5. p < i
    BY <1>1, <1>2, <2>1
  <2> HIDE DEF p
  <2>6. EncOf(s, i) = EncOf(s, p) \cup {p, f}
    BY <1>4, <2>1
  <2> QED BY <1>2, <1>6, <2>1, <2>2, <2>3, <2>4, <2>5, <2>6
<1> QED BY <1>5, <1>6

LEMMA PanicIsReported == PanicInv /\ lint = "avoid-panic-error" => TestsToldApart
<1> SUFFICES ASSUME PanicInv, lint = "avoid-panic-error",
                    NEW i \in DOMAIN walked, walked[i].do \in Macros, GivesResult(i)
             PROVE  /\ AllChecked /\ ~OnlyInTests(i) /\ i \notin reported =>
                         \/ \E n \in Enclosing(i) : walked[n].attr = "cfg_attr"
                         \/ walked[i].do = "statement"
                    /\ OnlyInTests(i) /\ i \in reported =>
                         \/ \A n \in Enclosing(i) : walked[n].do # "method" => walked[n].attr # "test"
                         \/ \E t \in 1 .. i : \E n \in Enclosing(t) \cap Enclosing(i) :
                              /\ walked[n].do = "mod" /\ walked[n].attr = "test"
                              /\ walked[t].do \in Items /\ IsTestItem(walked[t]) /\ ~InScope(t, i)
  BY DEF TestsToldApart, MacroLints
<1> DEFINE s == walked
<1>1. /\ SourceBody(s) /\ DOMAIN s = 1 .. Len(s) /\ Len(s) \in Nat /\ s \in Seq(SourceConstructs)
      /\ AllExamined(s, memory, reported) /\ ReportedOf(s, reported) /\ memory \in PanicMemory(s)
  BY DEF PanicInv, PanicKnown, SourceBody
<1>2. \A k : Enclosing(k) = EncOf(s, k)
  BY EnclosingIs
<1>3. OnlyInTests(i) <=> \E n \in EncOf(s, i) : s[n].attr \in {"test", "all"}
  BY <1>2 DEF OnlyInTests
<1>4. ASSUME AllChecked, ~OnlyInTests(i), i \notin reported, walked[i].do # "statement"
      PROVE  \E n \in EncOf(s, i) : s[n].attr = "cfg_attr"
  <2>1. PICK f \in EncOf(s, i) : s[f].result
    BY <1>2 DEF GivesResult
  <2>2. f \in DOMAIN s /\ s[f].do \in {"fn", "method"}
    <3>1. f \in DOMAIN s
      BY <1>1 DEF EncOf
    <3> QED BY <1>1, <2>1, <3>1, SourceConstructIs
  <2>3. /\ f < i /\ Scoped(s, f, i)
        /\ \E x \in DOMAIN s : s[x].do \in {"fn", "impl"} /\ f \in LookedInto(s, x)
    BY <1>1, <2>2, LookedIntoIs
  <2>4. PICK x \in DOMAIN s : s[x].do \in {"fn", "impl"} /\ f \in LookedInto(s, x)
    BY <2>3
  <2>5. x < i /\ EncOf(s, i) = EncOf(s, x) \cup {x, f}
    BY <1>1, <2>2, <2>4, LookedIntoIs
  <2>6. i \in PanicsIn(s, f)
    BY <1>1, <1>4, <2>1, <2>2, <2>3 DEF PanicsIn, Macros
  <2>7. x <= memory.visited
    <3>1. ItemsLeft(memory) = {}
      BY <1>4 DEF AllChecked
    <3>2. memory.called = {} /\ \A k \in DOMAIN s : ~(s[k].do \in Items /\ k > memory.visited)
      BY <3>1 DEF ItemsLeft
    <3>3. memory.visited \in Nat
      BY <1>1 DEF PanicMemory
    <3> QED BY <1>1, <2>4, <3>2, <3>3 DEF Items
  <2>8. InTests(s, x)
    BY <1>1, <1>4, <2>4, <2>6, <2>7 DEF AllExamined
  <2>9. PICK n \in EncOf(s, i) : TestItem(s, n)
    BY <2>5, <2>8 DEF InTests
  <2> QED BY <1>3, <1>4, <2>9, TestItemIs
<1>5. ASSUME i \in reported, NEW n \in EncOf(s, i), s[n].do # "method", s[n].attr = "test"
      PROVE  \E t \in 1 .. i : /\ n \in EncOf(s, t) /\ s[n].do = "mod"
                               /\ s[t].do \in Items /\ IsTestItem(s[t]) /\ ~Scoped(s, t, i)
  <2>1. PICK x \in DOMAIN s : /\ s[x].do \in {"fn", "impl"} /\ ~TestItem(s, x) /\ Forgotten(s, x)
                              /\ \E f \in LookedInto(s, x) : i \in PanicsIn(s, f)
    BY <1>1, <1>5 DEF ReportedOf
  <2>2. PICK f \in LookedInto(s, x) : i \in PanicsIn(s, f)
    BY <2>1
  <2>3. f \in DOMAIN s /\ f <= i /\ s[f].result /\ Scoped(s, f, i)
    <3>1. f \in DOMAIN s
      BY <2>1 DEF LookedInto, ChildrenOf
    <3> QED BY <1>1, <2>2, <3>1 DEF PanicsIn
  <2>4. s[f].do \in {"fn", "method"} /\ s[f].do \in Opening
    <3>1. s[f] \in SourceConstructs
      BY <1>1, <2>3
    <3>2. s[f].do \in {"fn", "method"}
      BY <2>3, <3>1, SourceConstructIs
    <3>3. {"fn", "method"} \subseteq Opening
      BY DEF Opening
    <3> QED BY <3>2, <3>3
  <2>5. f \in EncOf(s, i)
    <3>1. s[f].do \notin Macros
      BY <2>4 DEF Macros
    <3>2. f # i
      BY <3>1
    <3> QED BY <1>1, <2>3, <2>4, <3>2 DEF EncOf
  <2>6. /\ x < i /\ EncOf(s, i) = EncOf(s, x) \cup {x, f}
        /\ s[f].do = "method" \/ x = f
        /\ \A k \in EncOf(s, x) : s[k].do = "mod"
    BY <1>1, <2>1, <2>4, <2>5, LookedIntoIs
  <2>7. n # x /\ n # f
    <3>1. n # x
      BY <1>5, <2>1 DEF TestItem, IsTestItem, Items
    <3> QED BY <1>5, <2>6, <3>1
  <2>8. n \in EncOf(s, x) /\ s[n].do = "mod"
    BY <2>6, <2>7
  <2>9. TestItem(s, n)
    <3>1. n \in DOMAIN s
      BY <1>1 DEF EncOf
    <3> QED BY <1>5, <2>8, <3>1 DEF TestItem, IsTestItem, Items
  <2>10. PICK t \in DOMAIN s : TestItem(s, t) /\ t < x /\ n \in EncOf(s, t) /\ ~Scoped(s, t, x)
    BY <2>1, <2>8, <2>9 DEF Forgotten
  <2>11. ~Scoped(s, t, i)
    BY <1>1, <2>6, <2>10 DEF Scoped
  <2>12. t \in 1 .. i
    BY <1>1, <2>6, <2>10
  <2> QED BY <2>8, <2>10, <2>11, <2>12, TestItemIs DEF TestItem
<1>6. \A t : InScope(t, i) <=> Scoped(s, t, i)
  BY DepthIs
<1> HIDE DEF s
<1>7. ASSUME i \in reported, NEW n \in Enclosing(i), walked[n].do # "method", walked[n].attr = "test"
      PROVE  \E t \in 1 .. i : \E k \in Enclosing(t) \cap Enclosing(i) :
               /\ walked[k].do = "mod" /\ walked[k].attr = "test"
               /\ walked[t].do \in Items /\ IsTestItem(walked[t]) /\ ~InScope(t, i)
  BY <1>2, <1>5, <1>6, <1>7 DEF s
<1> QED BY <1>2, <1>4, <1>7 DEF s

LEMMA PanicInvariant ==
  Follows({"avoid-panic-error"}, PanicStart, VisitSource \/ CheckNext)
    => [](lint \in {"avoid-panic-error"} => PanicInv)
<1>1. (lint \in {"avoid-panic-error"} => Begin(PanicStart)) => (lint \in {"avoid-panic-error"} => PanicInv)
  <2> SUFFICES ASSUME Begin(PanicStart) PROVE PanicInv
    OBVIOUS
  <2>1. walked = <<>> /\ reported = {} /\ memory = PanicStart /\ SourceBody(walked)
    BY DEF Begin, SourceBody
  <2> QED BY <2>1, PanicStarts DEF PanicInv
<1>2. /\ lint \in {"avoid-panic-error"} => PanicInv
      /\ [IF lint \in {"avoid-panic-error"} THEN VisitSource \/ CheckNext ELSE UNCHANGED lint]_walk
      => (lint \in {"avoid-panic-error"} => PanicInv)'
  <2> SUFFICES ASSUME lint = "avoid-panic-error" => PanicInv,
                      [IF lint \in {"avoid-panic-error"} THEN VisitSource \/ CheckNext ELSE UNCHANGED lint]_walk,
                      lint' = "avoid-panic-error"
               PROVE  PanicInv'
    OBVIOUS
  <2>1. (VisitSource \/ CheckNext) => lint' = lint
    BY DEF VisitSource, Pass, CheckNext
  <2>2. PanicInv /\ lint = "avoid-panic-error" /\ (VisitSource \/ CheckNext \/ UNCHANGED walk)
    BY <2>1 DEF walk
  <2>3. CASE VisitSource
    <3>1. PICK e : SourcePass(e)
      BY <2>3, VisitSourceIs
    <3>2. /\ e \in SourceConstructs /\ ~WholeCrate /\ StandsIn(Here) \in Within(e.do)
          /\ walked' = Append(walked, e) /\ memory' = memory /\ reported' = reported
      BY <2>2, <3>1 DEF SourcePass, MacroLints, Pass
    <3>3. SourceBody(walked) /\ memory = PanicStart /\ reported = {}
      BY <2>2, <3>2 DEF PanicInv, PanicKnown
    <3>4. StandOf(walked, Len(walked) + 1) \in Within(e.do)
      BY <3>2, EnclosingIs DEF Here
    <3>5. SourceBody(walked')
      BY <3>2, <3>3, <3>4, SourceAppend
    <3>6. PanicKnown(walked', PanicStart, {})
      BY <3>5, PanicStarts
    <3> QED BY <3>2, <3>3, <3>6 DEF PanicInv
  <2>4. CASE CheckNext
    <3>1. PanicKnown(walked, memory, reported) /\ WholeCrate /\ walked' = walked
      BY <2>2, <2>4 DEF PanicInv, CheckNext
    <3>2. PICK n, found : PanicStep(walked, memory, n, memory', found) /\ reported' = reported \cup found
      BY <2>4, <3>1, CheckNextIs
    <3>3. PanicKnown(walked, memory', reported')
      BY <3>1, <3>2, PanicKnownNext
    <3>4. WholeCrate'
      BY <3>1 DEF WholeCrate
    <3> QED BY <3>1, <3>3, <3>4 DEF PanicInv
  <2>5. CASE UNCHANGED walk
    BY <2>2, <2>5 DEF PanicInv, WholeCrate, walk
  <2> QED BY <2>2, <2>3, <2>4, <2>5
<1> QED BY <1>1, <1>2, PTL DEF Follows

\* No crate is misjudged: tests are told apart, dependencies found, the questions about
\* the manifest answered and a token's functions counted, in crates of any size with
\* any types and items, but for the ways that the properties name.
THEOREM CratesAreJudged == CrateSpec => []CratesJudged
<1>1. /\ lint \in MacroLints => MacroInv
      /\ lint \in {"avoid-panic-error"} => PanicInv
      /\ lint \in {"contract-import-dependency"} => ImportInv
      /\ lint \in DOMAIN Questions => ManifestInv
      /\ lint \in {"token-interface-inference"} => TokenInv
      => CratesJudged
  <2> SUFFICES ASSUME /\ lint \in MacroLints => MacroInv
                      /\ lint \in {"avoid-panic-error"} => PanicInv
                      /\ lint \in {"contract-import-dependency"} => ImportInv
                      /\ lint \in DOMAIN Questions => ManifestInv
                      /\ lint \in {"token-interface-inference"} => TokenInv
               PROVE  CratesJudged
    OBVIOUS
  <2>1. TestsToldApart
    BY MacroIsReported, PanicIsReported DEF TestsToldApart
  <2>2. ImportsTracked
    BY DEF ImportInv, ImportsTracked
  <2>3. ManifestsReported
    BY QuestionsAre, ManifestIsReported DEF ManifestsReported
  <2>4. TokensReported
    BY DEF TokenInv, TokensReported
  <2> QED BY <2>1, <2>2, <2>3, <2>4 DEF CratesJudged
<1> QED BY <1>1, MacroInvariant, PanicInvariant, ImportInvariant, ManifestInvariant, TokenInvariant, PTL
        DEF CrateSpec

-----------------------------------------------------------------------------
(* Calls that are judged where they stand.                                    *)

\* A visitor that may mark the construct it comes to.

-----------------------------------------------------------------------------
(* What becomes of the value of a get.                                        *)

MapInv == walked \in Seq(MapConstructs) /\ reported \subseteq DOMAIN walked /\ MapGetsReported

LEMMA MapGetIs ==
  ASSUME NEW e \in MapConstructs
  PROVE  LET marked == IsUnsafeMapGet(e) /\ ~MarkSafeConsumers(e)
         IN  /\ marked => StopsWhenAbsent(e) /\ e.method # "get"
             /\ ~marked /\ StopsWhenAbsent(e) =>
                  \/ e.method = "get"
                  \/ e.consumer \notin {"", "unwrap", "let else"} /\ ~e.through_let
<1>1. /\ e.method \in {"get", "get_unchecked", "try_get_unchecked"} /\ e.through_let \in BOOLEAN
      /\ e.consumer \in {"", "unwrap", "unwrap_or", "match", "if let", "let else", "?"}
  BY DEF MapConstructs, Consumers
<1> QED BY <1>1 DEF IsUnsafeMapGet, MarkSafeConsumers, StopsWhenAbsent

LEMMA MapFollows == MapInv /\ VisitMap => MapInv'
<1> SUFFICES ASSUME MapInv, VisitMap PROVE MapInv'
  OBVIOUS
<1>1. PICK e \in MapConstructs : Pass(e, memory, Mark(IsUnsafeMapGet(e) /\ ~MarkSafeConsumers(e)))
  BY DEF VisitMap
<1> DEFINE marked == IsUnsafeMapGet(e) /\ ~MarkSafeConsumers(e)
<1>2. Mark(marked) \subseteq {Here} /\ (Here \in Mark(marked) <=> marked)
  BY MarkIs
<1>3. /\ walked' \in Seq(MapConstructs) /\ reported' \subseteq DOMAIN walked'
      /\ Latest' = {Here} /\ walked'[Here] = e /\ (Here \in reported' <=> marked)
  BY <1>1, <1>2, PassMarks DEF MapInv
<1>4. MapGetsReported'
  BY <1>1, <1>3, MapGetIs DEF MapGetsReported
<1> QED BY <1>3, <1>4 DEF MapInv

LEMMA MapInvariant ==
  Follows({"unsafe-map-get"}, Nothing, VisitMap) => [](lint \in {"unsafe-map-get"} => MapInv)
<1>1. (lint \in {"unsafe-map-get"} => Begin(Nothing)) => (lint \in {"unsafe-map-get"} => MapInv)
  BY DEF Begin, MapInv, MapGetsReported, Latest
<1>2. /\ lint \in {"unsafe-map-get"} => MapInv
      /\ [IF lint \in {"unsafe-map-get"} THEN VisitMap ELSE UNCHANGED lint]_walk
      => (lint \in {"unsafe-map-get"} => MapInv)'
  <2> SUFFICES ASSUME lint \in {"unsafe-map-get"} => MapInv,
                      [IF lint \in {"unsafe-map-get"} THEN VisitMap ELSE UNCHANGED lint]_walk,
                      lint' \in {"unsafe-map-get"}
               PROVE  MapInv'
    OBVIOUS
  <2>1. MapInv /\ (VisitMap \/ UNCHANGED walk)
    BY DEF walk
  <2>2. CASE VisitMap
    BY <2>1, <2>2, MapFollows
  <2>3. CASE UNCHANGED walk
    BY <2>1, <2>3 DEF MapInv, MapGetsReported, Latest, walk
  <2> QED BY <2>1, <2>2, <2>3
<1> QED BY <1>1, <1>2, PTL DEF Follows

-----------------------------------------------------------------------------
(* Where the result of a call to another contract goes.                       *)

CallsInv == walked \in Seq(CallConstructs) /\ reported \subseteq DOMAIN walked /\ FailuresReported

LEMMA CallIs ==
  ASSUME NEW e \in CallConstructs
  PROVE  LET marked == e.client /\ ~e.denied /\ ResultIsIgnored(e)
         IN  /\ marked => Swallowed(e)
             /\ Swallowed(e) /\ ~marked => e.of # TryCall \/ ~e.client \/ e.denied
<1>1. /\ TryCall.op = "try_call" /\ e.client \in BOOLEAN /\ e.denied \in BOOLEAN
      /\ e.kind \in {"semi", "let _", "let", "tail"}
  BY DEF TryCall, Node, CallConstructs, StatementKinds
<1> QED BY <1>1 DEF ResultIsIgnored, Swallowed

LEMMA CallsFollow == CallsInv /\ VisitCalls => CallsInv'
<1> SUFFICES ASSUME CallsInv, VisitCalls PROVE CallsInv'
  OBVIOUS
<1>1. PICK e \in CallConstructs : Pass(e, memory, Mark(e.client /\ ~e.denied /\ ResultIsIgnored(e)))
  BY DEF VisitCalls
<1> DEFINE marked == e.client /\ ~e.denied /\ ResultIsIgnored(e)
<1>2. Mark(marked) \subseteq {Here} /\ (Here \in Mark(marked) <=> marked)
  BY MarkIs
<1>3. /\ walked' \in Seq(CallConstructs) /\ reported' \subseteq DOMAIN walked'
      /\ Latest' = {Here} /\ walked'[Here] = e /\ (Here \in reported' <=> marked)
  BY <1>1, <1>2, PassMarks DEF CallsInv
<1>4. FailuresReported'
  BY <1>1, <1>3, CallIs DEF FailuresReported
<1> QED BY <1>3, <1>4 DEF CallsInv

LEMMA CallsInvariant ==
  Follows({"unchecked-cross-contract-result"}, Nothing, VisitCalls)
    => [](lint \in {"unchecked-cross-contract-result"} => CallsInv)
<1>1. (lint \in {"unchecked-cross-contract-result"} => Begin(Nothing))
      => (lint \in {"unchecked-cross-contract-result"} => CallsInv)
  BY DEF Begin, CallsInv, FailuresReported, Latest
<1>2. /\ lint \in {"unchecked-cross-contract-result"} => CallsInv
      /\ [IF lint \in {"unchecked-cross-contract-result"} THEN VisitCalls ELSE UNCHANGED lint]_walk
      => (lint \in {"unchecked-cross-contract-result"} => CallsInv)'
  <2> SUFFICES ASSUME lint \in {"unchecked-cross-contract-result"} => CallsInv,
                      [IF lint \in {"unchecked-cross-contract-result"} THEN VisitCalls ELSE UNCHANGED lint]_walk,
                      lint' \in {"unchecked-cross-contract-result"}
               PROVE  CallsInv'
    OBVIOUS
  <2>1. CallsInv /\ (VisitCalls \/ UNCHANGED walk)
    BY DEF walk
  <2>2. CASE VisitCalls
    BY <2>1, <2>2, CallsFollow
  <2>3. CASE UNCHANGED walk
    BY <2>1, <2>3 DEF CallsInv, FailuresReported, Latest, walk
  <2> QED BY <2>1, <2>2, <2>3
<1> QED BY <1>1, <1>2, PTL DEF Follows

-----------------------------------------------------------------------------
(* The keys of what is stored.                                                *)

LEMMA PlainKeyIs ==
  ASSUME NEW k \in PlainKeys
  PROVE  /\ k.op \in {"variant", "symbol", "literal", "struct"}
         /\ k.op = "variant" => k.args[1] \subseteq {"critical", "ephemeral"}
<1>1. \A op, args : Node(op, args).op = op /\ Node(op, args).args = args
  BY DEF Node
<1>2. CASE \E op \in {"symbol", "literal", "struct"} : k = Node(op, <<>>)
  BY <1>1, <1>2
<1>3. ASSUME NEW name \in SUBSET {"critical", "ephemeral"}, NEW payload \in Payloads,
             k = Variant(name, payload)
      PROVE  k.op = "variant" /\ k.args[1] \subseteq {"critical", "ephemeral"}
  <2>1. \E p : payload = <<>> \/ payload = <<p>>
    BY DEF Payloads
  <2>2. (<<name>> \o payload)[1] = name
    BY <2>1
  <2> QED BY <1>1, <1>3, <2>2 DEF Variant
<1>4. \/ \E op \in {"symbol", "literal", "struct"} : k = Node(op, <<>>)
      \/ \E name \in SUBSET {"critical", "ephemeral"}, payload \in Payloads :
           k = Variant(name, payload)
  BY DEF PlainKeys
<1>5. CASE \E name \in SUBSET {"critical", "ephemeral"}, payload \in Payloads :
             k = Variant(name, payload)
  BY <1>3, <1>5
<1> QED BY <1>2, <1>4, <1>5

LEMMA StorageKeyIs ==
  ASSUME NEW key \in StorageKeys
  PROVE  \E k \in PlainKeys : \/ key = k
                              \/ key = Node("&", <<k>>) \/ key = Node("let", <<k>>)
                              \/ key = Node("&", <<Node("&", <<k>>)>>)
BY DEF StorageKeys

\* What is left of a key, with one reference less and with none.
LEMMA PeeledIs ==
  ASSUME NEW k \in PlainKeys
  PROVE  /\ PeelBorrow(k) = k /\ Outermost(k) = k
         /\ PeelBorrow(Node("&", <<k>>)) = k /\ Outermost(Node("&", <<k>>)) = k
         /\ PeelBorrow(Node("let", <<k>>)) = Node("let", <<k>>) /\ Outermost(Node("let", <<k>>)) = k
         /\ PeelBorrow(Node("&", <<Node("&", <<k>>)>>)) = Node("&", <<k>>)
         /\ Outermost(Node("&", <<Node("&", <<k>>)>>)) = k
<1>1. k.op # "&" /\ k.op # "let"
  BY PlainKeyIs
<1>2. \A op, a : Node(op, <<a>>).op = op /\ Node(op, <<a>>).args[1] = a
  BY DEF Node
<1>3. LookThrough(k) = k
  BY <1>1 DEF LookThrough
<1>4. \A a : LookThrough(Node("&", <<a>>)) = a /\ LookThrough(Node("let", <<a>>)) = a
  BY <1>2 DEF LookThrough
<1>5. \A a : PeelBorrow(Node("&", <<a>>)) = a /\ PeelBorrow(Node("let", <<a>>)) = Node("let", <<a>>)
  BY <1>2 DEF PeelBorrow
<1>6. PeelBorrow(k) = k
  BY <1>1 DEF PeelBorrow
<1>7. /\ Outermost(k) = k /\ Outermost(Node("&", <<k>>)) = k /\ Outermost(Node("let", <<k>>)) = k
      /\ Outermost(Node("&", <<Node("&", <<k>>)>>)) = k
  BY <1>3, <1>4 DEF Outermost
<1> QED BY <1>5, <1>6, <1>7

\* Around a key there is nothing, or one reference, or the detectors look no further.
LEMMA KeyIs ==
  ASSUME NEW key \in StorageKeys
  PROVE  LET hidden == key.op = "let" \/ PeelBorrow(key).op = "&"
         IN  /\ Outermost(key) \in PlainKeys /\ Outermost(PeelBorrow(key)) = Outermost(key)
             /\ ~hidden => PeelBorrow(key) = Outermost(key)
             /\ hidden => PeelBorrow(key).op \in {"&", "let"}
<1>1. PICK k \in PlainKeys : \/ key = k
                             \/ key = Node("&", <<k>>) \/ key = Node("let", <<k>>)
                             \/ key = Node("&", <<Node("&", <<k>>)>>)
  BY StorageKeyIs
<1>2. k.op \in {"variant", "symbol", "literal", "struct"}
  BY PlainKeyIs
<1>3. \A op, a : Node(op, <<a>>).op = op
  BY DEF Node
<1>4. CASE key = k
  BY <1>2, <1>4, PeeledIs
<1>5. CASE key = Node("&", <<k>>)
  BY <1>2, <1>3, <1>5, PeeledIs
<1>6. CASE key = Node("let", <<k>>)
  BY <1>2, <1>3, <1>6, PeeledIs
<1>7. CASE key = Node("&", <<Node("&", <<k>>)>>)
  BY <1>2, <1>3, <1>7, PeeledIs
<1> QED BY <1>1, <1>4, <1>5, <1>6, <1>7

LEMMA AccessIs ==
  ASSUME NEW e \in Accesses
  PROVE  LET key == Outermost(e.key)
             hidden == e.key.op = "let" \/ PeelBorrow(e.key).op = "&"
             critical == key.op = "variant" /\ "critical" \in key.args[1] /\ e.storage = "temporary"
         IN  /\ ~(UnsafeTemporary(e) /\ IsRawSymbolKey(e.key))
             /\ UnsafeTemporary(e) => critical /\ "ephemeral" \notin key.args[1]
             /\ critical /\ ~UnsafeTemporary(e) =>
                  hidden \/ "ephemeral" \in key.args[1] \/ e.method \in {"remove", "extend_ttl"}
             /\ IsRawSymbolKey(e.key) => key.op \in {"symbol", "literal"}
             /\ key.op = "symbol" => IsRawSymbolKey(e.key)
             /\ key.op = "literal" /\ ~IsRawSymbolKey(e.key) => hidden
<1> DEFINE key == Outermost(e.key)
           inner == PeelBorrow(e.key)
           hidden == e.key.op = "let" \/ inner.op = "&"
<1>1. /\ e.key \in StorageKeys /\ e.storage \in Storages
      /\ e.method \in {"get", "set", "has", "remove", "extend_ttl"}
  BY DEF Accesses, Methods
<1>2. /\ key \in PlainKeys /\ (~hidden => inner = key)
      /\ hidden => inner.op \in {"&", "let"}
      /\ Outermost(inner) = key
  BY <1>1, KeyIs
<1>3. /\ key.op \in {"variant", "symbol", "literal", "struct"}
      /\ key.op = "variant" => key.args[1] \subseteq {"critical", "ephemeral"}
  BY <1>2, PlainKeyIs
<1>4. /\ IsVariant(e.key) <=> ~hidden /\ key.op = "variant"
      /\ IsVariant(e.key) => inner.args[1] = key.args[1]
  BY <1>2, <1>3 DEF IsVariant
<1>5. UnsafeTemporary(e) <=> /\ e.storage = "temporary" /\ e.method \in {"set", "get", "has"}
                             /\ ~hidden /\ key.op = "variant" /\ key.args[1] = {"critical"}
  BY <1>4 DEF UnsafeTemporary, CriticalKeyVariant
<1>6. IsRawSymbolKey(e.key) <=> (~hidden /\ key.op = "literal") \/ key.op = "symbol"
  BY <1>2, <1>3 DEF IsRawSymbolKey, TypeOf
<1> HIDE DEF key, inner, hidden
<1>7. key.op = "variant" => (key.args[1] = {"critical"} <=>
                               "critical" \in key.args[1] /\ "ephemeral" \notin key.args[1])
  BY <1>3
<1> QED BY <1>1, <1>3, <1>5, <1>6, <1>7 DEF key, inner, hidden

KeyInv == walked \in Seq(Accesses) /\ reported \subseteq DOMAIN walked /\ KeysReported

LEMMA KeyFollows == KeyInv /\ VisitKey => KeyInv'
<1> SUFFICES ASSUME KeyInv, VisitKey PROVE KeyInv'
  OBVIOUS
<1> DEFINE marked(e) == IF lint = "unsafe-temporary-storage" THEN UnsafeTemporary(e)
                        ELSE IsRawSymbolKey(e.key)
<1>1. PICK e \in Accesses : Pass(e, memory, Mark(marked(e)))
  BY DEF VisitKey
<1>2. Mark(marked(e)) \subseteq {Here} /\ (Here \in Mark(marked(e)) <=> marked(e))
  BY MarkIs
<1>3. /\ walked' \in Seq(Accesses) /\ reported' \subseteq DOMAIN walked' /\ lint' = lint
      /\ Latest' = {Here} /\ walked'[Here] = e /\ (Here \in reported' <=> marked(e))
  BY <1>1, <1>2, PassMarks DEF KeyInv, Pass
<1>4. KeysReported'
  BY <1>1, <1>3, AccessIs DEF KeysReported, KeyLints
<1> QED BY <1>3, <1>4 DEF KeyInv

LEMMA KeyInvariant ==
  Follows(KeyLints, Nothing, VisitKey)
    => [](lint \in KeyLints => KeyInv)
<1>1. (lint \in KeyLints => Begin(Nothing)) => (lint \in KeyLints => KeyInv)
  BY DEF Begin, KeyInv, KeysReported, Latest
<1>2. /\ lint \in KeyLints => KeyInv
      /\ [IF lint \in KeyLints THEN VisitKey ELSE UNCHANGED lint]_walk
      => (lint \in KeyLints => KeyInv)'
  <2> SUFFICES ASSUME lint \in KeyLints => KeyInv,
                      [IF lint \in KeyLints THEN VisitKey ELSE UNCHANGED lint]_walk,
                      lint' \in KeyLints
               PROVE  KeyInv'
    OBVIOUS
  <2>1. KeyInv /\ (VisitKey \/ UNCHANGED walk)
    BY DEF walk
  <2>2. CASE VisitKey
    BY <2>1, <2>2, KeyFollows
  <2>3. CASE UNCHANGED walk
    BY <2>1, <2>3 DEF KeyInv, KeysReported, Latest, walk
  <2> QED BY <2>1, <2>2, <2>3
<1> QED BY <1>1, <1>2, PTL DEF Follows

-----------------------------------------------------------------------------
(* The types of what is stored.                                               *)

LEMMA ValueTypeIs ==
  ASSUME NEW type \in ValueTypes
  PROVE  /\ type.op \in Containers \/ (type.op \in {t.op : t \in FlatTypes} /\ type.args = <<>>)
         /\ \A i \in DOMAIN type.args : type.args[i] \in ValueTypes
<1> DEFINE one == FlatTypes \cup {Holding(op, t) : op \in Containers, t \in FlatTypes}
<1>1. ValueTypes = one \cup {Holding(op, t) : op \in Containers, t \in one}
                       \cup {TupleOf(t, u) : t, u \in FlatTypes}
  BY DEF ValueTypes
<1>2. FlatTypes \subseteq one /\ one \subseteq ValueTypes
  BY <1>1
<1>3. CASE type \in FlatTypes
  <2>1. type.args = <<>>
    BY <1>3 DEF FlatTypes, Node
  <2> QED BY <1>3, <2>1
<1>4. ASSUME NEW op \in Containers, NEW t \in one, type = Holding(op, t)
      PROVE  type.op \in Containers /\ \A i \in DOMAIN type.args : type.args[i] \in ValueTypes
  <2>1. type.op = op /\ type.args = <<t>>
    BY <1>4 DEF Holding, Node
  <2> HIDE DEF one
  <2> QED BY <1>2, <2>1
<1>5. ASSUME NEW t \in FlatTypes, NEW u \in FlatTypes, type = TupleOf(t, u)
      PROVE  type.op \in Containers /\ \A i \in DOMAIN type.args : type.args[i] \in ValueTypes
  <2>1. type.op = "tuple" /\ type.args = <<t, u>>
    BY <1>5 DEF TupleOf, Node
  <2> HIDE DEF one
  <2> QED BY <1>2, <2>1 DEF Containers
<1>6. \/ type \in FlatTypes
      \/ \E op \in Containers, t \in one : type = Holding(op, t)
      \/ \E t, u \in FlatTypes : type = TupleOf(t, u)
  <2>1. ASSUME NEW x \in one
        PROVE  x \in FlatTypes \/ \E op \in Containers, t \in FlatTypes : x = Holding(op, t)
    OBVIOUS
  <2> HIDE DEF one
  <2>2. CASE type \in one
    BY <1>2, <2>1, <2>2
  <2>3. CASE type \in {Holding(op, t) : op \in Containers, t \in one}
    BY <2>3
  <2>4. CASE type \in {TupleOf(t, u) : t, u \in FlatTypes}
    BY <2>4
  <2>5. type \in one \cup {Holding(op, t) : op \in Containers, t \in one}
                    \cup {TupleOf(t, u) : t, u \in FlatTypes}
    BY <1>1
  <2> QED BY <2>2, <2>3, <2>4, <2>5
<1> HIDE DEF one
<1> QED BY <1>3, <1>4, <1>5, <1>6

\* Where no struct and no Option is, everything is looked into.
LEMMA LookedThroughIs ==
  ASSUME NEW types \in SUBSET ValueTypes
  PROVE  /\ WithElements(types) \in SUBSET ValueTypes
         /\ types \subseteq LookedThrough(types) /\ LookedThrough(types) \subseteq WithElements(types)
         /\ (\A t \in types : t.op \notin {"struct", "Option"}) => LookedThrough(types) = WithElements(types)
         /\ types \subseteq WithElements(types)
<1>1. Elements(types) \subseteq ValueTypes
  BY ValueTypeIs DEF Elements
<1>2. \A S : Elements({t \in types : t.op \in S}) \subseteq Elements(types)
  BY DEF Elements
<1>3. ASSUME \A t \in types : t.op \notin {"struct", "Option"}, NEW x \in Elements(types)
      PROVE  x \in Elements({t \in types : t.op \in {"array", "pointer", "reference", "tuple"}})
  <2>1. PICK t \in types : \E i \in DOMAIN t.args : x = t.args[i]
    BY <1>3 DEF Elements
  <2>2. t.op \in Containers
    BY <2>1, ValueTypeIs
  <2>3. t.op \in {"array", "pointer", "reference", "tuple"}
    BY <1>3, <2>1, <2>2 DEF Containers
  <2> QED BY <2>1, <2>3 DEF Elements
<1> QED BY <1>1, <1>2, <1>3 DEF LookedThrough, WithElements

LEMMA LookedThroughGrows ==
  ASSUME NEW S, NEW T, S \subseteq T
  PROVE  LookedThrough(S) \subseteq LookedThrough(T) /\ WithElements(S) \subseteq WithElements(T)
BY DEF LookedThrough, WithElements, Elements

\* A type that the detector takes for dynamic can grow; one that can grow, without a
\* struct, an Option or a string of bytes in it, is taken for dynamic.
LEMMA DynamicTypeIs ==
  ASSUME NEW type \in ValueTypes
  PROVE  LET grows == Mentioned(type, {t.op : t \in FlatTypes} \ {"number"})
         IN  /\ IsDynamicType(type) => grows
             /\ grows /\ ~Mentioned(type, {"struct", "Option", "Bytes"}) => IsDynamicType(type)
<1> DEFINE all == WithElements(WithElements({type}))
           into == LookedThrough(LookedThrough({type}))
           ops == {t.op : t \in FlatTypes} \ {"number"}
<1>1. /\ WithElements({type}) \in SUBSET ValueTypes /\ LookedThrough({type}) \subseteq WithElements({type})
      /\ type \in WithElements({type})
  BY LookedThroughIs
<1>2. /\ all \in SUBSET ValueTypes /\ WithElements({type}) \subseteq all
      /\ LookedThrough(WithElements({type})) \subseteq all
  BY <1>1, LookedThroughIs
<1>3. into \subseteq all
  <2>1. into \subseteq LookedThrough(WithElements({type}))
    BY <1>1, LookedThroughGrows
  <2> QED BY <1>2, <2>1
<1>4. ops = {"str", "slice", "dyn", "Vec", "String", "Map", "Bytes"}
  <2>1. \A op : Node(op, <<>>).op = op
    BY DEF Node
  <2> DEFINE flat == {"number", "str", "slice", "dyn", "Vec", "String", "Map", "Bytes"}
  <2>2. FlatTypes = {Node(op, <<>>) : op \in flat}
    BY DEF FlatTypes
  <2>3. {t.op : t \in FlatTypes} = flat
    <3> HIDE DEF flat
    <3> QED BY <2>1, <2>2
  <2> QED BY <2>3
<1>5. \A t \in ValueTypes : t.op # "LinkedList"
  <2>1. \A t \in FlatTypes : t.op # "LinkedList"
    BY DEF FlatTypes, Node
  <2> QED BY <2>1, ValueTypeIs DEF Containers
<1>6. (\A t \in all : t.op \notin {"struct", "Option"}) => into = all
  <2> SUFFICES ASSUME \A t \in all : t.op \notin {"struct", "Option"} PROVE into = all
    OBVIOUS
  <2>1. LookedThrough({type}) = WithElements({type})
    BY <1>1, <1>2, LookedThroughIs
  <2>2. LookedThrough(WithElements({type})) = all
    BY <1>1, <1>2, LookedThroughIs
  <2> QED BY <2>1, <2>2
<1> HIDE DEF all, into, ops
<1>7. ASSUME NEW t \in into, IsDynamicTypeItself(t) PROVE t \in all /\ t.op \in ops
  <2>1. t \in all /\ t.op # "LinkedList"
    BY <1>2, <1>3, <1>5
  <2> QED BY <1>4, <1>7, <2>1 DEF IsDynamicTypeItself
<1>8. ASSUME NEW t \in all, t.op \in ops, \A u \in all : u.op \notin {"struct", "Option", "Bytes"}
      PROVE  t \in into /\ IsDynamicTypeItself(t)
  <2>1. t \in into /\ t.op # "Bytes"
    BY <1>6, <1>8
  <2> QED BY <1>4, <1>8, <2>1 DEF IsDynamicTypeItself
<1> QED BY <1>7, <1>8 DEF all, into, ops, IsDynamicType, Mentioned

StoredValues == [do : {"access"}, storage : Storages, method : {"set", "get"}, type : ValueTypes]

ValueInv == walked \in Seq(StoredValues) /\ reported \subseteq DOMAIN walked /\ GrowingValuesReported

LEMMA ValueFollows == ValueInv /\ VisitValue => ValueInv'
<1> SUFFICES ASSUME ValueInv, VisitValue PROVE ValueInv'
  OBVIOUS
<1>1. PICK storage \in Storages, method \in {"set", "get"}, type \in ValueTypes :
        Pass([do |-> "access", storage |-> storage, method |-> method, type |-> type], memory,
             Mark(method = "set" /\ storage # "temporary" /\ IsDynamicType(type)))
  BY DEF VisitValue
<1> DEFINE e == [do |-> "access", storage |-> storage, method |-> method, type |-> type]
           marked == method = "set" /\ storage # "temporary" /\ IsDynamicType(type)
<1>2. /\ e \in StoredValues /\ e.storage = storage /\ e.method = method /\ e.type = type
      /\ Mark(marked) \subseteq {Here} /\ (Here \in Mark(marked) <=> marked)
  BY MarkIs DEF StoredValues
<1>3. /\ walked' \in Seq(StoredValues) /\ reported' \subseteq DOMAIN walked'
      /\ Latest' = {Here} /\ walked'[Here] = e /\ (Here \in reported' <=> marked)
  <2> HIDE DEF e
  <2> QED BY <1>1, <1>2, PassMarks DEF ValueInv, e
<1> HIDE DEF e
<1>4. GrowingValuesReported'
  BY <1>1, <1>2, <1>3, DynamicTypeIs DEF GrowingValuesReported
<1> QED BY <1>3, <1>4 DEF ValueInv

LEMMA ValueInvariant ==
  Follows({"dynamic-storage"}, Nothing, VisitValue)
    => [](lint \in {"dynamic-storage"} => ValueInv)
<1>1. (lint \in {"dynamic-storage"} => Begin(Nothing)) => (lint \in {"dynamic-storage"} => ValueInv)
  BY DEF Begin, ValueInv, GrowingValuesReported, Latest
<1>2. /\ lint \in {"dynamic-storage"} => ValueInv
      /\ [IF lint \in {"dynamic-storage"} THEN VisitValue ELSE UNCHANGED lint]_walk
      => (lint \in {"dynamic-storage"} => ValueInv)'
  <2> SUFFICES ASSUME lint \in {"dynamic-storage"} => ValueInv,
                      [IF lint \in {"dynamic-storage"} THEN VisitValue ELSE UNCHANGED lint]_walk,
                      lint' \in {"dynamic-storage"}
               PROVE  ValueInv'
    OBVIOUS
  <2>1. ValueInv /\ (VisitValue \/ UNCHANGED walk)
    BY DEF walk
  <2>2. CASE VisitValue
    BY <2>1, <2>2, ValueFollows
  <2>3. CASE UNCHANGED walk
    BY <2>1, <2>3 DEF ValueInv, GrowingValuesReported, Latest, walk
  <2> QED BY <2>1, <2>2, <2>3
<1> QED BY <1>1, <1>2, PTL DEF Follows

-----------------------------------------------------------------------------
(* The variants that a method makes.                                          *)

EnumMemory == [count_ok : Nat, count_err : Nat, found_try : BOOLEAN, found_return : BOOLEAN,
               span : SUBSET Nat]

\* Where there is a construct of this kind.
DoneIn(s, do) == {n \in DOMAIN s : s[n].do = do}

MadeIn(s) == DoneIn(s, "Ok") \cup DoneIn(s, "Err")

CombinedIn(s) == DoneIn(s, "map_err") \cup DoneIn(s, "unwrap_or")

\* Both variants are made, as far as the detector can tell.
BothIn(s) == \/ DoneIn(s, "ok_or") # {}
             \/ DoneIn(s, "Ok") # {} /\ DoneIn(s, "Err") # {}
             \/ \E i \in MadeIn(s) : \E n \in CombinedIn(s) : i < n

\* What the counts say of the constructs that were passed.
CountKnown(s, m) ==
  /\ m \in EnumMemory
  /\ m.span = MadeIn(s) \cup DoneIn(s, "ok_or")
  /\ m.found_try <=> DoneIn(s, "try") # {}
  /\ m.found_return <=> DoneIn(s, "return call") # {}
  /\ m.count_ok > 0 \/ m.count_err > 0 <=> m.span # {}
  /\ m.count_ok > 0 /\ m.count_err > 0 <=> BothIn(s)
  /\ DoneIn(s, "Ok") # {} => m.count_ok > 0
  /\ DoneIn(s, "Err") # {} => m.count_err > 0

LEMMA DoneNext ==
  ASSUME NEW s \in Seq(EnumConstructs), NEW e, NEW do
  PROVE  DoneIn(Append(s, e), do) = DoneIn(s, do) \cup (IF e.do = do THEN {Len(s) + 1} ELSE {})
BY DEF DoneIn

LEMMA MadeNext ==
  ASSUME NEW s \in Seq(EnumConstructs), NEW e
  PROVE  LET t == Append(s, e)
         IN  /\ MadeIn(t) = MadeIn(s) \cup (IF e.do \in {"Ok", "Err"} THEN {Len(s) + 1} ELSE {})
             /\ e.do \in {"map_err", "unwrap_or"} =>
                  ((\E i \in MadeIn(t) : \E n \in CombinedIn(t) : i < n) <=> MadeIn(s) # {})
             /\ e.do \notin {"map_err", "unwrap_or"} =>
                  ((\E i \in MadeIn(t) : \E n \in CombinedIn(t) : i < n)
                     <=> \E i \in MadeIn(s) : \E n \in CombinedIn(s) : i < n)
<1> DEFINE t == Append(s, e)
           here == Len(s) + 1
<1>1. \A do : DoneIn(t, do) = DoneIn(s, do) \cup (IF e.do = do THEN {here} ELSE {})
  BY DoneNext
<1>2. /\ here \in Nat /\ DOMAIN s = 1 .. Len(s) /\ Len(s) \in Nat
      /\ \A k \in DOMAIN s : k \in Nat /\ k < here
  OBVIOUS
<1>3. MadeIn(s) \subseteq DOMAIN s /\ CombinedIn(s) \subseteq DOMAIN s
  BY DEF MadeIn, CombinedIn, DoneIn
<1> HIDE DEF t, here
<1>4. MadeIn(t) = MadeIn(s) \cup (IF e.do \in {"Ok", "Err"} THEN {here} ELSE {})
  <2>1. DoneIn(t, "Ok") = DoneIn(s, "Ok") \cup (IF e.do = "Ok" THEN {here} ELSE {})
    BY <1>1
  <2>2. DoneIn(t, "Err") = DoneIn(s, "Err") \cup (IF e.do = "Err" THEN {here} ELSE {})
    BY <1>1
  <2> QED BY <2>1, <2>2 DEF MadeIn
<1>5. CombinedIn(t) = CombinedIn(s) \cup (IF e.do \in {"map_err", "unwrap_or"} THEN {here} ELSE {})
  <2>1. DoneIn(t, "map_err") = DoneIn(s, "map_err") \cup (IF e.do = "map_err" THEN {here} ELSE {})
    BY <1>1
  <2>2. DoneIn(t, "unwrap_or") = DoneIn(s, "unwrap_or") \cup (IF e.do = "unwrap_or" THEN {here} ELSE {})
    BY <1>1
  <2> QED BY <2>1, <2>2 DEF CombinedIn
<1>6. \A i \in MadeIn(s) : i < here
  BY <1>2, <1>3
<1>7. \A n \in CombinedIn(s) : n < here /\ n \in Nat
  BY <1>2, <1>3
<1>8. ~(here < here) /\ \A n \in CombinedIn(s) : ~(here < n)
  BY <1>2, <1>7
<1>9. CASE e.do \in {"map_err", "unwrap_or"}
  <2>1. MadeIn(t) = MadeIn(s) /\ CombinedIn(t) = CombinedIn(s) \cup {here}
    BY <1>4, <1>5, <1>9
  <2>2. (\E i \in MadeIn(t) : \E n \in CombinedIn(t) : i < n) <=> MadeIn(s) # {}
    BY <1>6, <2>1
  <2> QED BY <1>4, <1>9, <2>2 DEF t, here
<1>10. CASE e.do \notin {"map_err", "unwrap_or"}
  <2>1. CombinedIn(t) = CombinedIn(s)
    BY <1>5, <1>10
  <2>2. (\E i \in MadeIn(t) : \E n \in CombinedIn(t) : i < n)
          <=> \E i \in MadeIn(s) : \E n \in CombinedIn(s) : i < n
    BY <1>4, <1>8, <2>1
  <2> QED BY <1>4, <1>10, <2>2 DEF t, here
<1> QED BY <1>9, <1>10

\* The counts after a construct: a combinator makes both of one.
LEMMA CounterStepIs ==
  ASSUME NEW m \in EnumMemory, NEW e \in EnumConstructs, Here \in Nat
  PROVE  LET next == CounterStep(m, e)
             some == m.count_ok > 0 \/ m.count_err > 0
         IN  /\ next \in EnumMemory
             /\ next.span = m.span \cup (IF e.do \in {"Ok", "Err", "ok_or"} THEN {Here} ELSE {})
             /\ next.found_try <=> m.found_try \/ e.do = "try"
             /\ next.found_return <=> m.found_return \/ e.do = "return call"
             /\ next.count_ok > 0 <=> \/ m.count_ok > 0 \/ e.do \in {"Ok", "ok_or"}
                                      \/ some /\ e.do \in {"map_err", "unwrap_or"}
             /\ next.count_err > 0 <=> \/ m.count_err > 0 \/ e.do \in {"Err", "ok_or"}
                                       \/ some /\ e.do \in {"map_err", "unwrap_or"}
<1> DEFINE next == CounterStep(m, e)
<1>1. e.do \in {"Ok", "Err", "ok_or", "map_err", "unwrap_or", "try", "return call", "end"}
  BY DEF EnumConstructs
<1>2. ASSUME NEW ok \in {0, 1}, NEW err \in {0, 1}, next = Count(m, ok, err)
      PROVE  /\ next \in EnumMemory /\ next.span = m.span \cup {Here}
             /\ next.found_try = m.found_try /\ next.found_return = m.found_return
             /\ next.count_ok = m.count_ok + ok /\ next.count_err = m.count_err + err
  <2> HIDE DEF next
  <2>1. next = [m EXCEPT !.count_ok = m.count_ok + ok, !.count_err = m.count_err + err,
                         !.span = m.span \cup {Here}]
    BY <1>2 DEF Count, EnumMemory
  <2>2. m.count_ok + ok \in Nat /\ m.count_err + err \in Nat /\ m.span \cup {Here} \in SUBSET Nat
    BY <1>2 DEF EnumMemory
  <2> QED BY <2>1, <2>2 DEF EnumMemory
<1>3. CASE e.do = "Ok"
  <2>1. next = Count(m, 1, 0)
    BY <1>3 DEF CounterStep
  <2> HIDE DEF next
  <2> QED BY <1>2, <1>3, <2>1 DEF EnumMemory, next
<1>4. CASE e.do = "Err"
  <2>1. next = Count(m, 0, 1)
    BY <1>4 DEF CounterStep
  <2> HIDE DEF next
  <2> QED BY <1>2, <1>4, <2>1 DEF EnumMemory, next
<1>5. CASE e.do = "ok_or"
  <2>1. next = Count(m, 1, 1)
    BY <1>5 DEF CounterStep
  <2> HIDE DEF next
  <2> QED BY <1>2, <1>5, <2>1 DEF EnumMemory, next
<1>6. CASE e.do \in {"map_err", "unwrap_or"}
  <2> DEFINE err == IF m.count_ok > 0 THEN m.count_err + 1 ELSE m.count_err
             ok == IF err > 0 THEN m.count_ok + 1 ELSE m.count_ok
  <2>1. next = [m EXCEPT !.count_err = err, !.count_ok = ok]
    BY <1>6 DEF CounterStep, CountOther
  <2>2. /\ err \in Nat /\ ok \in Nat
        /\ ok > 0 <=> m.count_ok > 0 \/ m.count_err > 0
        /\ err > 0 <=> m.count_ok > 0 \/ m.count_err > 0
    BY DEF EnumMemory
  <2> HIDE DEF err, ok, next
  <2>3. /\ next \in EnumMemory /\ next.span = m.span
        /\ next.found_try = m.found_try /\ next.found_return = m.found_return
        /\ next.count_ok = ok /\ next.count_err = err
    BY <2>1, <2>2 DEF EnumMemory
  <2> QED BY <1>6, <2>2, <2>3 DEF next
<1>7. CASE e.do = "try"
  <2>1. next = [m EXCEPT !.found_try = TRUE]
    BY <1>7 DEF CounterStep
  <2> HIDE DEF next
  <2>2. /\ next \in EnumMemory /\ next.span = m.span
        /\ next.found_try = TRUE /\ next.found_return = m.found_return
        /\ next.count_ok = m.count_ok /\ next.count_err = m.count_err
    BY <2>1 DEF EnumMemory
  <2> QED BY <1>7, <2>2 DEF next
<1>8. CASE e.do = "return call"
  <2>1. next = [m EXCEPT !.found_return = TRUE]
    BY <1>8 DEF CounterStep
  <2> HIDE DEF next
  <2>2. /\ next \in EnumMemory /\ next.span = m.span
        /\ next.found_try = m.found_try /\ next.found_return = TRUE
        /\ next.count_ok = m.count_ok /\ next.count_err = m.count_err
    BY <2>1 DEF EnumMemory
  <2> QED BY <1>8, <2>2 DEF next
<1>9. CASE e.do = "end"
  <2>1. next = m
    BY <1>9 DEF CounterStep
  <2> HIDE DEF next
  <2> QED BY <1>9, <2>1 DEF next
<1> QED BY <1>1, <1>3, <1>4, <1>5, <1>6, <1>7, <1>8, <1>9

LEMMA CountKnownNext ==
  ASSUME NEW s \in Seq(EnumConstructs), NEW m, CountKnown(s, m), NEW e \in EnumConstructs,
         Here = Len(s) + 1
  PROVE  CountKnown(Append(s, e), CounterStep(m, e))
<1> DEFINE t == Append(s, e)
           next == CounterStep(m, e)
           some == m.count_ok > 0 \/ m.count_err > 0
<1>1. m \in EnumMemory /\ Here \in Nat
  <2>1. Len(s) + 1 \in Nat
    OBVIOUS
  <2> QED BY <2>1 DEF CountKnown
<1>2. \A do : DoneIn(t, do) = DoneIn(s, do) \cup (IF e.do = do THEN {Here} ELSE {})
  BY DoneNext
<1>3. /\ next \in EnumMemory
      /\ next.span = m.span \cup (IF e.do \in {"Ok", "Err", "ok_or"} THEN {Here} ELSE {})
      /\ next.found_try <=> m.found_try \/ e.do = "try"
      /\ next.found_return <=> m.found_return \/ e.do = "return call"
      /\ next.count_ok > 0 <=> \/ m.count_ok > 0 \/ e.do \in {"Ok", "ok_or"}
                               \/ some /\ e.do \in {"map_err", "unwrap_or"}
      /\ next.count_err > 0 <=> \/ m.count_err > 0 \/ e.do \in {"Err", "ok_or"}
                                \/ some /\ e.do \in {"map_err", "unwrap_or"}
  BY <1>1, CounterStepIs
<1>4. /\ MadeIn(t) = MadeIn(s) \cup (IF e.do \in {"Ok", "Err"} THEN {Here} ELSE {})
      /\ e.do \in {"map_err", "unwrap_or"} =>
           ((\E i \in MadeIn(t) : \E n \in CombinedIn(t) : i < n) <=> MadeIn(s) # {})
      /\ e.do \notin {"map_err", "unwrap_or"} =>
           ((\E i \in MadeIn(t) : \E n \in CombinedIn(t) : i < n)
              <=> \E i \in MadeIn(s) : \E n \in CombinedIn(s) : i < n)
  BY MadeNext
<1> HIDE DEF t, next
<1>5. /\ DoneIn(t, "ok_or") = DoneIn(s, "ok_or") \cup (IF e.do = "ok_or" THEN {Here} ELSE {})
      /\ DoneIn(t, "Ok") = DoneIn(s, "Ok") \cup (IF e.do = "Ok" THEN {Here} ELSE {})
      /\ DoneIn(t, "Err") = DoneIn(s, "Err") \cup (IF e.do = "Err" THEN {Here} ELSE {})
      /\ DoneIn(t, "try") = DoneIn(s, "try") \cup (IF e.do = "try" THEN {Here} ELSE {})
      /\ DoneIn(t, "return call") = DoneIn(s, "return call")
                                    \cup (IF e.do = "return call" THEN {Here} ELSE {})
  BY <1>2
<1>6. next.span = MadeIn(t) \cup DoneIn(t, "ok_or")
  BY <1>3, <1>4, <1>5 DEF CountKnown
<1>7. /\ next.found_try <=> DoneIn(t, "try") # {}
      /\ next.found_return <=> DoneIn(t, "return call") # {}
  BY <1>3, <1>5 DEF CountKnown
<1>8. next.count_ok > 0 \/ next.count_err > 0 <=> next.span # {}
  BY <1>3 DEF CountKnown
<1>9. /\ DoneIn(t, "Ok") # {} => next.count_ok > 0
      /\ DoneIn(t, "Err") # {} => next.count_err > 0
  BY <1>3, <1>5 DEF CountKnown
<1>10. next.count_ok > 0 /\ next.count_err > 0 <=> BothIn(t)
  <2>1. /\ m.count_ok > 0 /\ m.count_err > 0 <=> BothIn(s)
        /\ some <=> m.span # {}
        /\ m.span = MadeIn(s) \cup DoneIn(s, "ok_or")
        /\ MadeIn(s) = DoneIn(s, "Ok") \cup DoneIn(s, "Err")
        /\ DoneIn(s, "Ok") # {} => m.count_ok > 0
        /\ DoneIn(s, "Err") # {} => m.count_err > 0
    BY DEF CountKnown, MadeIn
  <2>2. DoneIn(s, "ok_or") # {} => BothIn(s)
    BY DEF BothIn
  <2> HIDE DEF some
  <2>3. CASE e.do \in {"map_err", "unwrap_or"}
    <3>1. next.count_ok > 0 /\ next.count_err > 0 <=> (m.count_ok > 0 /\ m.count_err > 0) \/ some
      BY <1>3, <2>3 DEF some
    <3>2. BothIn(t) <=> BothIn(s) \/ MadeIn(s) # {}
      BY <1>4, <1>5, <2>3 DEF BothIn
    <3> QED BY <2>1, <2>2, <3>1, <3>2
  <2>4. CASE e.do = "ok_or"
    <3>1. next.count_ok > 0 /\ next.count_err > 0
      BY <1>3, <2>4
    <3>2. BothIn(t)
      BY <1>5, <2>4 DEF BothIn
    <3> QED BY <3>1, <3>2
  <2>5. CASE e.do = "Ok"
    <3>1. next.count_ok > 0 /\ next.count_err > 0 <=> m.count_err > 0
      BY <1>3, <2>5
    <3>2. BothIn(t) <=> BothIn(s) \/ DoneIn(s, "Err") # {}
      BY <1>4, <1>5, <2>5 DEF BothIn
    <3>3. m.count_err > 0 => BothIn(s) \/ DoneIn(s, "Err") # {}
      BY <2>1, <2>2 DEF some
    <3> QED BY <2>1, <3>1, <3>2, <3>3
  <2>6. CASE e.do = "Err"
    <3>1. next.count_ok > 0 /\ next.count_err > 0 <=> m.count_ok > 0
      BY <1>3, <2>6
    <3>2. BothIn(t) <=> BothIn(s) \/ DoneIn(s, "Ok") # {}
      BY <1>4, <1>5, <2>6 DEF BothIn
    <3>3. m.count_ok > 0 => BothIn(s) \/ DoneIn(s, "Ok") # {}
      BY <2>1, <2>2 DEF some
    <3> QED BY <2>1, <3>1, <3>2, <3>3
  <2>7. CASE e.do \notin {"map_err", "unwrap_or", "ok_or", "Ok", "Err"}
    <3>1. next.count_ok > 0 /\ next.count_err > 0 <=> m.count_ok > 0 /\ m.count_err > 0
      BY <1>3, <2>7
    <3>2. BothIn(t) <=> BothIn(s)
      BY <1>4, <1>5, <2>7 DEF BothIn
    <3> QED BY <2>1, <3>1, <3>2
  <2> QED BY <2>3, <2>4, <2>5, <2>6, <2>7
<1> QED BY <1>3, <1>6, <1>7, <1>8, <1>9, <1>10 DEF CountKnown, t, next

EnumInv ==
  /\ walked \in Seq(EnumConstructs) /\ CountKnown(walked, memory)
  /\ \A k \in 1 .. Len(walked) - 1 : walked[k].do # "end"
  /\ reported = IF /\ walked # <<>> /\ walked[Len(walked)].do = "end"
                   /\ IsExamined(walked[Len(walked)]) /\ VariantUnused(memory)
                THEN memory.span ELSE {}

LEMMA EnumFollows == EnumInv /\ VisitEnum => EnumInv'
<1> SUFFICES ASSUME EnumInv, VisitEnum PROVE EnumInv'
  OBVIOUS
<1>1. PICK e \in EnumConstructs :
        Pass(e, CounterStep(memory, e),
             IF e.do = "end" /\ IsExamined(e) /\ VariantUnused(memory) THEN memory.span ELSE {})
  BY DEF VisitEnum
<1>2. /\ walked \in Seq(EnumConstructs) /\ CountKnown(walked, memory)
      /\ \A k \in 1 .. Len(walked) : walked[k].do # "end"
      /\ walked' = Append(walked, e) /\ memory' = CounterStep(memory, e)
      /\ reported' = reported \cup
           (IF e.do = "end" /\ IsExamined(e) /\ VariantUnused(memory) THEN memory.span ELSE {})
  BY <1>1 DEF EnumInv, VisitEnum, Did, Pass
<1>3. /\ walked' \in Seq(EnumConstructs) /\ walked' # <<>> /\ Len(walked') = Len(walked) + 1
      /\ walked'[Len(walked')] = e /\ \A k \in 1 .. Len(walked') - 1 : walked'[k].do # "end"
  BY <1>2
<1>4. CountKnown(walked', memory')
  BY <1>2, CountKnownNext DEF Here
<1>5. reported = {}
  <2>1. walked # <<>> => walked[Len(walked)].do # "end"
    BY <1>2
  <2> QED BY <2>1 DEF EnumInv
<1>6. e.do = "end" => memory' = memory
  BY <1>2 DEF CounterStep
<1>7. reported' = IF e.do = "end" /\ IsExamined(e) /\ VariantUnused(memory')
                  THEN memory.span' ELSE {}
  BY <1>2, <1>5, <1>6
<1> QED BY <1>3, <1>4, <1>7 DEF EnumInv

\* A method whose counts are not both positive makes one variant.
LEMMA EnumIsReported == EnumInv => UnusedVariantsReported
<1> SUFFICES ASSUME EnumInv, DoneIn(walked, "end") # {}, walked[Len(walked)].returns # "named"
             PROVE  reported = IF \/ BothIn(walked) \/ DoneIn(walked, "try") # {}
                                  \/ DoneIn(walked, "return call") # {}
                               THEN {} ELSE MadeIn(walked)
  <2>1. \A do : Did(do) = DoneIn(walked, do)
    BY DEF Did, DoneIn
  <2> QED BY <2>1 DEF UnusedVariantsReported, BothIn, MadeIn, CombinedIn
<1>1. walked # <<>> /\ walked[Len(walked)].do = "end"
  <2>1. PICK n \in DOMAIN walked : walked[n].do = "end"
    BY DEF DoneIn
  <2>2. DOMAIN walked = 1 .. Len(walked) /\ Len(walked) \in Nat
    BY DEF EnumInv
  <2>3. n = Len(walked)
    BY <2>1, <2>2 DEF EnumInv
  <2> QED BY <2>1, <2>2, <2>3
<1>2. reported = IF VariantUnused(memory) THEN memory.span ELSE {}
  BY <1>1 DEF EnumInv, IsExamined
<1>3. /\ memory \in EnumMemory
      /\ memory.span = MadeIn(walked) \cup DoneIn(walked, "ok_or")
      /\ memory.found_try <=> DoneIn(walked, "try") # {}
      /\ memory.found_return <=> DoneIn(walked, "return call") # {}
      /\ memory.count_ok > 0 /\ memory.count_err > 0 <=> BothIn(walked)
  BY DEF EnumInv, CountKnown
<1>4. memory.count_ok = 0 \/ memory.count_err = 0 <=> ~BothIn(walked)
  <2>1. memory.count_ok \in Nat /\ memory.count_err \in Nat
    BY <1>3 DEF EnumMemory
  <2>2. memory.count_ok = 0 \/ memory.count_err = 0 <=> ~(memory.count_ok > 0 /\ memory.count_err > 0)
    BY <2>1
  <2> QED BY <1>3, <2>2
<1>5. VariantUnused(memory) <=> ~(\/ BothIn(walked) \/ DoneIn(walked, "try") # {}
                                  \/ DoneIn(walked, "return call") # {})
  BY <1>3, <1>4 DEF VariantUnused
<1>6. ~BothIn(walked) => DoneIn(walked, "ok_or") = {}
  BY DEF BothIn
<1> QED BY <1>2, <1>3, <1>5, <1>6

LEMMA EnumInvariant ==
  Follows({"unused-return-enum"}, EnumStart, VisitEnum)
    => [](lint \in {"unused-return-enum"} => EnumInv)
<1>1. (lint \in {"unused-return-enum"} => Begin(EnumStart)) => (lint \in {"unused-return-enum"} => EnumInv)
  <2> SUFFICES ASSUME Begin(EnumStart) PROVE EnumInv
    OBVIOUS
  <2>1. /\ walked = <<>> /\ reported = {} /\ walked \in Seq(EnumConstructs)
        /\ memory = [count_ok |-> 0, count_err |-> 0, found_try |-> FALSE, found_return |-> FALSE, span |-> {}]
    BY DEF Begin, EnumStart
  <2>2. \A do : DoneIn(walked, do) = {}
    BY <2>1 DEF DoneIn
  <2>3. MadeIn(walked) = {} /\ CombinedIn(walked) = {}
    BY <2>2 DEF MadeIn, CombinedIn
  <2>4. ~BothIn(walked)
    BY <2>2, <2>3 DEF BothIn
  <2>5. memory \in EnumMemory
    BY <2>1 DEF EnumMemory
  <2>6. /\ ~(memory.count_ok > 0) /\ ~(memory.count_err > 0)
        /\ memory.span = {} /\ memory.found_try = FALSE /\ memory.found_return = FALSE
    BY <2>1
  <2>7. CountKnown(walked, memory)
    BY <2>2, <2>3, <2>4, <2>5, <2>6 DEF CountKnown
  <2> QED BY <2>1, <2>7 DEF EnumInv
<1>2. /\ lint \in {"unused-return-enum"} => EnumInv
      /\ [IF lint \in {"unused-return-enum"} THEN VisitEnum ELSE UNCHANGED lint]_walk
      => (lint \in {"unused-return-enum"} => EnumInv)'
  <2> SUFFICES ASSUME lint \in {"unused-return-enum"} => EnumInv,
                      [IF lint \in {"unused-return-enum"} THEN VisitEnum ELSE UNCHANGED lint]_walk,
                      lint' \in {"unused-return-enum"}
               PROVE  EnumInv'
    OBVIOUS
  <2>1. EnumInv /\ (VisitEnum \/ UNCHANGED walk)
    BY DEF walk
  <2>2. CASE VisitEnum
    BY <2>1, <2>2, EnumFollows
  <2>3. CASE UNCHANGED walk
    BY <2>1, <2>3 DEF EnumInv, walk
  <2> QED BY <2>1, <2>2, <2>3
<1> QED BY <1>1, <1>2, PTL DEF Follows

-----------------------------------------------------------------------------
(* Searches of vectors.                                                       *)

VecInv ==
  walked \in Seq(VecConstructs) /\ reported \subseteq DOMAIN walked /\ SearchesReported

LEMMA VecConstructIs ==
  ASSUME NEW e \in VecConstructs
  PROVE  /\ e.do \in {"let", "block", "close", "find"}
         /\ e.do = "let" => e.v \in Locals
BY DEF VecConstructs

\* What a position stood in does not change.
LEMMA StatementStays ==
  ASSUME NEW E, walked \in Seq(E), NEW e, NEW next, NEW found, Pass(e, next, found)
  PROVE  \A n \in DOMAIN walked : InStatement(n)' <=> InStatement(n)
<1> DEFINE t == Append(walked, e)
<1>1. /\ walked' = t /\ Len(t) = Len(walked) + 1 /\ Len(walked) \in Nat
      /\ DOMAIN walked = 1 .. Len(walked) /\ \A n \in DOMAIN walked : t[n] = walked[n]
  BY DEF Pass
<1>2. \A n : Depth(n) = DepthOf(walked, n) /\ Depth(n)' = DepthOf(t, n)
  <2>1. \A n : Depth(n)' = DepthOf(walked', n)
    BY DEF Depth, DepthOf, Opened, Closed
  <2> QED BY <1>1, <2>1, DepthIs
<1>3. \A n \in 0 .. Len(walked) : DepthOf(t, n) = DepthOf(walked, n)
  BY DepthAppend
<1> HIDE DEF t
<1>4. \A n \in 0 .. Len(walked) : Depth(n)' = Depth(n)
  BY <1>2, <1>3
<1>5. ASSUME NEW n \in DOMAIN walked, NEW i \in 1 .. n
      PROVE  InScope(i, n)' <=> InScope(i, n)
  <2>1. i \in 0 .. Len(walked) /\ \A j \in i .. n - 1 : j \in 0 .. Len(walked)
    BY <1>1
  <2> QED BY <1>4, <2>1 DEF InScope
<1>6. ASSUME NEW n \in DOMAIN walked, NEW i \in 1 .. n PROVE walked'[i] = walked[i]
  BY <1>1
<1> QED BY <1>5, <1>6 DEF InStatement

LEMMA VecFollows == VecInv /\ VisitVec => VecInv'
<1> SUFFICES ASSUME VecInv, VisitVec PROVE VecInv'
  OBVIOUS
<1> DEFINE marked(e) == e.do = "find" /\ IF e.v = Nowhere THEN FindGetStorageExpression(e.from)
                                         ELSE FindStorageLocal(e.v)
<1>1. PICK e \in VecConstructs : Pass(e, memory, Mark(marked(e)))
  BY DEF VisitVec
<1>2. Mark(marked(e)) \subseteq {Here} /\ (Here \in Mark(marked(e)) <=> marked(e))
  BY MarkIs
<1>3. /\ walked' \in Seq(VecConstructs) /\ reported' \subseteq DOMAIN walked'
      /\ Latest' = {Here} /\ Len(walked') = Here /\ walked'[Here] = e
      /\ Here \in reported' <=> marked(e)
  BY <1>1, <1>2, PassMarks DEF VecInv
<1>4. \A n \in DOMAIN walked : InStatement(n)' <=> InStatement(n)
  BY <1>1, StatementStays DEF VecInv
<1>5. /\ walked' = Append(walked, e) /\ Here = Len(walked) + 1 /\ Len(walked) \in Nat
      /\ walked \in Seq(VecConstructs)
  BY <1>1 DEF Pass, Here, VecInv
<1>6. /\ DOMAIN walked = 1 .. Len(walked) /\ DOMAIN walked' = 1 .. Here
      /\ \A n \in DOMAIN walked : walked'[n] = walked[n] /\ n \in DOMAIN walked'
      /\ \A n \in DOMAIN walked' : n \in DOMAIN walked \/ n = Here
  BY <1>5
<1> HIDE DEF marked
<1>7. ASSUME e.do = "find", e.v # Nowhere, marked(e)
      PROVE  ComesFrom(e.v, "typed")' \/ ComesFrom(e.v, "typed elsewhere")'
  <2>1. PICK n \in DOMAIN walked : /\ walked[n].do = "let" /\ walked[n].v = e.v
                                   /\ walked[n].from \in {"typed", "typed elsewhere"}
    BY <1>7 DEF marked, FindStorageLocal, FindGetStorageExpression
  <2>2. ASSUME NEW source, walked[n].from = source PROVE ComesFrom(e.v, source)'
    <3> DEFINE chain == [k \in 1 .. 1 |-> n]
    <3>1. n \in DOMAIN walked' /\ walked'[n].do = "let" /\ walked'[n].v = e.v /\ walked'[n].from = source
      BY <1>6, <2>1, <2>2
    <3>2. n \in Did("let")' /\ 1 \in DOMAIN walked'
      BY <1>5, <1>6, <3>1 DEF Did
    <3>3. chain \in [1 .. 1 -> Did("let")'] /\ chain[1] = n
      BY <3>2
    <3>4. \A k \in 1 .. 1 - 1 : FALSE
      OBVIOUS
    <3> HIDE DEF chain
    <3> QED BY <3>1, <3>2, <3>3, <3>4 DEF ComesFrom
  <2>3. CASE walked[n].from = "typed"
    BY <2>2, <2>3
  <2>4. CASE walked[n].from = "typed elsewhere"
    BY <2>2, <2>4
  <2> QED BY <2>1, <2>3, <2>4
<1>8. ASSUME e.do = "find", e.v # Nowhere, ComesFrom(e.v, "typed")', ~marked(e)
      PROVE  \E n \in Did("let")' : walked'[n].v = e.v /\ (walked'[n].from \in Locals \/ InStatement(n)')
  <2>1. PICK last \in DOMAIN walked' : \E chain \in [1 .. last -> Did("let")'] :
          /\ walked'[chain[1]].v = e.v
          /\ \A k \in 1 .. last - 1 : walked'[chain[k]].from = walked'[chain[k + 1]].v
          /\ walked'[chain[last]].from = "typed"
    BY <1>8 DEF ComesFrom
  <2>2. PICK chain \in [1 .. last -> Did("let")'] :
          /\ walked'[chain[1]].v = e.v
          /\ \A k \in 1 .. last - 1 : walked'[chain[k]].from = walked'[chain[k + 1]].v
          /\ walked'[chain[last]].from = "typed"
    BY <2>1
  <2>3. last \in Nat \ {0}
    BY <1>5, <1>6, <2>1
  <2>4. chain[1] \in Did("let")' /\ walked'[chain[1]].v = e.v
    BY <2>2, <2>3
  <2>5. ASSUME walked'[chain[1]].from \notin Locals PROVE last = 1
    <3>1. ASSUME last # 1 PROVE walked'[chain[1]].from = walked'[chain[2]].v /\ chain[2] \in Did("let")'
      BY <2>2, <2>3, <3>1
    <3>2. ASSUME NEW n \in Did("let")' PROVE walked'[n].v \in Locals
      <4>1. n \in DOMAIN walked' /\ walked'[n].do = "let"
        BY <3>2 DEF Did
      <4>2. walked'[n] \in VecConstructs
        BY <1>3, <4>1
      <4> QED BY <4>1, <4>2, VecConstructIs
    <3> QED BY <2>5, <3>1, <3>2
  <2>6. chain[1] \in DOMAIN walked /\ walked'[chain[1]] = walked[chain[1]] /\ walked[chain[1]].do = "let"
    <3>1. chain[1] \in DOMAIN walked' /\ walked'[chain[1]].do = "let"
      BY <2>4 DEF Did
    <3> QED BY <1>3, <1>6, <1>8, <3>1
  <2>7. ASSUME walked'[chain[1]].from \notin Locals, ~InStatement(chain[1])' PROVE FALSE
    <3>1. walked[chain[1]].from = "typed" /\ walked[chain[1]].v = e.v
      BY <2>2, <2>4, <2>5, <2>6, <2>7
    <3>2. ~InStatement(chain[1])
      BY <1>4, <2>6, <2>7
    <3>3. FindStorageLocal(e.v)
      BY <2>6, <3>1, <3>2 DEF FindStorageLocal, FindGetStorageExpression
    <3> QED BY <1>8, <3>3 DEF marked
  <2> QED BY <2>4, <2>7
<1>9. e.do = "find" /\ e.v = Nowhere => (marked(e) <=> e.from \in {"typed", "typed elsewhere"})
  BY DEF marked, FindGetStorageExpression
<1>10. SearchesReported'
  <2> SUFFICES ASSUME e.do = "find"
               PROVE  LET from(source) == IF e.v = Nowhere THEN e.from = source ELSE ComesFrom(e.v, source)'
                      IN  /\ marked(e) => from("typed") \/ from("typed elsewhere")
                          /\ from("typed") /\ ~marked(e) =>
                               \E n \in Did("let")' :
                                 walked'[n].v = e.v /\ (walked'[n].from \in Locals \/ InStatement(n)')
    BY <1>3 DEF SearchesReported
  <2> QED BY <1>7, <1>8, <1>9
<1> QED BY <1>3, <1>10 DEF VecInv

LEMMA VecInvariant ==
  Follows({"vec-could-be-mapping"}, Nothing, VisitVec)
    => [](lint \in {"vec-could-be-mapping"} => VecInv)
<1>1. (lint \in {"vec-could-be-mapping"} => Begin(Nothing)) => (lint \in {"vec-could-be-mapping"} => VecInv)
  <2> SUFFICES ASSUME Begin(Nothing) PROVE VecInv
    OBVIOUS
  <2>1. walked = <<>> /\ reported = {} /\ walked \in Seq(VecConstructs)
    BY DEF Begin
  <2> QED BY <2>1 DEF VecInv, SearchesReported, Latest
<1>2. /\ lint \in {"vec-could-be-mapping"} => VecInv
      /\ [IF lint \in {"vec-could-be-mapping"} THEN VisitVec ELSE UNCHANGED lint]_walk
      => (lint \in {"vec-could-be-mapping"} => VecInv)'
  <2> SUFFICES ASSUME lint \in {"vec-could-be-mapping"} => VecInv,
                      [IF lint \in {"vec-could-be-mapping"} THEN VisitVec ELSE UNCHANGED lint]_walk,
                      lint' \in {"vec-could-be-mapping"}
               PROVE  VecInv'
    OBVIOUS
  <2>1. VecInv /\ (VisitVec \/ UNCHANGED walk)
    BY DEF walk
  <2>2. CASE VisitVec
    BY <2>1, <2>2, VecFollows
  <2>3. CASE UNCHANGED walk
    <3>1. walked' = walked /\ reported' = reported /\ lint' = lint
      BY <2>3 DEF walk
    <3>2. (\A n : InStatement(n)' <=> InStatement(n)) /\ Did("let")' = Did("let") /\ Latest' = Latest
      BY <3>1 DEF Depth, Did, Latest, InStatement, InScope
    <3>3. \A v, source : ComesFrom(v, source)' <=> ComesFrom(v, source)
      BY <3>1, <3>2 DEF ComesFrom
    <3>4. SearchesReported'
      BY <2>1, <3>1, <3>2, <3>3 DEF VecInv, SearchesReported
    <3> QED BY <2>1, <3>1, <3>2, <3>4 DEF VecInv
  <2> QED BY <2>1, <2>2, <2>3
<1> QED BY <1>1, <1>2, PTL DEF Follows

-----------------------------------------------------------------------------
\* Calls are judged as the properties say, in functions of any length with any locals:
\* those that move tokens by what authorizes them or stands before them, results by
\* where they go, and what the storage is called with by its keys, its types and the
\* lets that a vector went through.
THEOREM CallsAreJudged == CallSpec => []CallsJudged
<1>1. /\ lint \in {"unused-return-enum"} => EnumInv
      /\ lint \in {"unsafe-map-get"} => MapInv
      /\ lint \in {"unchecked-cross-contract-result"} => CallsInv
      /\ lint \in KeyLints => KeyInv
      /\ lint \in {"dynamic-storage"} => ValueInv
      /\ lint \in {"vec-could-be-mapping"} => VecInv
      /\ TransfersJudged
      => CallsJudged
  <2> SUFFICES ASSUME /\ lint \in {"unused-return-enum"} => EnumInv
                      /\ lint \in {"unsafe-map-get"} => MapInv
                      /\ lint \in {"unchecked-cross-contract-result"} => CallsInv
                      /\ lint \in KeyLints => KeyInv
                      /\ lint \in {"dynamic-storage"} => ValueInv
                      /\ lint \in {"vec-could-be-mapping"} => VecInv
                      /\ TransfersJudged
               PROVE  CallsJudged
    OBVIOUS
  <2>1. UnusedVariantsReported
    BY EnumIsReported DEF UnusedVariantsReported
  <2>2. MapGetsReported /\ FailuresReported
    BY DEF MapInv, CallsInv, MapGetsReported, FailuresReported
  <2>3. KeysReported
    BY DEF KeyInv, KeysReported
  <2>4. GrowingValuesReported /\ SearchesReported
    BY DEF ValueInv, VecInv, GrowingValuesReported, SearchesReported
  <2> QED BY <2>1, <2>2, <2>3, <2>4 DEF CallsJudged, ResultsJudged, StoresJudged
<1> QED BY <1>1, TransfersAreJudged, EnumInvariant, MapInvariant, CallsInvariant, KeyInvariant,
           ValueInvariant, VecInvariant, PTL DEF CallSpec
==============================================================================
