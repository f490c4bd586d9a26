---------------------------- MODULE ConstantLints ----------------------------
(* Detectors that pass over what is known at compile time: the analysis of    *)
(* constants (ConstantAnalyzer), the arithmetic that it excuses for          *)
(* unsafe-unwrap (ArithmeticChecker), unsafe-lossy-cast and                  *)
(* dos-unbounded-operation; and those that report what is known:             *)
(* ineffective-extend-ttl and excessive-token-approval.                      *)
EXTENDS BodyWalk

CONSTANTS Numbers,      \* the literals in a body: 0 .. n
          Capped        \* what a method of a constant makes of one: 10.max(n)

\* Nowhere also stands for no constant (None), and for the pattern `_`, which names no local.
ASSUME NowhereAssumption == Nowhere \notin Int \cup Locals

ASSUME NumbersAssumption ==
  /\ Numbers \subseteq Nat /\ Numbers \cap Locals = {}
  /\ Param # Capped /\ {Param, Capped} \cap (Numbers \cup Locals) = {}

-----------------------------------------------------------------------------
(* ConstantAnalyzer, with unsafe-lossy-cast as its user, and the analysis that *)
(* dos-unbounded-operation makes of the ends of a range.  A body has lets,   *)
(* whose initializer is a list of operands in the order they are evaluated   *)
(* in, assignments of unknown values, and casts of one operand to a narrower *)
(* type or loops over a range of two.                                        *)
Operands == Numbers \cup Locals \cup {Param, Capped}

Lists == {<<a>> : a \in Operands} \cup (Operands \X Operands)

ConstantConstructs == [do : {"let"}, v : Locals, of : Lists]
                      \cup [do : {"assign"}, v : Locals, of : {<<>>}]
                      \cup [do : {"use"}, v : {Param}, of : Lists]

\* constants are the locals taken for constants.
ConstantStart == [constants |-> {}]

\* dos-unbounded-operation looks at the receiver of a method, not at its arguments.
IsConstant(m, operand) ==
  \/ operand \in Numbers \cup m.constants
  \/ operand = Capped /\ lint = "dos-unbounded-operation"

AnyOperandConstant(m, list) == \E i \in DOMAIN list : IsConstant(m, list[i])

\* is_expr_constant goes down a whole expression.
IsExprConstant(m, list) == \A i \in DOMAIN list : IsConstant(m, list[i])

VisitLocal(m, e) ==
  [m EXCEPT !.constants = IF IsExprConstant(m, e.of) THEN @ \cup {e.v} ELSE @]

\* An assignment changes nothing for the detector.
ConstantStep(m, e) == IF e.do = "let" THEN VisitLocal(m, e) ELSE m

BoundBefore(v) == \E i \in DOMAIN walked : walked[i].do = "let" /\ walked[i].v = v

VisitConstant ==
  /\ Works({"unsafe-lossy-cast", "dos-unbounded-operation"})
  /\ \E e \in ConstantConstructs :
       /\ \A i \in DOMAIN e.of : e.of[i] \in Locals => BoundBefore(e.of[i])
       /\ e.do = "let" => ~BoundBefore(e.v)
       /\ e.do = "assign" => BoundBefore(e.v)
       /\ e.do = "use" => Len(e.of) = IF lint = "unsafe-lossy-cast" THEN 1 ELSE 2
       /\ Pass(e, ConstantStep(memory, e), Mark(e.do = "use" /\ ~IsExprConstant(memory, e.of)))

\* What one of these locals, a parameter or a method's argument has a part in.
Varies(locals, list) == \E i \in DOMAIN list : list[i] \in {Param, Capped} \cup locals

\* The value at position i depends on a parameter, which reaches it through lets.
Unbounded(i) ==
  LET reached == {v \in Locals : \A S \in SUBSET Locals :
                    (\A n \in 1 .. i : walked[n].do = "let" /\ Varies(S, walked[n].of)
                                         => walked[n].v \in S) => v \in S}
  IN  Varies(reached, walked[i].of)

\* A cast to a narrower type, or a loop over a range, is passed over exactly when
\* no parameter reaches the value through any chain of lets.  Assignments go
\* unnoticed (constant_analyzer/mod.rs:158), and so does, for a range, a
\* parameter in a method of a constant (dos-unbounded-operation/src/lib.rs:118).
UnknownValuesReported ==
  lint \in {"unsafe-lossy-cast", "dos-unbounded-operation"} =>
    \A i \in Latest :
      walked[i].do = "use" =>
        /\ i \in reported => Unbounded(i)
        /\ i \notin reported /\ Unbounded(i) =>
             lint = "dos-unbounded-operation" /\ \E n \in 1 .. i : Capped \in
               {walked[n].of[k] : k \in DOMAIN walked[n].of}

(* is_lossy_cast, for integer types [signed, width]; a width of 0 stands for  *)
(* the types of the size of a pointer.                                       *)
IntTypes == [signed : BOOLEAN, width : {0, 2, 3, 4, 5}]

IsLossyCastByWidth(src, dst) == src.width > dst.width

IsLossyCast(src, dst) ==
  /\ src.width # 0 /\ dst.width # 0
  /\ \/ src.signed = dst.signed /\ src.width > dst.width
     \/ src.signed /\ ~dst.signed
     \/ ~src.signed /\ dst.signed /\ dst.width <= src.width

Values(type) == IF type.signed THEN -(2^(type.width - 1)) .. 2^(type.width - 1) - 1
                ELSE 0 .. 2^type.width - 1

\* A cast between types of a known width is lossy exactly when some value of the
\* one is no value of the other: at every boundary of width and of sign.
LossyCastsRight ==
  lint = "unsafe-lossy-cast" /\ walked = <<>> =>
    \A src, dst \in {t \in IntTypes : t.width # 0} :
      IsLossyCast(src, dst) <=> ~(Values(src) \subseteq Values(dst))

-----------------------------------------------------------------------------
(* ArithmeticChecker: a.checked_div(b).unwrap() and a.checked_sub(b).unwrap() *)
(* are passed over when the `if` around them has compared the operands.      *)
Operand == Numbers \cup Locals

Comparisons == {"==", "!=", "<", "<=", ">", ">="}

SomeLocal == (Operand \X Operand) \ (Numbers \X Numbers)

ArithmeticConstructs ==
  [do : {"if"}, op : Comparisons, args : SomeLocal]
  \cup [do : {"checked_div", "checked_sub"}, op : {"unwrap"}, args : SomeLocal]
  \cup [do : {"close"}, op : {""}, args : {<<>>}]

\* context is what the detector knows of a local; conditions are those in force.
ArithmeticStart == [context |-> [v \in {} |-> 0], conditions |-> <<>>]

Know(context, v, info) ==
  [w \in DOMAIN context \cup {v} |-> IF w = v THEN info ELSE context[w]]

\* A comparison with a number, whichever way it is turned, and one of two locals.
AnalyzeCondition(context, op, args) ==
  LET l == args[1]
      r == args[2]
      var == IF l \in Numbers THEN r ELSE l
      n == IF l \in Numbers THEN l ELSE r
  IN  CASE {l, r} \cap Numbers # {} /\ op \in {"==", "!="} ->
             Know(context, var, [max |-> 0, nonzero |-> (n = 0) = (op = "!="), than |-> Param])
        [] {l, r} \cap Numbers # {} /\ op \notin {"==", "!="} ->
             Know(context, var, [max |-> n, nonzero |-> n # 0, than |-> Param])
        [] {l, r} \cap Numbers = {} /\ op \in {">", ">="} ->
             Know(context, l, [max |-> 0, nonzero |-> FALSE, than |-> r])
        [] {l, r} \cap Numbers = {} /\ op \in {"<", "<="} ->
             Know(context, r, [max |-> 0, nonzero |-> FALSE, than |-> l])
        [] OTHER -> context

\* Leaving an `if`, everything known is forgotten.
ArithmeticStep(m, e) ==
  CASE e.do = "if" -> [context |-> AnalyzeCondition(m.context, e.op, e.args),
                       conditions |-> Append(m.conditions, <<e.op, e.args>>)]
    [] e.do = "close" -> [context |-> [v \in {} |-> 0], conditions |-> Pop(m.conditions)]
    [] OTHER -> m

SafeOnceCompared(context, e) == \E i \in {1, 2} : e.args[i] \in DOMAIN context

IsArithmeticSafe(context, e) ==
  LET l == e.args[1]
      r == e.args[2]
      known(x) == x \in DOMAIN context
  IN  IF e.do = "checked_div"
      THEN IF r \in Numbers THEN r # 0 ELSE known(r) /\ context[r].nonzero
      ELSE CASE l \in Numbers -> known(r) /\ context[r].max <= l
             [] r \in Numbers -> known(l) /\ context[l].max >= r
             [] OTHER -> /\ known(l) /\ known(r)
                         /\ \/ context[l].than = r
                            \/ context[r].max <= context[l].max

VisitArithmetic ==
  /\ Works({"unsafe-unwrap of arithmetic"})
  /\ \E e \in ArithmeticConstructs :
       Pass(e, ArithmeticStep(memory, e),
            Mark(/\ e.do \in {"checked_div", "checked_sub"}
                 /\ ~IsArithmeticSafe(memory.context, e)))

\* What the locals may hold under a condition.
Holds(cond, val) ==
  LET a(x) == IF x \in Numbers THEN x ELSE val[x]
      l == a(cond[2][1])
      r == a(cond[2][2])
  IN  CASE cond[1] = "==" -> l = r [] cond[1] = "!=" -> l # r
        [] cond[1] = "<" -> l < r [] cond[1] = "<=" -> l <= r
        [] cond[1] = ">" -> l > r [] cond[1] = ">=" -> l >= r

Fails(e, val) ==
  LET a(x) == IF x \in Numbers THEN x ELSE val[x]
  IN  IF e.do = "checked_div" THEN a(e.args[2]) = 0 ELSE a(e.args[1]) < a(e.args[2])

\* The condition gives v a lower bound that is a number.
LowerBound(cond, v) == \/ cond[2][1] = v /\ cond[1] \in {">", ">="} /\ cond[2][2] \in Numbers
                       \/ cond[2][2] = v /\ cond[1] \in {"<", "<="} /\ cond[2][1] \in Numbers

Equation(cond) == cond[1] \in {"==", "!="}

\* A checked operation that is passed over under one comparison cannot fail, when
\* that comparison is an equation or bounds from below a divisor or what is
\* subtracted from: the other comparisons are taken for what they do not say.
ArithmeticExcused ==
  lint = "unsafe-unwrap of arithmetic" =>
    \A i \in Latest :
      LET e == walked[i]
          cond == memory.conditions[1]
          subject == IF e.do = "checked_div" THEN e.args[2] ELSE e.args[1]
      IN  /\ e.do \in {"checked_div", "checked_sub"} /\ i \notin reported
          /\ Len(memory.conditions) = 1 /\ walked[1].do = "if" /\ Depth(i) = 1
          /\ LowerBound(cond, subject) \/ (Equation(cond) /\ e.do = "checked_div")
          => \A val \in [Locals -> Numbers] : Holds(cond, val) => ~Fails(e, val)

-----------------------------------------------------------------------------
(* ineffective-extend-ttl: extend_ttl(threshold, extend_to), after lets of     *)
(* locals (Nowhere is `_`) and assignments `v += 1`.                         *)
Literal(n) == Node("literal", <<n>>)

Local(v) == Node("local", <<v>>)

Unknown == Node("unknown", <<>>)

Sum2(l, r) == Node("+", <<l, r>>)

Ttls == {Literal(1), Literal(2), Unknown} \cup {Local(v) : v \in Locals}

TtlConstructs ==
  [do : {"let"}, v : Locals \cup {Nowhere}, of : {<<e>> : e \in Ttls \cup
     {Sum2(Literal(1), Node("call", <<>>))}}]
  \cup [do : {"assign"}, v : Locals, of : {<<>>}]
  \cup [do : {"extend_ttl"}, v : {Nowhere},
        of : LET args == Ttls \cup {Sum2(e, Literal(1)) : e \in Ttls} IN args \X args]

\* The detector's constants, its current_constant and the initializers that it
\* collected; and, as a linear form, what each local holds.
TtlStart == [constants |-> <<>>, current_constant |-> Nowhere, inits |-> <<>>, holds |-> <<>>]

With(f, v, value) == IF v = Nowhere THEN f
                     ELSE [w \in DOMAIN f \cup {v} |-> IF w = v THEN value ELSE f[w]]

\* is_expr_constant, and what it leaves in current_constant.
EvaluateOne(m, e) ==
  CASE e.op = "literal" -> [constant |-> TRUE, current |-> e.args[1]]
    [] e.op = "local" -> [constant |-> e.args[1] \in DOMAIN m.constants,
                          current |-> m.current_constant]
    [] OTHER -> [constant |-> FALSE, current |-> m.current_constant]

Evaluate(m, e) ==
  LET left == EvaluateOne(m, e.args[1])
  IN  IF e.op # "+" THEN EvaluateOne(m, e)
      ELSE IF left.constant THEN EvaluateOne([m EXCEPT !.current_constant = left.current], e.args[2])
      ELSE left

Form(unknown, call, plus) == [unknown |-> unknown, call |-> call, plus |-> plus]

FormOfOne(holds, e) ==
  CASE e.op = "literal" -> Form(0, 0, e.args[1])
    [] e.op = "unknown" -> Form(1, 0, 0)
    [] e.op = "call"    -> Form(0, 1, 0)
    [] e.op = "local"   -> holds[e.args[1]]

Added(f, g) == Form(f.unknown + g.unknown, f.call + g.call, f.plus + g.plus)

FormOf(holds, e) == IF e.op = "+" THEN Added(FormOfOne(holds, e.args[1]), FormOfOne(holds, e.args[2]))
                    ELSE FormOfOne(holds, e)

TtlStep(m, e) ==
  CASE e.do = "let" ->
         LET result == Evaluate(m, e.of[1])
         IN  [constants |-> IF result.constant THEN With(m.constants, e.v, result.current)
                            ELSE m.constants,
              current_constant |-> IF result.constant THEN Nowhere ELSE result.current,
              inits |-> With(m.inits, e.v, e.of[1]),
              holds |-> With(m.holds, e.v, FormOf(m.holds, e.of[1]))]
    [] e.do = "assign" -> [m EXCEPT !.holds[e.v].plus = @ + 1]
    [] OTHER -> m

GetConstant(m, e) ==
  CASE e.op = "literal" -> e.args[1]
    [] e.op = "local" /\ e.args[1] \in DOMAIN m.constants -> m.constants[e.args[1]]
    [] e.op = "+" /\ \A i \in {1, 2} : e.args[i].op = "literal" -> e.args[1].args[1] + e.args[2].args[1]
    [] OTHER -> Nowhere

\* One operand is another one, when the locals of these pairs are the same.
AreSameOne(same, a, b) ==
  \/ a = b /\ a.op \notin {"+", "call"}
  \/ a.op = "local" /\ b.op = "local" /\ <<a.args[1], b.args[1]>> \in same

AreSame(same, a, b) ==
  \/ AreSameOne(same, a, b)
  \/ a.op = "+" /\ b.op = "+" /\ \A i \in {1, 2} : AreSameOne(same, a.args[i], b.args[i])

\* are_paths_equiv: two locals are the same when their initializers are, for which
\* those have to be in turn.
SameLocals(m) ==
  LET pairs == (DOMAIN m.inits) \X (DOMAIN m.inits)
      closed(same) == \A p \in pairs : AreSame(same, m.inits[p[1]], m.inits[p[2]]) => p \in same
  IN  {p \in pairs : \A same \in SUBSET pairs : closed(same) => p \in same}

SameKind(m, a, b) == a.op = b.op /\ a.op # "call"

AreEquivalent(m, a, b) == AreSame(SameLocals(m), a, b)

IsIneffective(m, threshold, extend_to) ==
  \/ AreEquivalent(m, threshold, extend_to)
  \/ /\ Nowhere \notin {GetConstant(m, threshold), GetConstant(m, extend_to)}
     /\ GetConstant(m, extend_to) <= GetConstant(m, threshold)

LocalsOf(e) == LET operands == IF e.op = "+" THEN {e.args[1], e.args[2]} ELSE {e}
               IN  {o.args[1] : o \in {o \in operands : o.op = "local"}}

VisitTtl ==
  /\ Works({"ineffective-extend-ttl"})
  /\ \E e \in TtlConstructs :
       /\ \A i \in DOMAIN e.of : \A v \in LocalsOf(e.of[i]) : BoundBefore(v)
       /\ \A i \in DOMAIN walked : walked[i].do # "extend_ttl"
       /\ e.do = "let" /\ e.v # Nowhere => ~BoundBefore(e.v)
       /\ e.do = "assign" => BoundBefore(e.v)
       /\ Pass(e, TtlStep(memory, e),
               Mark(e.do = "extend_ttl" /\ IsIneffective(memory, e.of[1], e.of[2])))

Assigned == \E i \in DOMAIN walked : walked[i].do = "assign"

\* A local was copied after a sum that is constant up to its last operand.
Stale == \E i, j \in DOMAIN walked :
           /\ i < j /\ walked[i].do = "let" /\ walked[j].do = "let"
           /\ walked[i].of[1].op = "+" /\ walked[j].of[1].op = "local"

\* It cannot make anything live longer.
Ineffective(threshold, extend_to) ==
  \A f \in {"unknown", "call", "plus"} : extend_to[f] <= threshold[f]

\* What is reported cannot lengthen a life, unless a local was assigned, or one was
\* copied after a sum that is constant up to its last operand: the copy then has
\* the constant of that sum (constant_analyzer/mod.rs:162).  Between literals,
\* and locals that are bound to one and never assigned, nothing is missed.
TtlsJudged ==
  lint = "ineffective-extend-ttl" /\ walked # <<>> /\ walked[Len(walked)].do = "extend_ttl" =>
    LET of == walked[Len(walked)].of
        plain(e) == \/ e.op = "literal"
                    \/ e.op = "local" /\ memory.inits[e.args[1]].op = "literal"
        ineffective == Ineffective(FormOf(memory.holds, of[1]), FormOf(memory.holds, of[2]))
    IN  /\ Len(walked) \in reported => ineffective \/ Assigned \/ Stale
        /\ plain(of[1]) /\ plain(of[2]) /\ ineffective /\ ~Assigned => Len(walked) \in reported

-----------------------------------------------------------------------------
(* excessive-token-approval: approve(.., &amount, &expiration_ledger) of the   *)
(* token's client or of another one, after the same lets and assignments.    *)
(* The largest of each type is MAX, and negative numbers have larger bits.   *)
MAX == 9

SLACK == 1

Bits(n) == IF n < 0 THEN 2 * (MAX + 1) + n ELSE n

Approved == {Literal(n) : n \in {-1, 1, MAX - 1}} \cup {Unknown, Sum2(Literal(MAX - 1), Literal(1))}
            \cup {Local(v) : v \in Locals}

ApprovalConstructs ==
  [do : {"let"}, v : Locals \cup {Nowhere}, of : {<<e>> : e \in
     {Literal(1), Literal(MAX - 1), Unknown, Sum2(Literal(MAX - 1), Node("call", <<>>))}
     \cup {Local(v) : v \in Locals}}]
  \cup [do : {"assign"}, v : Locals, of : {<<>>}]
  \cup [do : {"approve", "approve of another client"}, v : {Nowhere}, of : Approved \X Approved]

LargerBits(constant) == constant # Nowhere /\ Bits(constant) >= MAX - SLACK

\* amount_is_excessive and expiration_is_excessive.
IsExcessive(constant) == constant # Nowhere /\ Bits(constant) \in MAX - SLACK .. MAX

VisitApproval ==
  /\ Works({"excessive-token-approval"})
  /\ \E e \in ApprovalConstructs :
       /\ \A i \in DOMAIN e.of : \A v \in LocalsOf(e.of[i]) : BoundBefore(v)
       /\ \A i \in DOMAIN walked : walked[i].do \in {"let", "assign"}
       /\ e.do = "let" /\ e.v # Nowhere => ~BoundBefore(e.v)
       /\ e.do = "assign" => BoundBefore(e.v)
       /\ Pass(e, TtlStep(memory, e),
               Mark(e.do = "approve" /\ \E i \in {1, 2} : IsExcessive(GetConstant(memory, e.of[i]))))

\* An approval is reported only if its amount or its expiration is near the largest
\* there is, unless a local was assigned or has the constant of an unfinished sum;
\* one that is written so, or through one local that is never assigned, is not
\* missed: a copy of that local has no constant (constant_analyzer/mod.rs:162).
ApprovalsReported ==
  lint = "excessive-token-approval" =>
    \A n \in Latest :
      LET of == walked[n].of
          excessive(e) == LET form == FormOf(memory.holds, e)
                          IN  form.unknown = 0 /\ form.call = 0 /\ form.plus >= MAX - SLACK
          copied(e) == e.op = "local" /\ memory.inits[e.args[1]].op = "local"
      IN  walked[n].do = "approve" =>
            /\ n \in reported => Assigned \/ Stale \/ \E i \in {1, 2} : excessive(of[i])
            /\ n \notin reported =>
                 Assigned \/ \A i \in {1, 2} : excessive(of[i]) => copied(of[i])

-----------------------------------------------------------------------------
ConstantSpec ==
  /\ Follows({"unsafe-lossy-cast", "dos-unbounded-operation"}, ConstantStart, VisitConstant)
  /\ Follows({"unsafe-unwrap of arithmetic"}, ArithmeticStart, VisitArithmetic)
  /\ Follows({"ineffective-extend-ttl"}, TtlStart, VisitTtl)
  /\ Follows({"excessive-token-approval"}, TtlStart, VisitApproval)

\* What is passed over as constant is constant, what is excused by a comparison
\* cannot fail, and a lifetime or an approval is judged by the constants it has.
ConstantsJudged == UnknownValuesReported /\ LossyCastsRight /\ ArithmeticExcused
                   /\ TtlsJudged /\ ApprovalsReported
=============================================================================
