---------------------------- MODULE DivisionLints ----------------------------
(* divide-before-multiply: what was divided is followed through the basic      *)
(* blocks of the function (each is visited once), and a product written as    *)
(* one expression is searched for divisions.                                 *)
EXTENDS ExpressionLints

(* A body has `if`, else, `while` (loop), one product of v, quotients that go  *)
(* into v by a division of some name, and one `v = w`, `v = w as T` or        *)
(* `v = unknown`.  A checked_div of another type has another definition.     *)
Quotients == {"checked_div", "checked_div of another type", "saturating_div", "/"}

\* Without overflow checks a product is the operator Mul, not MulWithOverflow.
Products == {"checked_mul", "saturating_mul", "*", "* unchecked"}

Statement(do, v, from) == [do |-> do, v |-> v, from |-> from]

DivisionStatements ==
  {Statement(do, Nowhere, "") : do \in {"if", "else", "loop", "close", "end"}}
  \cup {Statement("divide", v, name) : v \in Locals, name \in Quotients}
  \cup {Statement("multiply", v, name) : v \in Locals, name \in Products}
  \cup {Statement(do, pair[1], pair[2]) : do \in {"copy", "cast"},
                                           pair \in {p \in Locals \X Locals : p[1] # p[2]}}
  \cup {Statement("set", v, "") : v \in Locals}

\* The last definition of a name is the one that is looked for.
Definition(name) ==
  LET of(n) == walked[n].from \in {name, name \o " of another type"}
      uses == {n \in DOMAIN walked : of(n)}
  IN  {walked[n].from : n \in {n \in uses : \A k \in uses : k <= n}}

IsNavigated == \E name \in {"checked_div", "checked_mul", "saturating_mul"} : Definition(name) # {}

Divides(e) == /\ e.do = "divide"
              /\ e.from \in {"/", "saturating_div"} \cup Definition("checked_div")

ElseOf(i) == {k \in i + 1 .. Len(walked) : walked[k].do = "else" /\ Depth(k) = Depth(i) /\ InScope(i, k)}

CloseOf(i) == CHOOSE k \in i + 1 .. Len(walked) : walked[k].do = "close" /\ Opener(k) = i

OpenerOfElse(k) == CHOOSE i \in 1 .. k : walked[i].do = "if" /\ k \in ElseOf(i)

\* The blocks that the one at i ends with, in the order of all_targets: the value
\* 0 of a condition first, so the else branch, or what follows the loop.
AllTargets(i) ==
  CASE walked[i].do = "if" /\ ElseOf(i) # {} -> <<1 + CHOOSE k \in ElseOf(i) : TRUE, i + 1>>
    [] walked[i].do = "if" /\ ElseOf(i) = {} -> <<CloseOf(i), i + 1>>
    [] walked[i].do = "loop" -> <<CloseOf(i) + 1, i + 1>>
    [] walked[i].do = "else" -> <<CloseOf(OpenerOfElse(i))>>
    [] walked[i].do = "close" /\ walked[Opener(i)].do = "loop" -> <<Opener(i)>>
    [] walked[i].do = "end" -> <<>>
    [] OTHER -> <<i + 1>>

\* A copy takes the taint with it, as if it were a move.
TaintMoves(tainted, i) ==
  LET e == walked[i]
  IN  CASE Divides(e) -> tainted \cup {e.v}
        [] e.do = "copy" /\ e.from \notin tainted -> tainted
        [] e.do = "copy" -> (tainted \ {e.from}) \cup {e.v}
        [] OTHER -> tainted

\* A local stays tainted, whatever is assigned to it later; a cast takes no taint along.
Taint(tainted, i) ==
  LET e == walked[i]
  IN  IF Divides(e) \/ (e.do = "copy" /\ e.from \in tainted) THEN tainted \cup {e.v} ELSE tainted

\* `||` binds weaker than `&&`: an unchecked product is reported whatever it is of.
ReportsProduct(tainted, i) ==
  walked[i].do = "multiply" /\ (walked[i].from = "* unchecked" \/ walked[i].v \in tainted)

RECURSIVE NavigateAgain(_, _), Navigate(_, _)
NavigateAgain(s, blocks) ==
  IF blocks = <<>> THEN s ELSE NavigateAgain(Navigate(s, Head(blocks)), Tail(blocks))

\* Depth first; what comes back to a block that was visited is not followed again.
Navigate(s, i) ==
  IF i \in s.visited \/ i > Len(walked) THEN s
  ELSE NavigateAgain([visited |-> s.visited \cup {i},
                      tainted |-> Taint(s.tainted, i),
                      spans |-> IF ReportsProduct(s.tainted, i) THEN s.spans \cup {i} ELSE s.spans],
                     AllTargets(i))

\* check_fn, when the whole function is there.
DivisionSpans ==
  IF IsNavigated THEN Navigate([visited |-> {}, tainted |-> {}, spans |-> {}], 1).spans ELSE {}

\* check_expr: divisions anywhere in an expression that is a product.
GetDivisionsInsideExpr(e) == {p \in Paths(e) \ {<<>>} : At(e, p).op = "/"}

ProductsInside(e) == {q \in Paths(e) : At(e, q).op = "*"}

CheckOutermost(e) == IF e.op = "*" THEN GetDivisionsInsideExpr(e) ELSE {}

CheckExpr(e) == UNION {{q \o p : p \in GetDivisionsInsideExpr(At(e, q))} : q \in ProductsInside(e)}

A == Node("a", <<>>)

Factors == LET flat == {A, Node("/", <<A, A>>)}
           IN  flat \cup {Node("f", <<t>>) : t \in flat} \cup {Node("*", <<t, A>>) : t \in flat}

Products2 == {Node(op, <<l, r>>) : op \in {"*", "/"}, l \in Factors, r \in Factors}

Has(do) == {n \in DOMAIN walked : walked[n].do = do}

VisitProducts ==
  /\ Works({"divide-before-multiply"})
  /\ \/ \E e \in DivisionStatements :
          /\ Has("end") \cup Has("expression") = {}
          /\ e.do = "else" => \E i \in Has("if") : InScope(i, Here) /\ Depth(i) = Depth(Len(walked))
                                                   /\ ElseOf(i) = {}
          /\ e.do = "multiply" => Has("multiply") = {}
          /\ e.do \in {"copy", "cast", "set"} => Has("copy") \cup Has("cast") \cup Has("set") = {}
          /\ e.do = "divide" => Cardinality(Has("divide")) < 2
          /\ e.do \in {"if", "loop"} => Has("if") \cup Has("loop") = {}
          /\ e.do = "end" => Depth(Len(walked)) = 0 /\ Has("multiply") # {}
          /\ Pass(e, memory, IF e.do = "end" THEN DivisionSpans ELSE {})
     \/ \E e \in Products2 :
          /\ walked = <<>>
          /\ Pass([do |-> "expression", of |-> e], memory, Mark(CheckExpr(e) # {}))

-----------------------------------------------------------------------------
\* What a statement leaves divided, of what was divided before it.
After(e, divided) ==
  CASE e.do = "divide" -> divided \cup {e.v}
    [] e.do = "set" -> divided \ {e.v}
    [] e.do \in {"copy", "cast"} -> IF e.from \in divided THEN divided \cup {e.v} ELSE divided \ {e.v}
    [] OTHER -> divided

\* The locals that may hold a quotient before each statement: the least solution.
RECURSIVE Divided(_)
Divided(before) ==
  LET into(k) == {i \in DOMAIN walked : \E t \in DOMAIN AllTargets(i) : AllTargets(i)[t] = k}
      next == [k \in DOMAIN walked |->
                 before[k] \cup UNION {After(walked[i], before[i]) : i \in into(k)}]
  IN  IF next = before THEN before ELSE Divided(next)

IsQuotient(i) == walked[i].v \in Divided([k \in DOMAIN walked |-> {}])[i]

\* The statement at n stands in a branch or a loop that the one at i is not in.
LeftBehind(n, i) == \E o \in Has("if") \cup Has("loop") :
                      o < n /\ InScope(o, n) /\ (i < o \/ ~InScope(o, i) \/ ElseOf(o) # {})

InLoop(i) == \E o \in Has("loop") : o < i /\ InScope(o, i)

\* A product of what may hold a quotient is passed over only when the quotient
\* comes from a branch or a loop (the branch for FALSE, and what follows a loop, are
\* visited first, with all that comes after them), from an earlier turn of a loop, or
\* from a cast, when no checked operation is in the function, or when it has a checked_div of
\* more than one type.  In a function without branches, one that is reported is a product
\* of a quotient, or of a local that held one before, or is unchecked.
QuotientsFollowed ==
  lint = "divide-before-multiply" /\ Has("end") # {} =>
    \A i \in Has("multiply") :
      /\ IsQuotient(i) /\ i \notin reported =>
           \/ \E n \in Has("divide") \cup Has("copy") : LeftBehind(n, i)
           \/ \E n \in Has("cast") : walked[n].v = walked[i].v
           \/ InLoop(i)
           \/ ~IsNavigated
           \/ \E n \in Has("divide") : ~Divides(walked[n])
      /\ i \in reported /\ ~IsQuotient(i) =>
           \/ walked[i].from = "* unchecked"
           \/ Has("if") \cup Has("loop") # {}
           \/ \E n \in Has("set") \cup Has("copy") \cup Has("cast") : walked[n].v = walked[i].v

\* The value of e is made of a quotient.
RECURSIVE Inexact(_)
Inexact(e) == e.op = "/" \/ (e.op = "*" /\ \E i \in DOMAIN e.args : Inexact(e.args[i]))

\* A product of a quotient, in one expression, is always reported, and what is
\* reported is one, or has a call with a quotient in it.
QuotientsInProducts ==
  lint = "divide-before-multiply" /\ Has("expression") # {} =>
    LET e == walked[1].of
        loses == \E q \in ProductsInside(e) : \E i \in {1, 2} : Inexact(At(e, q).args[i])
    IN  /\ loses => reported # {}
        /\ reported # {} => loses \/ Mentions(e, {"f"})

ProductsJudged == QuotientsFollowed /\ QuotientsInProducts
=============================================================================
