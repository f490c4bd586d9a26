--------------------------- MODULE ExpressionLints ---------------------------
(* Detectors that judge one expression: integer-overflow-or-underflow and     *)
(* unscoped-authorize-as-current-contract.                                   *)
EXTENDS ConstantLints

-----------------------------------------------------------------------------
(* integer-overflow-or-underflow.  Leaves are a literal, a parameter and a    *)
(* counter (`let mut i = 0`, assigned later); arithmetic is + - *, other is  *)
(* / and the operators of bits.  An `a op= b` is judged as `a op b` is.      *)
Leaves == {Node(l, <<>>) : l \in {"literal", "param", "counter"}}

Binary == {"arithmetic", "other", "compare", "logic"}

OfBinary(ops, S) == {Node(op, <<l, r>>) : op \in ops, l \in S, r \in S}

OfUnary(S) == {Node(op, <<e>>) : op \in {"negate", "pow", "call"}, e \in S}

Simple == Leaves \cup OfBinary({"arithmetic", "other"}, Leaves) \cup OfUnary(Leaves)

Compared == {e \in Simple : e.op \notin {"negate", "pow"}
                            /\ e.args \in {<<>>, <<Node("param", <<>>), Node("counter", <<>>)>>}}

Comparisons2 == OfBinary({"compare"}, Compared)

Expressions == Simple \cup OfBinary({"arithmetic", "other"}, Simple) \cup OfUnary(Simple)
               \cup Comparisons2 \cup OfBinary({"logic"}, Comparisons2)

RECURSIVE LiteralOnly(_), IsConstantExpr(_)
LiteralOnly(e) == IF e.args = <<>> THEN e.op = "literal"
                  ELSE e.op \notin {"call", "pow"}
                       /\ \A i \in DOMAIN e.args : LiteralOnly(e.args[i])

\* Only operators of two operands are looked through for constant locals.
IsConstantExpr(e) ==
  \/ LiteralOnly(e)
  \/ e.op = "counter"
  \/ e.op \in Binary /\ \A i \in DOMAIN e.args : IsConstantExpr(e.args[i])

IsComplexOperation(e) == e.op \in Binary /\ \E i \in DOMAIN e.args : e.args[i].op \in Binary

IsSimpleFinding(e) == /\ \E i \in DOMAIN e.args : ~IsConstantExpr(e.args[i])
                      /\ e.op \in {"negate", "pow", "arithmetic"}

\* check_pow, check_negate, check_binary and check_assignment.
IsFinding(e) ==
  /\ \E i \in DOMAIN e.args : ~IsConstantExpr(e.args[i])
  /\ \/ e.op \in {"negate", "pow", "arithmetic"}
     \/ e.op \in {"other", "compare"} /\ IsComplexOperation(e)

\* The paths to what visit_expr reports; it does not go into a complex operation.
RECURSIVE Findings(_)
Findings(e) ==
  (IF IsFinding(e) THEN {<<>>} ELSE {}) \cup
  IF IsComplexOperation(e) THEN {}
  ELSE UNION {{<<i>> \o p : p \in Findings(e.args[i])} : i \in DOMAIN e.args}

\* The workspace's profile of a release: what cannot be read counts as "false".
Profiles == {"true", "false", "unknown"}

ReadUnlessDisabled(profile) == profile # "false"

ReadOverflowChecks(profile) == profile = "true"

VisitOverflow ==
  /\ Works({"integer-overflow-or-underflow"})
  /\ \E e \in Expressions, profile \in Profiles :
       Pass([do |-> "evaluate", of |-> e, profile |-> profile], memory,
            Mark(~ReadOverflowChecks(profile) /\ Findings(e) # {}))

RECURSIVE Paths(_), At(_, _), Mentions(_, _)
Paths(e) == {<<>>} \cup UNION {{<<i>> \o p : p \in Paths(e.args[i])} : i \in DOMAIN e.args}

At(e, p) == IF p = <<>> THEN e ELSE At(e.args[Head(p)], Tail(p))

Mentions(e, ops) == e.op \in ops \/ \E i \in DOMAIN e.args : Mentions(e.args[i], ops)

Prefixes(p) == {SubSeq(p, 1, n) : n \in 0 .. Len(p)}

CanOverflow(e) == e.op \in {"arithmetic", "negate", "pow"} /\ Mentions(e, {"param", "counter", "call"})

\* Arithmetic on what is not constant is reported, by itself or with the operation
\* that it is part of, unless that is a logical one or it counts with locals that
\* began as literals; what is reported can overflow, or has an operation in it, for
\* which it stands (lib.rs:277-296), or a power, which is never taken for constant.
\* Nothing is reported exactly where overflow is known to stop the program.
OverflowsReported ==
  lint = "integer-overflow-or-underflow" =>
    \A n \in DOMAIN walked :
      LET e == walked[n].of
          findings == Findings(e)
      IN  /\ \A p \in Paths(e) : CanOverflow(At(e, p)) =>
               \/ Prefixes(p) \cap findings # {}
               \/ ~Mentions(At(e, p), {"param", "call"})
               \/ \E q \in Prefixes(p) : At(e, q).op = "logic" /\ IsComplexOperation(At(e, q))
          /\ \A q \in findings : \/ CanOverflow(At(e, q))
                                 \/ IsComplexOperation(At(e, q))
                                 \/ Mentions(At(e, q), {"pow"})
          /\ n \in reported => walked[n].profile # "true"
          /\ findings # {} /\ n \notin reported => walked[n].profile = "true"

-----------------------------------------------------------------------------
(* unscoped-authorize-as-current-contract.  The entries are a vec of struct    *)
(* literals, whose sub_invocations are a vec of n more; any of them may be   *)
(* bound by a let, or by a `let mut` (to which one element is added).        *)
Wrapped(S) == S \cup {Node(w, <<e>>) : w \in {"let", "let mut"}, e \in S}

SubInvocations == Wrapped({Node("vec", <<>>), Node("vec", <<Unknown>>), Unknown})

Entry == Wrapped({Node("struct", <<s>>) : s \in SubInvocations})

Entries == Wrapped({Node("vec", <<e>>) : e \in Entry}
                   \cup {Node("vec", <<e, f>>) : e \in Entry, f \in {Node("struct", <<Node("vec", <<>>)>>)}})

\* clippy's expr_or_init: the initializer of a local that is not mutable.
ExprOrInit(e) == IF e.op = "let" THEN e.args[1] ELSE e

ClassifyAnyVec(init) == IF init.op = "vec" THEN "NonEmpty" ELSE "Unknown"

ClassifySubInvocations(init) ==
  CASE init.op # "vec" -> "Unknown"
    [] init.op = "vec" /\ init.args = <<>> -> "Empty"
    [] OTHER -> "NonEmpty"

\* EntriesScan: the structs in the tree, without those bound elsewhere.
FoundUnscoped(e) ==
  \E p \in Paths(e) :
    /\ At(e, p).op = "struct"
    /\ \A q \in Prefixes(p) : At(e, q).op \notin {"let", "let mut"}
    /\ ClassifySubInvocations(ExprOrInit(At(e, p).args[1])) = "NonEmpty"

VisitAuthorize ==
  /\ Works({"unscoped-authorize-as-current-contract"})
  /\ \E e \in Entries : Pass([do |-> "authorize", of |-> e], memory,
                             Mark(FoundUnscoped(ExprOrInit(e))))

\* What is certainly handed on: some sub_invocations are not empty.
Delegates(e) == \E p \in Paths(e) :
                  /\ At(e, p).op = "struct"
                  /\ \/ At(e, p).args[1].op = "let mut"
                     \/ ExprOrInit(At(e, p).args[1]) = Node("vec", <<Unknown>>)

\* An authorization is reported only if it hands on the contract's authority, and
\* one that does goes unreported only if an entry, or its vec, is bound by a let
\* that is not looked through.
DelegationsReported ==
  lint = "unscoped-authorize-as-current-contract" =>
    \A n \in DOMAIN walked :
      LET e == walked[n].of
      IN  /\ n \in reported => Delegates(e)
          /\ n \notin reported /\ Delegates(e) =>
               \/ Mentions(e, {"let mut"})
               \/ \E p \in Paths(e) : p # <<>> /\ At(e, p).op = "let" /\ At(e, p).args[1].op = "struct"

\* Each detector of this module judges its expressions right.
ExpressionsJudged == OverflowsReported /\ DelegationsReported
=============================================================================
