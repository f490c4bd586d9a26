----------------------------- MODULE GuardLints -----------------------------
(* Detectors of an operation that panics unless a check comes before it:     *)
(* division-by-zero, and unsafe-unwrap and unsafe-expect, which share the    *)
(* visitor UnsafeChecks.                                                     *)
EXTENDS BodyWalk

ASSUME LocalsAssumption == IsFiniteSet(Locals)

-----------------------------------------------------------------------------
(* division-by-zero.  A body has blocks, `if v != 0` (then), an `if` whose   *)
(* branch for v = 0 diverges (zero), one whose branch for an empty v         *)
(* diverges (empty), `let v = e.max(1)` (let), divisions by v and by v.len(),*)
(* and by v in what follows `w != 0 &&` in a condition.                      *)
Divisions == {"divide", "divide by len", "divide in condition"}

DivisionConstructs ==
  [do : {"block", "close"}, v : {0}] \cup
  [do : {"then", "zero", "empty", "let"} \cup Divisions, v : Locals]

DivisionStart == [guarded |-> {}, nonempty |-> {}, scopes |-> <<>>]

\* What holds when the visitor is inside of e, and what to undo on the way out.
EnterBlock(m, e, inserted) ==
  [m EXCEPT !.guarded = @ \cup inserted,
            !.scopes = Append(@, [opened |-> e, inserted |-> inserted,
                                  guarded |-> m.guarded \cup inserted,
                                  nonempty |-> m.nonempty])]

\* Only the locals that were not guarded before are removed at the end.
InsertedAnyway(m, e) == IF e.do = "then" THEN {e.v} ELSE {}

Inserted(m, e) == IF e.do = "then" THEN {e.v} \ m.guarded ELSE {}

\* Guards do not leak out of their block; the one that a diverging `if` makes is
\* for what follows that `if`.
LeaveBlock(m) ==
  LET scope == Top(m.scopes)
      made(kind) == IF scope.opened.do = kind THEN {scope.opened.v} ELSE {}
  IN  [guarded |-> ((m.guarded \cap scope.guarded) \ scope.inserted) \cup made("zero"),
       nonempty |-> scope.nonempty \cup made("empty"),
       scopes |-> Pop(m.scopes)]

DivisionStep(m, e) ==
  CASE e.do \in Opening -> EnterBlock(m, e, Inserted(m, e))
    [] e.do = "close"   -> LeaveBlock(m)
    [] e.do = "let"     -> [m EXCEPT !.guarded = @ \cup {e.v}]
    [] OTHER            -> m

\* A condition that proves something is not visited.
DivisorIsUnsafe(m, e) == \/ e.do = "divide" /\ e.v \notin m.guarded
                         \/ e.do = "divide by len" /\ e.v \notin m.nonempty

VisitDivision ==
  /\ Works({"division-by-zero"})
  /\ \E e \in DivisionConstructs :
       /\ e.do = "let" => \A i \in DOMAIN walked : walked[i].v # e.v
       /\ e.do = "divide in condition" =>
            walked # <<>> /\ Top(walked).do \in {"then", "divide in condition"}
       /\ Pass(e, DivisionStep(memory, e), Mark(DivisorIsUnsafe(memory, e)))

\* The check at n is about what is asked for at i, and dominates it.
Checks(n, i) ==
  /\ walked[n].do \in Opening => i > n
  /\ CASE walked[n].do = "then"  -> walked[n].v = walked[i].v /\ walked[i].do = "divide"
       [] walked[n].do = "let"   -> walked[n].v = walked[i].v /\ walked[i].do = "divide"
       [] walked[n].do = "close" ->
            \E o \in 1 .. n :
              /\ Opens(o, n) /\ walked[o].v = walked[i].v
              /\ <<walked[o].do, walked[i].do>> \in {<<"zero", "divide">>, <<"empty", "divide by len">>}
       [] OTHER -> FALSE
  /\ InScope(n, i)

\* A division is reported exactly when no check of its divisor dominates it
\* (division-by-zero/src/lib.rs:19): a check protects what follows it in its own
\* block, blocks in blocks included, nothing beside or after that block, and a
\* second check of the same local does not end the protection of the first.  In a
\* condition that checks a local no division is ever reported.
DivisionsReported ==
  lint = "division-by-zero" =>
    \A i \in Latest :
      walked[i].do \in Divisions =>
        (i \in reported <=> /\ walked[i].do # "divide in condition"
                            /\ ~\E n \in 1 .. i - 1 : Checks(n, i))

-----------------------------------------------------------------------------
(* unsafe-unwrap and unsafe-expect.  A body has `if` with a condition about   *)
(* options, its else, return (or a panic), `v?`, and v.unwrap(); a "test" is *)
(* v.unwrap() in the condition of the `if` that comes next.  A condition is a*)
(* set of pairs <<check, local>>, joined by `||`; an empty one is about      *)
(* something else.                                                           *)
Conditions == {{<<c, v>>} : c \in {"is_some", "is_none"}, v \in Locals}
              \cup {{<<c, v>> : v \in Locals} : c \in {"is_some", "is_none"}} \cup {{}}

UnwrapConstructs == [do : {"if"}, v : Conditions]
                    \cup [do : {"else", "close", "return"}, v : {{}}]
                    \cup [do : {"try", "unwrap", "test"}, v : Locals]

Present == [Locals -> BOOLEAN]

\* Beside the detector's own sets, conditional and checked, reach has the values
\* with which the program gets here: which locals are Some; and panics the unwraps
\* that it may come to with a None.
UnwrapStart == [conditional |-> {}, checked |-> {}, frames |-> <<>>, reach |-> Present,
                panics |-> {}]

Satisfy(reach, cond) ==
  {p \in reach : \E c \in cond : p[c[2]] = (c[1] = "is_some")}

\* A condition about something else may be met or not.
Fulfil(reach, cond) == IF cond = {} THEN reach ELSE Satisfy(reach, cond)

Refuse(reach, cond) == IF cond = {} THEN reach ELSE reach \ Satisfy(reach, cond)

Safe(cond) == {c[2] : c \in {c \in cond : c[1] = "is_some"}}

Halting(cond) == {c[2] : c \in {c \in cond : c[1] = "is_none"}}

\* The else branch is not visited.
Blind(m) == \E i \in DOMAIN m.frames : m.frames[i].in_else

\* Of an `if` only the first branch is visited: not its condition.
EnterIf(m, cond) ==
  LET sees == ~Blind(m)
  IN  [m EXCEPT !.conditional = IF sees THEN @ \cup cond ELSE @,
                !.checked = IF sees THEN @ \cup Safe(cond) ELSE @,
                !.frames = Append(@, [cond |-> cond, in_else |-> FALSE,
                                      others |-> Refuse(m.reach, cond)]),
                !.reach = Fulfil(@, cond)]

\* What the condition said is forgotten, whatever it was that said it first.
ForgetNothing(m, cond) == m

Forget(m, cond) ==
  IF Blind(m) THEN m
  ELSE [m EXCEPT !.conditional = @ \ cond, !.checked = @ \ Safe(cond)]

EnterElse(m) ==
  LET f == Top(m.frames)
  IN  [Forget(m, f.cond) EXCEPT
         !.frames = ReplaceTop(@, [cond |-> f.cond, in_else |-> TRUE, others |-> m.reach]),
         !.reach = f.others]

LeaveIf(m) ==
  LET f == Top(m.frames)
      seen == IF f.in_else THEN m ELSE Forget(m, f.cond)
  IN  [seen EXCEPT !.frames = Pop(@), !.reach = @ \cup f.others]

\* A return or a panic says that what was tested for absence is there afterwards.
HandleIfExpressions(m) ==
  [m EXCEPT !.checked = IF Blind(m) THEN @ ELSE @ \cup Halting(m.conditional),
            !.reach = {}]

PassOverTry(m, v) == m

CheckForTry(m, v) ==
  [m EXCEPT !.checked = IF Blind(m) THEN @ ELSE @ \cup {v},
            !.reach = Satisfy(@, {<<"is_some", v>>})]

Unwrapped(m, present) ==
  [m EXCEPT !.reach = present,
            !.panics = IF present = m.reach THEN @ ELSE @ \cup {Here}]

UnwrapStep(m, e) ==
  CASE e.do = "if"     -> EnterIf(m, e.v)
    [] e.do = "else"   -> EnterElse(m)
    [] e.do = "close"  -> LeaveIf(m)
    [] e.do = "return" -> HandleIfExpressions(m)
    [] e.do = "try"    -> CheckForTry(m, e.v)
    [] OTHER           -> Unwrapped(m, Satisfy(m.reach, {<<"is_some", e.v>>}))

IsMethodCallUnsafe(m, e) == e.do = "unwrap" /\ ~Blind(m) /\ e.v \notin m.checked

VisitUnwrap ==
  /\ Works({"unsafe-unwrap"})
  /\ \E e \in UnwrapConstructs :
       /\ e.do = "else" => memory.frames # <<>> /\ ~Top(memory.frames).in_else
       /\ walked # <<>> /\ Top(walked).do = "test" => e = [do |-> "if", v |-> {}]
       /\ Pass(e, UnwrapStep(memory, e), Mark(IsMethodCallUnsafe(memory, e)))

\* An unwrap that can panic is passed over only at one of the places where the
\* visitor does not follow the program: in the condition of an `if`, in an else
\* branch, after or under a condition with `||`, and after a `?` or a return that
\* stands under a condition (a second one, for a return): what these prove is not
\* taken back with it.
UnwrapsReported ==
  lint = "unsafe-unwrap" =>
    \A i \in (Latest \cap memory.panics) \ reported :
      \/ walked[i].do = "test"
      \/ \E n \in 1 .. i : walked[n].do = "else" /\ InScope(n, i)
      \/ \E n \in 1 .. i : walked[n].do = "if" /\ Cardinality(walked[n].v) > 1
      \/ \E n \in 1 .. i : walked[n].do = "return" /\ Depth(n) > 1
      \/ \E n \in 1 .. i : walked[n].do = "try" /\ ~InScope(n, i)

GuardSpec == /\ Follows({"division-by-zero"}, DivisionStart, VisitDivision)
             /\ Follows({"unsafe-unwrap"}, UnwrapStart, VisitUnwrap)

\* Both detectors believe only checks that protect the operation.
GuardsJudged == DivisionsReported /\ UnwrapsReported
=============================================================================
