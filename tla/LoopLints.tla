------------------------------ MODULE LoopLints ------------------------------
(* Detectors of what happens inside loops: non-terminating-loop,              *)
(* clone-in-loop, linear-scan-in-loop and iterators-over-indexing.           *)
EXTENDS BodyWalk

(* A body has loops of the three forms (a `for` binds v, over a range with a  *)
(* literal end), lets of v, break with the number of loops that it leaves (0 *)
(* for the break of a labelled block in the innermost one), continue with the*)
(* number of loops out to the one that it goes on with (1 for the innermost),*)
(* return (or a call that does not), v.clone(), v.contains(..), w.get(v).    *)
LoopConstructs ==
  [do : {"loop"}, form : {"loop", "while"}, v : {0}]
  \cup [do : {"loop"}, form : {"for"}, v : Locals]
  \cup [do : {"close", "return"}, form : {""}, v : {0}]
  \cup [do : {"break"}, form : {""}, v : 0 .. 2]
  \cup [do : {"continue"}, form : {""}, v : 1 .. 2]
  \cup [do : {"let", "clone", "contains", "get"}, form : {""}, v : Locals]

Looked == [of \in {"non-terminating-loop", "clone-in-loop", "linear-scan-in-loop",
                   "iterators-over-indexing"} |->
             CASE of = "non-terminating-loop" -> {"loop", "close", "return", "break", "continue"}
               [] of = "clone-in-loop" -> {"loop", "close", "let", "clone"}
               [] of = "linear-scan-in-loop" -> {"loop", "close", "let", "contains"}
               [] of = "iterators-over-indexing" -> {"loop", "close", "get"}]

\* loops are those around this place, with what was found out about each.
LoopStart == [loops |-> <<>>, outer_locals |-> {}, locals_in_loop |-> {}]

LoopDepth(m) == Len(m.loops)

\* What counts as an escape from a loop: a break whose target is no loop inside of
\* that loop, and no continue.
EscapesAll(m, e) == IF e.do \in {"return", "break"} THEN 1 .. LoopDepth(m) ELSE {}

Escapes(m, e) ==
  IF e.do = "break" /\ e.v > 0 THEN LoopDepth(m) - e.v + 1 .. LoopDepth(m)
  ELSE IF e.do \in {"return", "break"} THEN 1 .. LoopDepth(m)
  ELSE {}

Escape(m, e) ==
  LET escaped(i) == m.loops[i].has_escape \/ i \in Escapes(m, e)
  IN  [m EXCEPT !.loops = [i \in DOMAIN @ |-> [m.loops[i] EXCEPT !.has_escape = escaped(i)]]]

BindAnywhere(m, v) == [m EXCEPT !.outer_locals = @ \cup {v}, !.locals_in_loop = @ \cup {v}]

Bind(m, v) == IF LoopDepth(m) = 0 THEN [m EXCEPT !.outer_locals = @ \cup {v}]
                                  ELSE [m EXCEPT !.locals_in_loop = @ \cup {v}]

LoopStep(m, e) ==
  CASE e.do = "loop" -> [m EXCEPT !.loops = Append(@, [at |-> Here, form |-> e.form,
                                                       v |-> e.v, has_escape |-> FALSE])]
    [] e.do = "close" -> [m EXCEPT !.loops = Pop(@)]
    [] e.do = "let" -> Bind(m, e.v)
    [] OTHER -> Escape(m, e)

\* Loops whose own index, a local of that loop, is used to index a vector.
IndexedLoops(m, e) == {i \in DOMAIN m.loops : m.loops[i].form = "for" /\ m.loops[i].v = e.v}

LoopReports(m, e) ==
  CASE e.do = "close" /\ lint = "non-terminating-loop" ->
         IF Top(m.loops).form = "loop" /\ ~Top(m.loops).has_escape THEN {Top(m.loops).at} ELSE {}
    [] e.do = "clone"    -> Mark(LoopDepth(m) > 0 /\ e.v \in m.outer_locals)
    [] e.do = "contains" -> Mark(LoopDepth(m) > 0 /\ e.v \notin m.locals_in_loop)
    [] e.do = "get"      -> {m.loops[i].at : i \in IndexedLoops(m, e)}
    [] OTHER -> {}

\* A local is bound once, and used where its binding is seen.
Binds(n, v) == /\ walked[n].v = v
               /\ walked[n].do = "let" \/ walked[n].form = "for"

VisitLoops ==
  /\ Works(DOMAIN Looked)
  /\ \E e \in {e \in LoopConstructs : e.do \in Looked[lint]} :
       /\ e.do = "let" \/ e.form = "for" => \A n \in DOMAIN walked : walked[n].v # e.v
       /\ e.do \in {"clone", "contains", "get"} =>
            \A n \in DOMAIN walked : Binds(n, e.v) => InScope(n, Here)
       /\ e.do \in {"break", "continue"} => e.v <= LoopDepth(memory)
       /\ Pass(e, LoopStep(memory, e), LoopReports(memory, e))

LoopSpec == Follows(DOMAIN Looked, LoopStart, VisitLoops)

-----------------------------------------------------------------------------
LoopsAround(i) == {n \in 1 .. i - 1 : walked[n].do = "loop" /\ InScope(n, i)}

\* The loop n is the k-th around i.
Rank(n, i) == Cardinality({o \in LoopsAround(i) : o >= n})

\* The loops that a construct at i leaves for good.
Left(i) == CASE walked[i].do = "return"   -> LoopsAround(i)
             [] walked[i].do = "break"    -> {n \in LoopsAround(i) : Rank(n, i) <= walked[i].v}
             [] walked[i].do = "continue" -> {n \in LoopsAround(i) : Rank(n, i) < walked[i].v}
             [] OTHER -> {}

\* A bare loop is reported only if nothing inside of it leaves it but a continue of
\* a loop around it, which is not looked at; and one that nothing leaves goes
\* unreported only if a labelled block inside of it is left: a break of a loop in
\* it does not count, one of a loop around it does
\* (non-terminating-loop/src/lib.rs:63).
EndlessLoopsReported ==
  lint = "non-terminating-loop" =>
    \A n \in DOMAIN walked :
      walked[n].do = "loop" /\ ~InScope(n, Here) =>
        LET exits == {i \in DOMAIN walked : n \in Left(i)}
        IN  /\ n \in reported => /\ walked[n].form = "loop"
                                 /\ \A i \in exits : walked[i].do = "continue"
            /\ walked[n].form = "loop" /\ exits = {} /\ n \notin reported =>
                 \E i \in DOMAIN walked :
                   walked[i].do = "break" /\ walked[i].v = 0 /\ n \in LoopsAround(i)

\* A clone, or a scan, that is reported is in a loop, and of a local that no let in
\* any loop around it binds: one that outlives the rounds (and may grow in them),
\* or that a `for` binds.  One that is not, in a loop, is of a local that a let in
\* one of the loops around it binds, or (a clone) that no let binds.
RepeatedWorkReported ==
  lint \in {"clone-in-loop", "linear-scan-in-loop"} =>
    \A i \in {i \in Latest : walked[i].do \in {"clone", "contains"}} :
      LET bound == {n \in DOMAIN walked : walked[n].do = "let" /\ walked[n].v = walked[i].v}
          inside == {n \in bound : \E o \in LoopsAround(i) : o < n}
      IN  /\ i \in reported => LoopsAround(i) # {} /\ inside = {}
          /\ i \notin reported /\ LoopsAround(i) # {} =>
               inside # {} \/ (walked[i].do = "clone" /\ bound = {})

\* A loop over indices is reported exactly when its own index, not that of a loop
\* around it or in it, is what a vector is indexed with.
IndexedLoopsReported ==
  lint = "iterators-over-indexing" =>
    reported = {n \in DOMAIN walked :
                  /\ walked[n].form = "for"
                  /\ \E i \in DOMAIN walked :
                       walked[i].do = "get" /\ walked[i].v = walked[n].v /\ InScope(n, i)}

\* Each detector of this module judges its loops right.
LoopsJudged == EndlessLoopsReported /\ RepeatedWorkReported /\ IndexedLoopsReported
=============================================================================
