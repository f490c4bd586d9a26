--------------------------- MODULE MCAdminAuthFlow ---------------------------
(* An entry point that stores a new admin, a helper and what this calls: on   *)
(* one way, on two that meet, in a circle, or behind a constant switch.       *)
EXTENDS AdminAuthFlow, Naturals

CONSTANTS entry, helper, inner

Plain == [does |-> "nothing", who |-> Current, callee |-> entry, args |-> {}]
Auth(x) == [Plain EXCEPT !.does = "require_auth", !.who = x]
Store(x) == [Plain EXCEPT !.does = "set", !.who = x]
Panic == [Plain EXCEPT !.does = "panic"]
CallTo(f, args) == [Plain EXCEPT !.does = "call", !.callee = f, !.args = args]

\* One way through all blocks; two ways that meet; a loop around 2; a check that
\* leaves the function; no way from 2, which is for a panic.
Straight == <<{2}, {3}, {4}, {}>>
Diamond == <<{2, 3}, {4}, {4}, {}>>
Loop == <<{2}, {3, 4}, {2}, {}>>
Leave == <<{2, 3}, {}, {4}, {}>>

Body(shape, constant, e1, e2, e3, e4) ==
  [params |-> Params, does |-> <<e1, e2, e3, e4>>, successors |-> shape,
   constant |-> [b \in Blocks |-> IF b = 1 THEN constant ELSE NoBlock],
   unwind |-> [b \in Blocks |-> NoBlock], cleanups |-> {}]

\* Three blocks, the second of which is a call that goes to the last when it panics.
Unwinding(e1, e2, e3) ==
  [Body(<<{2}, {3}, {}, {}>>, NoBlock, e1, e2, e3, Panic)
     EXCEPT !.unwind[2] = 4, !.cleanups = {4}]

Same == {<<1, 1>>, <<2, 2>>}
Crossed == {<<1, 2>>, <<2, 1>>}

EntryBodies ==
  {Body(Straight, NoBlock, e1, e2, Plain, Store(1)) :
     e1 \in {Plain, Auth(Current), CallTo(inner, Same)},
     e2 \in {Auth(1), CallTo(helper, Same), CallTo(helper, Crossed)}}
  \cup {Body(way[1], way[2], e1, CallTo(helper, Same), e3, Store(1)) :
          way \in {Diamond, Loop, Leave} \X {NoBlock, 2},
          e1 \in {Plain, Auth(Current)}, e3 \in {Plain, Auth(1)}}
  \cup {Unwinding(Auth(Current), CallTo(helper, Same), Store(1))}

HelperBodies ==
  {Body(way[1], NoBlock, way[2], e2, e3, Plain) :
     way \in {<<Diamond, Plain>>, <<Diamond, Auth(Current)>>, <<Loop, Plain>>},
     e2 \in {Auth(1), CallTo(inner, Same), CallTo(inner, Crossed), CallTo(helper, Same)},
     e3 \in {Plain, Auth(1)}}
  \cup {Body(Leave, NoBlock, e1, e2, Auth(1), Auth(Current)) :
          e1 \in {Plain, Auth(1)}, e2 \in {Plain, Panic}}
  \cup {Unwinding(e1, e2, Plain) : e1 \in {Plain, Auth(1)}, e2 \in {Auth(1), CallTo(inner, Same)}}

InnerBodies ==
  {Body(Straight, NoBlock, Auth(1), Auth(Current), Plain, Plain),
   Body(Straight, NoBlock, Auth(2), CallTo(helper, Same), Plain, Plain)}

CalleesIn(body) == {body.does[b].callee : b \in {c \in Blocks : body.does[c].does = "call"}}

Function(body, generated, expanded, signature) ==
  [expanded |-> expanded, generated |-> generated, calls |-> CalleesIn(body),
   does |-> {}, signature |-> signature]

Case(e, h, i, helper_is, expanded, initialize) ==
  <<[f \in Functions |->
       CASE f = entry -> Function(e, Generated, FALSE, {})
         [] f = helper -> Function(h, helper_is, expanded, initialize)
         [] f = inner -> Function(i, {}, FALSE, {})],
    [f \in Functions |-> CASE f = entry -> e [] f = helper -> h [] f = inner -> i]>>

MCCases ==
  {Case(e, h, i, {}, FALSE, {}) : e \in EntryBodies, h \in HelperBodies, i \in InnerBodies}
  \cup {Case(e, h, i, helper_is, expanded, initialize) :
          e \in {x \in EntryBodies : x.successors = Straight},
          h \in {Body(Diamond, NoBlock, Auth(Current), Store(2), CallTo(inner, Same), Plain)},
          i \in InnerBodies, helper_is \in {{}, Generated}, expanded \in BOOLEAN,
          initialize \in {{}, {"initialize"}}}

MCPrograms == {c[1] : c \in MCCases}
=============================================================================
