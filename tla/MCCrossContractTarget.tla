----------------------- MODULE MCCrossContractTarget -----------------------
(* Three functions with up to two address parameters each, passed on in every *)
(* way along a few edges, two of which close a circle.                        *)
EXTENDS CrossContractTarget, Naturals

CONSTANTS entry, inner, leaf

MCFunctions == {entry, inner, leaf}

MCAddress(params, checks, auths, forwards) ==
  [params |-> params, targets |-> params, checks |-> checks, auths |-> auths,
   forwards |-> forwards]

Function(address, generated, expanded, signature) ==
  [expanded |-> expanded, generated |-> generated,
   calls |-> {e[2] : e \in address.forwards}, does |-> {"call"}, signature |-> signature]

Case(outer, middle, last, inner_is, expanded, signature) ==
  <<[f \in MCFunctions |->
       CASE f = entry -> Function(outer, Generated, FALSE, signature)
         [] f = inner -> Function(middle, inner_is, expanded, {})
         [] f = leaf -> Function(last, {}, FALSE, {})],
    [f \in MCFunctions |->
       CASE f = entry -> outer [] f = inner -> middle [] f = leaf -> last]>>

Outer == {MCAddress({1, 2}, checks, auths, forwards) :
            checks \in {{}, {1}}, auths \in {{}, {2}},
            forwards \in SUBSET {<<1, inner, 1>>, <<2, leaf, 1>>, <<2, inner, 2>>}}

Middle == {MCAddress({1, 2}, checks, {}, forwards) :
             checks \in {{}, {1}},
             forwards \in SUBSET {<<1, leaf, 1>>, <<1, inner, 2>>, <<2, inner, 1>>}}

Last == {MCAddress({1}, {}, auths, {}) : auths \in {{}, {1}}}

MCCases ==
  {Case(o, m, l, {}, FALSE, {}) : o \in Outer, m \in Middle, l \in Last}
  \cup {Case(o, m, l, inner_is, expanded, signature) :
          o \in {x \in Outer : x.auths = {}}, m \in {x \in Middle : x.checks = {}},
          l \in {MCAddress({1}, {1}, {}, {}), MCAddress({}, {}, {}, {})},
          inner_is \in {{"spec"}, Generated}, expanded \in BOOLEAN,
          signature \in {{}, {"constructor"}}}

MCPrograms == {c[1] : c \in MCCases}
=============================================================================
