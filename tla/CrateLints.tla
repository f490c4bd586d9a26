----------------------------- MODULE CrateLints -----------------------------
(* Detectors that look at a crate as a whole.  Those that read the source     *)
(* before macros are expanded, tests included, and so have to tell tests from *)
(* the contract: avoid-panic-error, assert-violation and                     *)
(* debug-assert-in-contract.  Those that ask cargo and the network about it:  *)
(* contract-import-dependency, soroban-version, overflow-check and           *)
(* known-vulnerabilities; and token-interface-inference, which counts its    *)
(* functions.                                                                *)
EXTENDS BodyWalk

(* A crate has modules, impls (or traits), functions and methods, which return *)
(* a Result or not, with an attribute each, and a macro that the detectors   *)
(* look for; what comes after it changes nothing for it.  A "statement" is a *)
(* macro that is a statement, `panic!(..);`, not an expression.              *)
(* "test" is #[test] or #[cfg(test)], "all" is #[cfg(all(test, ..))],        *)
(* "cfg_attr" is #[cfg_attr(test, ..)], on what is no test.                  *)
Attributes == {"", "test", "all", "cfg_attr"}

Items == {"mod", "impl", "fn"}

SourceConstructs ==
  [do : {"mod", "impl"}, attr : Attributes, result : {FALSE}]
  \cup [do : {"fn", "method"}, attr : Attributes, result : BOOLEAN]
  \cup [do : {"macro", "statement", "close", "end"}, attr : {""}, result : {FALSE}]

Macros == {"macro", "statement"}

\* What may stand in what; a macro is in a function.
Within(do) == CASE do \in Items -> {"", "mod"}
                [] do = "method" -> {"impl"}
                [] do \in Macros -> {"fn", "method"}
                [] do = "close" -> Opening
                [] do = "end" -> {""} \cup Opening

Enclosing(i) == {n \in 1 .. i - 1 : walked[n].do \in Opening /\ InScope(n, i)}

\* The innermost construct around position i, or 0.
Parent(i) == IF Enclosing(i) = {} THEN 0
             ELSE CHOOSE n \in Enclosing(i) : \A k \in Enclosing(i) : k <= n

StandsIn(i) == IF Parent(i) = 0 THEN "" ELSE walked[Parent(i)].do

\* The attribute has the word test in it, at its top.
IsTestItem(e) == e.attr \in {"test", "cfg_attr"}

-----------------------------------------------------------------------------
(* The detectors of a macro: the compiler comes to an item before it comes to *)
(* what is in it.                                                            *)
MacroLints == {"assert-violation", "debug-assert-in-contract"}

MacroStart == [test_spans |-> {}]

\* check_item is called for items only, not for methods.
CheckItem(m, e) ==
  IF e.do \in Items /\ IsTestItem(e) THEN [m EXCEPT !.test_spans = @ \cup {Here}] ELSE m

IsJustUnderTest(m) == \E n \in m.test_spans : n = Here - 1

IsWithinTest(m) == \E n \in m.test_spans : InScope(n, Here)

CheckMac(m, e) == Mark(e.do \in Macros /\ ~IsWithinTest(m))

-----------------------------------------------------------------------------
(* avoid-panic-error has one span of a test, that of the latest.  The compiler *)
(* calls check_item for each item in the order they are written (visited is  *)
(* the last), and check_item calls itself for the items of a module before   *)
(* the compiler comes to them: called are those that it still has to call.   *)
PanicStart == [in_test_span |-> 0, visited |-> 0, called |-> {}]

Children(n) == {i \in DOMAIN walked : walked[i].do \in Items \cup {"method"} /\ Parent(i) = n}

InTestSpan(m, n) == m.in_test_span \in 1 .. n /\ InScope(m.in_test_span, n)

PassedOver(m, n) == IsTestItem(walked[n]) \/ InTestSpan(m, n)

ItemsLeft(m) == IF m.called # {} THEN m.called
                ELSE {i \in DOMAIN walked : walked[i].do \in Items /\ i > m.visited}

\* The test that is remembered is forgotten with the first item outside of it.
CheckOne(m, n) ==
  [in_test_span |-> IF IsTestItem(walked[n]) THEN n
                    ELSE IF InTestSpan(m, n) THEN m.in_test_span ELSE 0,
   visited |-> IF m.called = {} THEN n ELSE m.visited,
   called |-> (m.called \ {n}) \cup
                IF walked[n].do = "mod" /\ ~PassedOver(m, n) THEN Children(n) ELSE {}]

\* The functions that check_item looks into.
Examined(m, n) ==
  IF PassedOver(m, n) \/ walked[n].do = "mod" THEN {}
  ELSE IF walked[n].do = "fn" THEN {n} ELSE Children(n)

\* A panic is looked for in functions that return a Result, among the expressions.
CheckFunction(n) ==
  {i \in n .. Len(walked) : walked[n].result /\ walked[i].do = "macro" /\ InScope(n, i)}

WholeCrate == walked # <<>> /\ walked[Len(walked)].do = "end"

AllChecked == WholeCrate /\ ItemsLeft(memory) = {}

CheckNext ==
  /\ lint = "avoid-panic-error" /\ WholeCrate
  /\ \E n \in ItemsLeft(memory) :
       /\ \A k \in ItemsLeft(memory) : n <= k
       /\ memory' = CheckOne(memory, n)
       /\ reported' = reported \cup UNION {CheckFunction(f) : f \in Examined(memory, n)}
  /\ UNCHANGED <<lint, walked>>

-----------------------------------------------------------------------------
VisitSource ==
  /\ Works(MacroLints \cup {"avoid-panic-error"})
  /\ ~WholeCrate
  /\ \E e \in SourceConstructs :
       /\ (e.do = "end") = (\E i \in Latest : walked[i].do \in Macros)
       /\ e.do = "close" => \A i \in Latest : ~walked[i].result /\ walked[i].do \notin {"mod", "impl"}
       /\ StandsIn(Here) \in Within(e.do)
       /\ lint \in MacroLints => ~e.result /\ e.do # "end"
       /\ IF lint \in MacroLints THEN Pass(e, CheckItem(memory, e), CheckMac(memory, e))
          ELSE Pass(e, memory, {})

\* The macro at i is compiled in tests only.
OnlyInTests(i) == \E n \in Enclosing(i) : walked[n].attr \in {"test", "all"}

GivesResult(i) == \E n \in Enclosing(i) : walked[n].result

\* A macro in the contract is reported, unless an item around it has #[cfg_attr(test,
\* ..)], or it is a panic that is a statement (avoid-panic-error, lib.rs:127); one in a
\* test is not, unless the test is told by an attribute on a method or by a condition
\* with more in it, or (lib.rs:76) an earlier test function of its module has made the
\* detector forget the module.
TestsToldApart ==
  lint \in MacroLints \cup {"avoid-panic-error"} =>
    \A i \in {i \in DOMAIN walked : walked[i].do \in Macros /\ (lint \in MacroLints \/ GivesResult(i))} :
      /\ (lint \in MacroLints \/ AllChecked) /\ ~OnlyInTests(i) /\ i \notin reported =>
           \/ \E n \in Enclosing(i) : walked[n].attr = "cfg_attr"
           \/ lint = "avoid-panic-error" /\ walked[i].do = "statement"
      /\ OnlyInTests(i) /\ i \in reported =>
           \/ \A n \in Enclosing(i) : walked[n].do # "method" => walked[n].attr # "test"
           \/ /\ lint = "avoid-panic-error"
              /\ \E t \in 1 .. i : \E n \in Enclosing(t) \cap Enclosing(i) :
                   /\ walked[n].do = "mod" /\ walked[n].attr = "test"
                   /\ walked[t].do \in Items /\ IsTestItem(walked[t]) /\ ~InScope(t, i)

-----------------------------------------------------------------------------
(* contract-import-dependency: the manifest's dependencies, then imports of    *)
(* the file that a contract was built into.  A name is the sequence of its   *)
(* separators, the words between them being the same for all.                *)
Hyphen == "-"

Underscore == "_"

Names == {<<Hyphen>>, <<Underscore>>, <<Hyphen, Hyphen>>, <<Hyphen, Underscore>>}

Tables == {"dependencies", "build-dependencies", "dev-dependencies"}

\* A dependency under a key of its own names its package; Nowhere is such a key.
Dependencies == [do : {"dependency"}, table : Tables, key : Names, package : Names \cup {Nowhere}]

\* There is no manifest at hand, or it cannot be read or parsed.
Unreadable == [do : {"unreadable"}]

Imports == [do : {"contractimport"}, of : Names, optimized : BOOLEAN, uses_deps_path : BOOLEAN]

Underscored(name) == [i \in DOMAIN name |-> Underscore]

\* What trim_end_matches(".wasm") leaves of the file's name.
ContractName(e) == Underscored(e.of) \o IF e.optimized THEN <<".">> ELSE <<>>

ImportStart == [cargo_dependencies |-> {}, wrong_path |-> {}]

PackageName(e) == IF e.package = Nowhere THEN e.key ELSE e.package

DependencyKey(m, e) == IF e.table = "dev-dependencies" THEN m
                       ELSE [m EXCEPT !.cargo_dependencies = @ \cup {e.key}]

LoadDependency(m, e) == IF e.table = "dev-dependencies" THEN m
                        ELSE [m EXCEPT !.cargo_dependencies = @ \cup {PackageName(e)}]

LoadNothing(m) == [m EXCEPT !.cargo_dependencies = {}]

\* Every `_` is read as a `-`, or none is.
IsContractInDependencies(m, name) ==
  {name, [i \in DOMAIN name |-> IF name[i] = Underscore THEN Hyphen ELSE name[i]]} \cap m.cargo_dependencies # {}

VisitImports ==
  /\ Works({"contract-import-dependency"})
  /\ \/ /\ \A i \in DOMAIN walked : walked[i].do = "dependency"
        /\ \/ \E e \in Dependencies : Pass(e, LoadDependency(memory, e), {})
           \/ \E e \in Unreadable : Pass(e, LoadNothing(memory), {})
     \/ \E e \in Imports :
          /\ \A i \in DOMAIN walked : walked[i].do # "contractimport"
          /\ Pass(e, [memory EXCEPT !.wrong_path = IF e.uses_deps_path THEN @ ELSE @ \cup {Here}],
                  Mark(~IsContractInDependencies(memory, ContractName(e))))

\* An import is passed over only if the manifest was read and some dependency is
\* built into a file of that name, under whatever key it stands; one that is
\* reported has none, or is of a package with both separators in its name, or of an
\* optimized file, or of a crate whose manifest is not read (lib.rs:109).
ImportsTracked ==
  lint = "contract-import-dependency" =>
    \A i \in Latest :
      LET e == walked[i]
          declared == {PackageName(walked[n]) :
                         n \in {n \in 1 .. i - 1 : /\ walked[n].do = "dependency"
                                                   /\ walked[n].table # "dev-dependencies"}}
          wasRead == \A n \in 1 .. i - 1 : walked[n].do # "unreadable"
      IN  e.do = "contractimport" =>
            /\ i \notin reported => wasRead /\ \E name \in declared : Underscored(name) = Underscored(e.of)
            /\ i \in reported /\ e.of \in declared =>
                 ~wasRead \/ e.optimized \/ \E k, n \in DOMAIN e.of : e.of[k] # e.of[n]

-----------------------------------------------------------------------------
(* What is asked for, in this order; any answer may be missing, and then the   *)
(* detector warns on its error output and has no finding.                    *)
Questions ==
  [l \in {"soroban-version", "overflow-check", "known-vulnerabilities"} |->
     CASE l = "soroban-version" ->
            <<"latest-version", "metadata", "packages", "first-package", "dependencies",
              "soroban-sdk", "requirement", "latest-parses", "requirement-parses">>
       [] l = "overflow-check" -> <<"workspace", "Cargo.toml", "Cargo.toml-parses">>
       [] l = "known-vulnerabilities" -> <<"directory", "Cargo.lock-path", "repository", "database", "Cargo.lock">>]

(* A requirement is an operator with a version, or only the first parts of one *)
(* ("22.1"), of the crate and of the first package of its workspace; versions*)
(* are numbers here, in their order.                                         *)
Versions == 1 .. 3

Operators == {"", "=", "~"}

Requirements == [op : Operators, version : Versions, full : BOOLEAN]

Manifests ==
  CASE lint = "soroban-version" ->
         [latest : Versions, own : Requirements, first : Requirements, one : BOOLEAN]
    [] lint = "overflow-check" ->
         [workspace : {"", "true", "false", "text"}, own : {"", "true", "false"}, root : BOOLEAN]
    [] lint = "known-vulnerabilities" -> [vulnerable : BOOLEAN]

Answered == Len(walked)

\* "=" and "^" are dropped, and what is left has to be a whole version.
ParsesAnyway(req) == TRUE

Parses(req) == req.full /\ req.op # "~"

\* The member's own profile, which cargo does not use.
FindingInMember(m) ==
  CASE lint = "soroban-version" -> m.first.version # m.latest
    [] lint = "overflow-check" -> m.own # "true"
    [] lint = "known-vulnerabilities" -> m.vulnerable

\* Which findings there are, when all is answered.
Finding(m) ==
  CASE lint = "soroban-version" -> m.first.version # m.latest
    [] lint = "overflow-check" -> m.workspace # "true"
    [] lint = "known-vulnerabilities" -> m.vulnerable

VisitManifest ==
  /\ Works(DOMAIN Questions)
  /\ Answered < Len(Questions[lint])
  /\ \A i \in Latest : walked[i].answered
  /\ \E answered \in BOOLEAN, m \in Manifests :
       LET question == Questions[lint][Answered + 1]
           last == Answered + 1 = Len(Questions[lint])
       IN  /\ walked # <<>> => m = memory
           /\ lint = "soroban-version" /\ m.one => m.first = m.own
           /\ lint = "overflow-check" /\ m.root => m.own = ""
           /\ question = "requirement-parses" => answered = Parses(m.first)
           /\ Pass([do |-> question, answered |-> answered], m,
                   Mark(last /\ answered /\ Finding(m)))

\* One answer that is missing loses the finding, and nothing is reported without
\* all of them.  An older version of the SDK is passed over only then, or when the
\* first package of the workspace asks for another one, or the requirement is no
\* whole version; overflow checks are reported exactly when cargo leaves them out
\* of the release, whatever the package's own manifest says.
ManifestsReported ==
  lint \in DOMAIN Questions /\ walked # <<>> =>
    LET m == memory
        all == Answered = Len(Questions[lint]) /\ \A i \in DOMAIN walked : walked[i].answered
    IN  /\ reported # {} => all
        /\ lint = "soroban-version" =>
             /\ reported # {} => m.first.full /\ (m.one => m.own.version # m.latest)
             /\ all /\ m.one /\ reported = {} => m.own.version = m.latest
        /\ lint = "overflow-check" /\ all => (reported = {}) = (m.workspace = "true")

-----------------------------------------------------------------------------
(* token-interface-inference.  A type has some functions with the names of a   *)
(* token's, all different, and others with a name that differs by a letter;  *)
(* it may implement the interface.  Locals are the crate's types.            *)
NamesOfATokenCount == 11

CANONICAL_FUNCTIONS_AMOUNT == 10

INCLUDED_FUNCTIONS_THRESHOLD == 60

TokenTypes == [do : {"type"}, of : Locals, distinct : {0, 2, 3, 5, 6, NamesOfATokenCount}, alike : {0, 1, 3},
               implements : BOOLEAN]

TokenStart == [impl_token_interface_trait |-> FALSE, detected_canonical_functions_count |-> 0]

\* verify_token_interface_function_similarity: an edit of one letter is no difference.
TokenStep(m, e) ==
  IF e.do = "end" THEN m
  ELSE [impl_token_interface_trait |-> m.impl_token_interface_trait \/ e.implements,
        detected_canonical_functions_count |->
          m.detected_canonical_functions_count + e.distinct + e.alike]

ThresholdOfAll(m) == (m.detected_canonical_functions_count * 100) \div NamesOfATokenCount
                       >= INCLUDED_FUNCTIONS_THRESHOLD

LooksLikeAToken(m) == (m.detected_canonical_functions_count * 100) \div CANONICAL_FUNCTIONS_AMOUNT
                        >= INCLUDED_FUNCTIONS_THRESHOLD

VisitToken ==
  /\ Works({"token-interface-inference"})
  /\ \A i \in DOMAIN walked : walked[i].do # "end"
  /\ \E e \in TokenTypes \cup {[do |-> "end"]} :
       /\ e.do = "type" => /\ \A i \in DOMAIN walked : walked[i].of # e.of
                           /\ e.implements => e.distinct >= 6
       /\ Pass(e, TokenStep(memory, e),
               Mark(/\ e.do = "end" /\ ~memory.impl_token_interface_trait
                    /\ LooksLikeAToken(memory)))

\* A crate with a type that has six functions of a token and does not implement the
\* interface is reported, unless another type of it does implement it; one that is
\* reported without such a type has six when functions with names alike, or those
\* of all its types, are counted together.
TokensReported ==
  lint = "token-interface-inference" /\ walked # <<>> /\ walked[Len(walked)].do = "end" =>
    LET types == {walked[i] : i \in 1 .. Len(walked) - 1}
        tokens == {t \in types : t.distinct >= 6}
    IN  /\ tokens # {} => reported # {} \/ \E t \in types : t.implements
        /\ reported # {} => \A t \in tokens : ~t.implements
        /\ reported # {} /\ tokens = {} =>
             (\E t \in types : t.alike > 0) \/ Cardinality(types) > 1

-----------------------------------------------------------------------------
CrateSpec == /\ Follows(MacroLints, MacroStart, VisitSource)
             /\ Follows({"avoid-panic-error"}, PanicStart, VisitSource \/ CheckNext)
             /\ Follows({"contract-import-dependency"}, ImportStart, VisitImports)
             /\ Follows(DOMAIN Questions, Nothing, VisitManifest)
             /\ Follows({"token-interface-inference"}, TokenStart, VisitToken)

\* Crates are judged by what was found out about them, and by nothing else.
CratesJudged == TestsToldApart /\ ImportsTracked /\ ManifestsReported /\ TokensReported
=============================================================================
