--------------------------- MODULE TestContracts ---------------------------
(* The contracts of the repository's own test cases, function by function, as *)
(* bodies, with the numbers of findings that scripts/test_utils.py accepts.  *)
EXTENDS BodyLints

\* The count of expected.json; without that file, none in clean and remediated
\* cases, and one or more in vulnerable ones.
Expect(findings, bodies) == {[body |-> b, findings |-> findings] : b \in bodies}

Exactly(n, bodies) == Expect({n}, bodies)

Remediated(bodies) == Expect({0}, bodies)

Vulnerable(bodies) == Expect(1 .. 9, bodies)

Construct(do, v) == [do |-> do, v |-> v]

-----------------------------------------------------------------------------
(* division-by-zero: v and w are divisors, or what is divided by the len of.  *)
BlockEnds == Construct("close", 0)

\* In scale_let, the floor is the initializer of a local.
DivisionClean2(v) ==
  Exactly(0, {<<Construct("empty", v), BlockEnds, Construct("divide by len", v)>>,
              <<Construct("let", v), Construct("divide", v)>>})

DivisionRemediated1(v) ==
  Exactly(0, {<<Construct("zero", v), BlockEnds, Construct("divide", v)>>})

\* divide_in_branch, and divide_compound_guard with its return.
DivisionRemediated2(v) ==
  Exactly(0, {<<Construct("zero", v), BlockEnds, Construct("divide", v)>>,
              <<Construct("then", v), Construct("divide", v), BlockEnds>>})

\* Two functions, and two findings.
DivisionVulnerable1(v) == Exactly(1, {<<Construct("divide", v)>>})

DivisionVulnerable2(v) ==
  Exactly(1, {<<Construct("divide", v), Construct("zero", v), BlockEnds>>,
              <<Construct("then", v), BlockEnds, Construct("divide", v)>>})

DivisionCases(v) == DivisionClean2(v) \cup DivisionRemediated1(v) \cup DivisionRemediated2(v)
                    \cup DivisionVulnerable1(v) \cup DivisionVulnerable2(v)

-----------------------------------------------------------------------------
(* unsafe-unwrap and unsafe-expect: v and w are options or results, in a local *)
(* or not.  Helpers that unwrap nothing are left out.                        *)
If(check, values) == Construct("if", {<<check, v>> : v \in values})

Ends == Construct("close", {})

Returns == Construct("return", {})

Unwrap(v) == Construct("unwrap", v)

Try(v) == Construct("try", v)

UnlessAbsent(values) == <<If("is_none", values), Returns, Ends>>

\* `if let` stands for the check of its variant.
UnwrapClean1(v) == Exactly(0, {<<If("is_some", {v}), Unwrap(v), Returns, Ends>>})

UnwrapRemediated2(v) == Remediated({UnlessAbsent({v}) \o <<Unwrap(v)>>})

UnwrapRemediated3(v) == Remediated({<<If("is_some", {v}), Unwrap(v), Ends>>})

UnwrapRemediated4(v, w) == Remediated({UnlessAbsent({v, w}) \o <<Unwrap(v), Unwrap(w)>>})

UnwrapRemediated5(v, w) ==
  Remediated({UnlessAbsent({v}) \o <<Unwrap(v)>> \o UnlessAbsent({w}) \o <<Unwrap(w)>>})

UnwrapVulnerable1(v) == Vulnerable({<<Unwrap(v)>>})

UnwrapVulnerable2(v, w) == Vulnerable({<<Unwrap(v), Unwrap(w)>>})

UnwrapVulnerable3(v, w) == Vulnerable({<<Unwrap(v)>> \o UnlessAbsent({w}) \o <<Unwrap(w)>>})

ExpectClean1(v) == Exactly(0, {<<If("is_some", {v}), Unwrap(v), Returns, Ends>>,
                               UnlessAbsent({v}) \o <<Unwrap(v)>>})

ExpectRemediated2(v) == Remediated({<<Try(v), Unwrap(v)>>})

ExpectRemediated3(v) == Remediated({<<If("is_some", {v}), Unwrap(v), Ends>>})

ExpectRemediated4(v, w) == Remediated({UnlessAbsent({v, w}) \o <<Unwrap(v), Unwrap(w)>>})

\* The unwrap of what was added is no expect.
ExpectRemediated5(v, w) == Remediated({<<Try(v), Unwrap(v), Try(w)>>})

ExpectVulnerable1(v) == Vulnerable({<<Unwrap(v)>>})

ExpectVulnerable2(v, w) == Vulnerable({<<Unwrap(v), Unwrap(w)>>})

ExpectVulnerable3(v, w) == Vulnerable({<<Unwrap(v), Try(w)>>})

UnwrapCases(v, w) ==
  UnwrapClean1(v) \cup UnwrapRemediated2(v) \cup UnwrapRemediated3(v) \cup UnwrapRemediated4(v, w)
  \cup UnwrapRemediated5(v, w) \cup UnwrapVulnerable1(v) \cup UnwrapVulnerable2(v, w)
  \cup UnwrapVulnerable3(v, w) \cup ExpectClean1(v) \cup ExpectRemediated2(v)
  \cup ExpectRemediated3(v) \cup ExpectRemediated4(v, w) \cup ExpectRemediated5(v, w)
  \cup ExpectVulnerable1(v) \cup ExpectVulnerable2(v, w) \cup ExpectVulnerable3(v, w)

-----------------------------------------------------------------------------
(* Constants: the numbers of the contracts are taken for 0, 1 and 2 in order. *)
Used(list) == [do |-> "use", v |-> Param, of |-> list]

LossyCastVulnerable1 == Exactly(1, {<<Used(<<Param>>)>>})

UnboundedRemediated1 == Remediated({<<Used(<<0, 1>>)>>})

\* The field of a struct that is written out is as constant as the struct.
UnboundedRemediated2(v) ==
  Remediated({<<[do |-> "let", v |-> v, of |-> <<1>>], Used(<<0, v>>)>>})

UnboundedVulnerable1 == Vulnerable({<<Used(<<0, Param>>)>>})

UnboundedCases(v) == UnboundedRemediated1 \cup UnboundedRemediated2(v) \cup UnboundedVulnerable1

-----------------------------------------------------------------------------
(* integer-overflow-or-underflow: the remediated contracts are built with      *)
(* overflow checks (Cargo.toml), and the vulnerable ones without.            *)
Evaluates(op, args, profile) ==
  <<[do |-> "evaluate", of |-> Node(op, args), profile |-> profile]>>

Value == Node("param", <<>>)

OverflowRemediated == Remediated({Evaluates("call", <<Value>>, "true")})

OverflowVulnerable1 == Vulnerable({Evaluates("arithmetic", <<Value, Value>>, "false")})

OverflowVulnerable4 == Vulnerable({Evaluates("pow", <<Value>>, "false")})

OverflowVulnerable5 == Vulnerable({Evaluates("negate", <<Value>>, "false")})

OverflowCases == OverflowRemediated \cup OverflowVulnerable1 \cup OverflowVulnerable4
                 \cup OverflowVulnerable5

-----------------------------------------------------------------------------
(* ineffective-extend-ttl and excessive-token-approval: each call by itself.  *)
Let(v, init) == [do |-> "let", v |-> v, of |-> <<init>>]

Extends(threshold, extend_to) ==
  [do |-> "extend_ttl", v |-> Nowhere, of |-> <<threshold, extend_to>>]

TtlRemediated1(v, w) ==
  Remediated({<<Extends(Literal(1), Literal(2))>>,
              <<Let(v, Unknown), Extends(Local(v), Sum2(Local(v), Literal(1)))>>})

\* A local stands for the parameter.
TtlVulnerable1(v) ==
  Vulnerable({<<Extends(Literal(1), Literal(1))>>, <<Extends(Literal(2), Literal(1))>>,
              <<Let(v, Unknown), Extends(Local(v), Local(v))>>})

TtlVulnerable2 ==
  Vulnerable({<<Extends(Sum2(Literal(2), Literal(1)), Sum2(Literal(1), Literal(1)))>>})

TtlCases(v, w) == TtlRemediated1(v, w) \cup TtlVulnerable1(v) \cup TtlVulnerable2

Approves(amount, expiration) ==
  [do |-> "approve", v |-> Nowhere, of |-> <<amount, expiration>>]

ApprovalRemediated1(v) == Exactly(0, {<<Let(v, Unknown), Approves(Unknown, Local(v))>>})

ApprovalVulnerable1 == Exactly(1, {<<Approves(Literal(MAX - 1), Literal(MAX - 1))>>})

ApprovalCases(v) == ApprovalRemediated1(v) \cup ApprovalVulnerable1

-----------------------------------------------------------------------------
(* Loops, with v a vector and w what the loop binds.                          *)
Loop(form, v) == [do |-> "loop", form |-> form, v |-> v]

Does(do, v) == [do |-> do, form |-> "", v |-> v]

LoopEnds == Does("close", 0)

EndlessRemediated1(v) == Exactly(0, {<<Loop("loop", 0), Does("break", 1), LoopEnds>>,
                                     <<Loop("for", v), LoopEnds>>})

EndlessVulnerable1 == Exactly(1, {<<Loop("loop", 0), LoopEnds>>})

CloneRemediated1(v, w) ==
  Exactly(0, {<<Does("let", v), Does("clone", v), Loop("for", w), LoopEnds>>})

CloneVulnerable1(v, w) ==
  Exactly(1, {<<Does("let", v), Loop("for", w), Does("clone", v), LoopEnds>>})

ScanRemediated1(v, w) == Exactly(0, {<<Does("let", v), Loop("for", w), LoopEnds>>})

ScanVulnerable1(v, w) ==
  Exactly(1, {<<Does("let", v), Loop("for", w), Does("contains", v), LoopEnds>>})

IndexVulnerable1(v) == Vulnerable({<<Loop("for", v), Does("get", v), LoopEnds>>})

-----------------------------------------------------------------------------
(* Transfers.                                                                 *)
Front(do, cond) == [do |-> do, cond |-> cond, init |-> FALSE]

Transferred == <<Front("transfer", <<>>), Front("end", <<>>)>>

Unless(cond) == <<Front("if", cond), Front("return", <<>>), Front("close", <<>>)>>

FrontClean1 == Exactly(0, {Unless(<<Param, Amount>>) \o Transferred})

\* assert!: its negation is looked through.
FrontRemediated1 == Remediated({Unless(<<Amount, Param>>) \o Transferred})

FrontVulnerable1 == Vulnerable({Transferred})

FrontCases == FrontClean1 \cup FrontRemediated1 \cup FrontVulnerable1

Of(do, value) == [do |-> do, of |-> value]

TransferClean1(v) ==
  Exactly(0, {<<Of("require_auth", v), Of("transfer_from", v), Of("end", Other)>>})

\* deposit and refund, from addresses in the state.
TransferRemediated1 == Remediated({<<Of("transfer_from", Other), Of("end", Other)>>})

\* The authorization of an address in the state is none of a parameter's.
TransferVulnerable1(v) == Vulnerable({<<Of("transfer_from", v), Of("end", Other)>>})

TransferCases(v) == TransferClean1(v) \cup TransferRemediated1 \cup TransferVulnerable1(v)

-----------------------------------------------------------------------------
(* divide-before-multiply: `?` hands v on.                                    *)
Expression(e) == <<[do |-> "expression", of |-> e]>>

Computes(first, second) == <<first, second, Statement("end", Nowhere, "")>>

ProductRemediated1 == Remediated({Expression(Node("/", <<Node("*", <<A, A>>), A>>))})

ProductRemediated2(v) ==
  Remediated({Computes(Statement("multiply", v, "checked_mul"), Statement("divide", v, "checked_div"))})

ProductRemediated3(v) ==
  Remediated({Computes(Statement("multiply", v, "*"), Statement("divide", v, "checked_div"))})

ProductVulnerable1 == Vulnerable({Expression(Node("*", <<Node("/", <<A, A>>), A>>))})

ProductVulnerable2(v) ==
  Vulnerable({Computes(Statement("divide", v, "checked_div"), Statement("multiply", v, "checked_mul"))})

ProductVulnerable3(v) ==
  Vulnerable({Computes(Statement("divide", v, "checked_div"), Statement("multiply", v, "*"))})

ProductCases(v) == ProductRemediated1 \cup ProductRemediated2(v) \cup ProductRemediated3(v)
                   \cup ProductVulnerable1 \cup ProductVulnerable2(v) \cup ProductVulnerable3(v)

-----------------------------------------------------------------------------
(* Calls and the storage.                                                     *)
Makes(first, second) ==
  <<[do |-> first], [do |-> second], [do |-> "end", returns |-> "Result"]>>

EnumClean1 == Exactly(0, {Makes("Err", "Ok")})

EnumRemediated1 == Remediated({Makes("Ok", "Err")})

\* ok_or_else counts as ok_or does.
EnumRemediated2 == Remediated({<<[do |-> "ok_or"], [do |-> "try"]>> \o Tail(Makes("", "Ok"))})

EnumVulnerable1 == Vulnerable({<<[do |-> "Err"]>> \o Tail(Tail(Makes("", "")))})

EnumCases == EnumClean1 \cup EnumRemediated1 \cup EnumRemediated2 \cup EnumVulnerable1

Gets(method, consumer) ==
  <<[do |-> "get", method |-> method, consumer |-> consumer, through_let |-> FALSE]>>

\* unwrap_or stands for the other methods that look at an Option safely.
MapClean1 == Exactly(0, {Gets("get", consumer) : consumer \in {"match", "if let", "unwrap_or"}})

MapClean2 == Exactly(0, {Gets("get", consumer) : consumer \in {"let else", ""}})

MapVulnerable1 == Vulnerable({Gets("get_unchecked", "")})

MapCases == MapClean1 \cup MapClean2 \cup MapVulnerable1

Called(kind, e) ==
  <<[do |-> "statement", kind |-> kind, of |-> e, client |-> TRUE, denied |-> FALSE]>>

CallRemediated1 == Exactly(0, {Called("tail", Node("match", <<TryCall>>))})

CallVulnerable1 == Exactly(1, {Called("let _", TryCall)})

Accessed(storage, method, key) ==
  <<[do |-> "access", storage |-> storage, method |-> method, key |-> Node("&", <<key>>)]>>

KeyNamed(kinds) == Node("variant", <<kinds>>)

\* The address in Balance(user) plays no part.
SymbolRemediated1 == Exactly(0, {Accessed("persistent", "set", KeyNamed({"critical"}))})

SymbolVulnerable1 == Exactly(1, {Accessed("persistent", "set", Node("symbol", <<>>))})

\* FlashLoanOngoing is a name of what does not last.
TemporaryRemediated1 == Exactly(0, {Accessed("temporary", "set", KeyNamed({"ephemeral"})),
                                    Accessed("persistent", "set", KeyNamed({"critical"}))})

TemporaryVulnerable1 == Exactly(1, {Accessed("temporary", "set", KeyNamed({"critical"}))})

Stored(storage, method, type) ==
  <<[do |-> "access", storage |-> storage, method |-> method, type |-> Node(type, <<>>)]>>

DynamicClean1 == Exactly(0, {Stored("persistent", "set", "number"), Stored("instance", "set", "number"),
                             Stored("persistent", "get", "number")})

DynamicRemediated1 == Remediated({Stored("persistent", "set", "number")})

DynamicVulnerable1 == Vulnerable({Stored("persistent", "set", "Vec")})

DynamicVulnerable2 == Vulnerable({Stored("persistent", "set", "Map")})

DynamicVulnerable3 == Vulnerable({Stored("instance", "set", "Map")})

DynamicCases == DynamicClean1 \cup DynamicRemediated1 \cup DynamicVulnerable1
                \cup DynamicVulnerable2 \cup DynamicVulnerable3

\* get and get2; the vector of add_data is not searched.
VecVulnerable1(v) ==
  LET taken == [do |-> "let", v |-> v, from |-> "typed"]
      finds(what, from) == [do |-> "find", v |-> what, from |-> from]
  IN  Remediated({<<taken>>}) \cup Vulnerable({<<taken, finds(v, "")>>, <<finds(Nowhere, "typed")>>})

-----------------------------------------------------------------------------
(* Crates.                                                                    *)
Item(do, attr, result) == [do |-> do, attr |-> attr, result |-> result]

Macro == Item("macro", "", FALSE)

\* add() panics, and returns no Result.
PanicRemediated2 ==
  Remediated({<<Item("impl", "", FALSE), Item("method", "", FALSE), Macro, Item("end", "", FALSE)>>})

PanicVulnerable1 ==
  Vulnerable({<<Item("impl", "", FALSE), Item("method", "", TRUE), Macro, Item("end", "", FALSE)>>})

\* The assertion is in a test.
AssertRemediated1 ==
  Remediated({<<Item("mod", "test", FALSE), Item("fn", "test", FALSE), Macro>>})

AssertVulnerable1 ==
  Vulnerable({<<Item("impl", "", FALSE), Item("method", "", FALSE), Macro>>})

DebugVulnerable1 ==
  Exactly(1, {<<Item("impl", "", FALSE), Item("method", "", FALSE), Macro>>})

ImportOf(uses_deps_path) ==
  [do |-> "contractimport", of |-> <<"_">>, optimized |-> FALSE, uses_deps_path |-> uses_deps_path]

ImportRemediated1 ==
  Remediated({<<[do |-> "dependency", table |-> "dependencies", key |-> <<"-">>, package |-> Nowhere],
                ImportOf(TRUE)>>})

ImportVulnerable1 == Vulnerable({<<ImportOf(FALSE)>>})

-----------------------------------------------------------------------------
\* The cases for each detector, with v and w for their locals.
CasesOf(of, v, w) ==
  CASE of = "division-by-zero" -> DivisionCases(v)
    [] of = "unsafe-unwrap" -> UnwrapCases(v, w)
    [] of = "unsafe-lossy-cast" -> LossyCastVulnerable1
    [] of = "dos-unbounded-operation" -> UnboundedCases(v)
    [] of = "integer-overflow-or-underflow" -> OverflowCases
    [] of = "ineffective-extend-ttl" -> TtlCases(v, w)
    [] of = "excessive-token-approval" -> ApprovalCases(v)
    [] of = "non-terminating-loop" -> EndlessRemediated1(v) \cup EndlessVulnerable1
    [] of = "clone-in-loop" -> CloneRemediated1(v, w) \cup CloneVulnerable1(v, w)
    [] of = "linear-scan-in-loop" -> ScanRemediated1(v, w) \cup ScanVulnerable1(v, w)
    [] of = "iterators-over-indexing" -> IndexVulnerable1(v)
    [] of = "front-running" -> FrontCases
    [] of = "unrestricted-transfer-from" -> TransferCases(v)
    [] of = "divide-before-multiply" -> ProductCases(v)
    [] of = "unused-return-enum" -> EnumCases
    [] of = "unsafe-map-get" -> MapCases
    [] of = "unchecked-cross-contract-result" -> CallRemediated1 \cup CallVulnerable1
    [] of = "raw-symbol-storage-key" -> SymbolRemediated1 \cup SymbolVulnerable1
    [] of = "unsafe-temporary-storage" -> TemporaryRemediated1 \cup TemporaryVulnerable1
    [] of = "dynamic-storage" -> DynamicCases
    [] of = "vec-could-be-mapping" -> VecVulnerable1(v)
    [] of = "avoid-panic-error" -> PanicRemediated2 \cup PanicVulnerable1
    [] of = "assert-violation" -> AssertRemediated1 \cup AssertVulnerable1
    [] of = "debug-assert-in-contract" -> DebugVulnerable1
    [] of = "contract-import-dependency" -> ImportRemediated1 \cup ImportVulnerable1
    [] OTHER -> {}

Cases == [of \in Lints |-> UNION {CasesOf(of, v, w) : <<v, w>> \in {p \in Locals \X Locals : p[1] # p[2]}}]

\* Each function of the repository's test cases can be walked to its end, and has
\* then the findings that its case expects, in the model as in the integration tests
\* (scripts/test_utils.py:180-199): what the models say of a detector agrees with
\* what its authors say of it.
ExamplesJudged ==
  \A c \in Cases[lint] :
    LET n == Len(walked)
    IN  /\ walked = c.body /\ (lint = "avoid-panic-error" => AllChecked) => Cardinality(reported) \in c.findings
        /\ n < Len(c.body) /\ walked = SubSeq(c.body, 1, n) =>
             ENABLED (Next /\ walked' = SubSeq(c.body, 1, n + 1))
=============================================================================
