------------------------------ MODULE CallLints ------------------------------
(* Detectors of one call.  Of what becomes of its result: unused-return-enum,  *)
(* unsafe-map-get and unchecked-cross-contract-result.  Of what it is given: *)
(* unsafe-temporary-storage, raw-symbol-storage-key, dynamic-storage and     *)
(* vec-could-be-mapping, which look at calls of the storage.  Calls that move *)
(* tokens are in TransferLints.                                              *)
EXTENDS TransferLints

-----------------------------------------------------------------------------
(* unused-return-enum.  A method has the constructors Ok and Err, ok_or, which *)
(* makes both, a `?`, a `return` of another function's result, map_err and   *)
(* or_else, which hand a result on, and unwrap_or, which ends one; it returns *)
(* a Result, another named type, or a type without a name (a tuple, nothing).*)
EnumConstructs == [do : {"Ok", "Err", "ok_or", "map_err", "unwrap_or", "try", "return call"}]
                  \cup [do : {"end"}, returns : {"Result", "named", "unnamed"}]

EnumStart == [count_ok |-> 0, count_err |-> 0, found_try |-> FALSE, found_return |-> FALSE,
              span |-> {}]

Count(m, ok, err) == [m EXCEPT !.count_ok = @ + ok, !.count_err = @ + err, !.span = @ \cup {Here}]

\* A combinator makes the other variant of the one that was counted before it.
CountBoth(m) == [m EXCEPT !.count_ok = @ + 1, !.count_err = @ + 1]

CountOther(m) ==
  LET err == IF m.count_ok > 0 THEN m.count_err + 1 ELSE m.count_err
  IN  [m EXCEPT !.count_err = err, !.count_ok = IF err > 0 THEN @ + 1 ELSE @]

CounterStep(m, e) ==
  CASE e.do = "Ok" -> Count(m, 1, 0)
    [] e.do = "Err" -> Count(m, 0, 1)
    [] e.do = "ok_or" -> Count(m, 1, 1)
    [] e.do \in {"map_err", "unwrap_or"} -> CountOther(m)
    [] e.do = "try" -> [m EXCEPT !.found_try = TRUE]
    [] e.do = "return call" -> [m EXCEPT !.found_return = TRUE]
    [] e.do = "end" -> m

\* Only the name of another type keeps the method from being looked at.
IsExamined(e) == e.returns # "named"

VariantUnused(m) == ~m.found_return /\ ~m.found_try /\ (m.count_err = 0 \/ m.count_ok = 0)

Did(do) == {n \in DOMAIN walked : walked[n].do = do}

VisitEnum ==
  /\ Works({"unused-return-enum"})
  /\ Did("end") = {}
  /\ \E e \in EnumConstructs :
       Pass(e, CounterStep(memory, e),
            IF e.do = "end" /\ IsExamined(e) /\ VariantUnused(memory) THEN memory.span ELSE {})

\* A function that makes both variants, or hands the result of another one on by `?`
\* or by return, is never reported, and one that makes a single variant is, at every
\* place where it does: unless a combinator comes after one, whatever it hands on,
\* for which an end of a result (unwrap_or) counts too; one before all of them is
\* forgotten.
UnusedVariantsReported ==
  lint = "unused-return-enum" /\ Did("end") # {} /\ walked[Len(walked)].returns # "named" =>
    LET both == \/ Did("ok_or") # {}
                \/ Did("Ok") # {} /\ Did("Err") # {}
        handed == Did("try") \cup Did("return call") # {}
        made == Did("Ok") \cup Did("Err")
        after == \E i \in made : \E n \in Did("map_err") \cup Did("unwrap_or") : i < n
    IN  reported = IF both \/ handed \/ after THEN {} ELSE made

-----------------------------------------------------------------------------
(* unsafe-map-get.  A get of a map, what its value is handed to at once, and,  *)
(* when it is bound by a let, where the local is handed to.                  *)
Consumers == {"", "unwrap", "unwrap_or", "match", "if let", "let else", "?"}

MapConstructs == [do : {"get"}, method : {"get", "get_unchecked", "try_get_unchecked"},
                  consumer : Consumers, through_let : BOOLEAN]

IsUnsafeMapGet(e) == e.method \in {"get_unchecked", "try_get_unchecked"}

\* match, if let, `?` and the methods of SAFE_OPTION_CONSUMERS, right on the get.
MarkAnyConsumer(e) == e.consumer # ""

MarkSafeConsumers(e) == e.consumer \in {"unwrap_or", "match", "if let", "?"} /\ ~e.through_let

VisitMap ==
  /\ Works({"unsafe-map-get"})
  /\ \E e \in MapConstructs :
       Pass(e, memory, Mark(IsUnsafeMapGet(e) /\ ~MarkSafeConsumers(e)))

\* The program stops when the key is absent: an unchecked get stops by itself.
StopsWhenAbsent(e) == e.method # "get" \/ e.consumer = "unwrap"

\* Only a get that stops the program by itself is reported, and one is passed over
\* only when its result is looked at where it is made, by a match, an if let, a `?`
\* or a method of an Option, although the key may be absent all the same, and the
\* value of get_unchecked says nothing of it (unsafe-map-get/src/lib.rs:115); the
\* unwrap of a checked get is left to another detector.
MapGetsReported ==
  lint = "unsafe-map-get" =>
    \A i \in Latest :
      LET e == walked[i]
      IN  /\ i \in reported => StopsWhenAbsent(e) /\ e.method # "get"
          /\ i \notin reported /\ StopsWhenAbsent(e) =>
               \/ e.method = "get"
               \/ e.consumer \notin {"", "unwrap", "let else"} /\ ~e.through_let

-----------------------------------------------------------------------------
(* unchecked-cross-contract-result.  A try_ call of a client, as it stands in  *)
(* blocks, calls of drop and .ok(), in a statement; "let _" also stands for  *)
(* `_ = e`.                                                                  *)
TryCall == Node("try_call", <<>>)

Handed == {TryCall} \cup {Node(op, <<TryCall>>) : op \in {"block", "drop", "ok", "match"}}

StatementKinds == {"semi", "let _", "let", "tail"}

CallConstructs == [do : {"statement"}, kind : StatementKinds, of : Handed,
                   client : BOOLEAN, denied : BOOLEAN]

\* The parent of the call itself is a statement, or a let of nothing.
ResultIsUnused(e) == e.kind \in {"semi", "let _", "let"} /\ e.of = TryCall

ResultIsIgnored(e) == e.kind \in {"semi", "let _"} /\ e.of = TryCall

VisitCalls ==
  /\ Works({"unchecked-cross-contract-result"})
  /\ \E e \in CallConstructs : Pass(e, memory, Mark(e.client /\ ~e.denied /\ ResultIsIgnored(e)))

\* Nothing is decided by the result of the call.
Swallowed(e) == e.of.op # "match" /\ (e.kind \in {"semi", "let _"} \/ e.of.op = "drop")

\* A call that is reported has its failure swallowed, and one whose failure is goes
\* unreported only when it is wrapped, or is no call of another contract.
FailuresReported ==
  lint = "unchecked-cross-contract-result" =>
    \A i \in Latest :
      /\ i \in reported => Swallowed(walked[i])
      /\ Swallowed(walked[i]) /\ i \notin reported =>
           walked[i].of # TryCall \/ ~walked[i].client \/ walked[i].denied

\* Results that nobody looks at are reported, and no others.
ResultsJudged == UnusedVariantsReported /\ MapGetsReported /\ FailuresReported

-----------------------------------------------------------------------------
Storages == {"temporary", "persistent", "instance"}

Methods == {"get", "set", "has", "remove", "extend_ttl"}

-----------------------------------------------------------------------------
(* A key is a variant of an enum, with the kinds of substrings in its name and *)
(* perhaps a payload, a Symbol, a literal, or another value (a struct); there*)
(* may be references around it, or it is bound by a let before.              *)
Payloads == {<<>>, <<Node("symbol", <<>>)>>, <<Node("variant", <<{"critical"}>>)>>}

Variant(name, payload) == Node("variant", <<name>> \o payload)

PlainKeys == {Variant(name, payload) : name \in SUBSET {"critical", "ephemeral"}, payload \in Payloads}
             \cup {Node(op, <<>>) : op \in {"symbol", "literal", "struct"}}

StorageKeys ==
  LET referred == PlainKeys \cup {Node("&", <<k>>) : k \in PlainKeys}
  IN  referred \cup {Node("&", <<k>>) : k \in referred} \cup {Node("let", <<k>>) : k \in PlainKeys}

KeyLints == {"unsafe-temporary-storage", "raw-symbol-storage-key"}

Accesses == [do : {"access"}, storage : Storages, method : Methods, key : StorageKeys]

\* One reference is taken away.
PeelBorrow(key) == IF key.op = "&" THEN key.args[1] ELSE key

IsVariant(key) == PeelBorrow(key).op = "variant"

CriticalName(key) == IsVariant(key) /\ "critical" \in PeelBorrow(key).args[1]

\* A word for what does not last outweighs one for what has to.
CriticalKeyVariant(key) ==
  IsVariant(key) /\ PeelBorrow(key).args[1] = {"critical"}

UnsafeTemporary(e) == /\ e.storage = "temporary" /\ e.method \in {"set", "get", "has"}
                      /\ CriticalKeyVariant(e.key)

LookThrough(key) == IF key.op \in {"&", "let"} THEN key.args[1] ELSE key

\* The key itself: no more than two references, or a let, are around it.
Outermost(key) == LookThrough(LookThrough(key))

\* The type of a key, references apart, whatever the expression is.
TypeOf(key) == Outermost(key).op

IsRawSymbolKey(key) ==
  LET inner == PeelBorrow(key)
  IN  inner.op = "literal" \/ (inner.op # "variant" /\ TypeOf(inner) = "symbol")

VisitKey ==
  /\ Works(KeyLints)
  /\ \E e \in Accesses :
       Pass(e, memory, Mark(IF lint = "unsafe-temporary-storage" THEN UnsafeTemporary(e)
                            ELSE IsRawSymbolKey(e.key)))

\* No access is reported for both reasons.  What is reported is keyed on a critical
\* name with no word for what need not last, or on no enum at all; what is keyed so
\* goes unreported only when it lasts, or its name says that it need not, when the
\* key is bound before or twice referred to (a Symbol is known by its type even
\* then), or it is only removed or kept alive.
KeysReported ==
  lint \in KeyLints =>
    \A i \in Latest :
      LET e == walked[i]
          key == Outermost(e.key)
          hidden == e.key.op = "let" \/ PeelBorrow(e.key).op = "&"
      IN  /\ ~(UnsafeTemporary(e) /\ IsRawSymbolKey(e.key))
          /\ lint = "unsafe-temporary-storage" =>
               LET critical == key.op = "variant" /\ "critical" \in key.args[1] /\ e.storage = "temporary"
               IN  /\ i \in reported => critical /\ "ephemeral" \notin key.args[1]
                   /\ critical /\ i \notin reported =>
                        hidden \/ "ephemeral" \in key.args[1] \/ e.method \in {"remove", "extend_ttl"}
          /\ lint = "raw-symbol-storage-key" =>
               /\ i \in reported => key.op \in {"symbol", "literal"}
               /\ key.op = "symbol" => i \in reported
               /\ key.op = "literal" /\ i \notin reported => hidden

-----------------------------------------------------------------------------
(* dynamic-storage: the type of a value that is set.                          *)
FlatTypes == {Node(op, <<>>) : op \in {"number", "str", "slice", "dyn", "Vec", "String", "Map", "Bytes"}}

Containers == {"array", "pointer", "reference", "tuple", "struct", "Option"}

Holding(op, t) == Node(op, <<t>>)

TupleOf(t, u) == Node("tuple", <<t, u>>)

ValueTypes == LET one == FlatTypes \cup {Holding(op, t) : op \in Containers, t \in FlatTypes}
              IN  one \cup {Holding(op, t) : op \in Containers, t \in one}
                  \cup {TupleOf(t, u) : t, u \in FlatTypes}

IsDynamicTypeItself(type) == type.op \in {"str", "slice", "dyn", "Vec", "String", "Map", "LinkedList"}

Elements(types) == UNION {{t.args[i] : i \in DOMAIN t.args} : t \in types}

\* A type is at most twice inside of another.
LookedThrough(types) ==
  types \cup Elements({t \in types : t.op \in {"array", "pointer", "reference", "tuple"}})

IsDynamicType(type) == \E t \in LookedThrough(LookedThrough({type})) : IsDynamicTypeItself(t)

WithElements(types) == types \cup Elements(types)

\* An op of these is somewhere in the type.
Mentioned(type, ops) == \E t \in WithElements(WithElements({type})) : t.op \in ops

VisitValue ==
  /\ Works({"dynamic-storage"})
  /\ \E storage \in Storages, method \in {"set", "get"}, type \in ValueTypes :
       Pass([do |-> "access", storage |-> storage, method |-> method, type |-> type], memory,
            Mark(method = "set" /\ storage # "temporary" /\ IsDynamicType(type)))

\* A value is reported only if it can grow without bound, and one that can goes
\* unreported only in the storage that does not last, in a struct or an Option, or
\* as a string of bytes.
GrowingValuesReported ==
  lint = "dynamic-storage" =>
    \A i \in Latest :
      LET type == walked[i].type
          grows == Mentioned(type, {t.op : t \in FlatTypes} \ {"number"})
      IN  /\ i \in reported => grows
          /\ grows /\ i \notin reported =>
               \/ walked[i].method = "get" \/ walked[i].storage = "temporary"
               \/ Mentioned(type, {"struct", "Option", "Bytes"})

-----------------------------------------------------------------------------
(* vec-could-be-mapping.  Lets of v: from the storage, with the type of a      *)
(* vector of pairs at the call or without; a vector of numbers from there in *)
(* the same initializer, after the one of pairs; from a get of something else *)
(* with the type at the call; from elsewhere; or another local.  Then a       *)
(* search of v, or of what comes from such a place right there.  A block is a *)
(* statement, or the last expression of what is around it.                   *)
Sources == {"typed", "untyped", "typed, numbers", "typed elsewhere", "elsewhere"}

VecConstructs == [do : {"let"}, v : Locals, from : Sources \cup Locals]
                 \cup [do : {"block"}, v : {Nowhere}, from : {"statement", "tail"}]
                 \cup [do : {"close"}, v : {Nowhere}, from : {""}]
                 \cup [do : {"find"}, v : Locals, from : {""}]
                 \cup [do : {"find"}, v : {Nowhere}, from : Sources]

\* FindGetStorageExpression: the last get that says its type has the say, and every
\* receiver is taken for a storage (is_storage).
FindGetAny(from) == from \in {"typed", "typed elsewhere", "typed, numbers"}

FindGetStorageExpression(from) == from \in {"typed", "typed elsewhere"}

\* A statement that is a block is around position n.
InStatement(n) ==
  \E i \in 1 .. n : walked[i].do = "block" /\ walked[i].from = "statement" /\ InScope(i, n)

\* FindStorageLocal goes into no statement, but into the last expression of a block.
FindStorageLocal(v) ==
  \E n \in DOMAIN walked : /\ walked[n].do = "let" /\ walked[n].v = v /\ ~InStatement(n)
                           /\ FindGetStorageExpression(walked[n].from)

\* The last expression of a block has just ended.
AfterTail ==
  /\ walked # <<>> /\ walked[Len(walked)].do = "close"
  /\ walked[Opener(Len(walked))].from = "tail"

VisitVec ==
  /\ Works({"vec-could-be-mapping"})
  /\ \E e \in VecConstructs :
       /\ e.do = "let" => \A n \in DOMAIN walked : walked[n].v # e.v
       /\ AfterTail => e.do = "close"
       /\ \A v \in {e.from} \cup (IF e.do = "find" THEN {e.v} ELSE {}) :
            v \in Locals => \E n \in DOMAIN walked : walked[n].do = "let" /\ walked[n].v = v /\ InScope(n, Here)
       /\ Pass(e, memory, Mark(e.do = "find" /\ IF e.v = Nowhere THEN FindGetStorageExpression(e.from)
                                                ELSE FindStorageLocal(e.v)))

\* The lets of v, of the local that it is bound to, and so on to the source.
ComesFrom(v, source) ==
  \E last \in DOMAIN walked : \E chain \in [1 .. last -> Did("let")] :
    /\ walked[chain[1]].v = v
    /\ \A k \in 1 .. last - 1 : walked[chain[k]].from = walked[chain[k + 1]].v
    /\ walked[chain[last]].from = source

\* A search is reported only if the vector comes out of a get at which the type of
\* its pairs is written, of the storage or of anything else (is_storage, :234, holds
\* for every receiver), and one of a vector that comes so out of the storage is passed
\* over only if another get follows in the initializer, it went through a second
\* local, or its let stands in a block that is a statement.
SearchesReported ==
  lint = "vec-could-be-mapping" =>
    \A i \in Latest :
      LET e == walked[i]
          from(source) == IF e.v = Nowhere THEN e.from = source ELSE ComesFrom(e.v, source)
      IN  e.do = "find" =>
            /\ i \in reported => from("typed") \/ from("typed elsewhere")
            /\ from("typed") /\ i \notin reported =>
                 \E n \in Did("let") : walked[n].v = e.v /\ (walked[n].from \in Locals \/ InStatement(n))

\* Each detector of this module judges the storage's arguments right.
StoresJudged == KeysReported /\ GrowingValuesReported /\ SearchesReported

-----------------------------------------------------------------------------
CallSpec == /\ TransferSpec
            /\ Follows({"unused-return-enum"}, EnumStart, VisitEnum)
            /\ Follows({"unsafe-map-get"}, Nothing, VisitMap)
            /\ Follows({"unchecked-cross-contract-result"}, Nothing, VisitCalls)
            /\ Follows(KeyLints, Nothing, VisitKey)
            /\ Follows({"dynamic-storage"}, Nothing, VisitValue)
            /\ Follows({"vec-could-be-mapping"}, Nothing, VisitVec)

\* Calls are judged right: those that move tokens, by what guards them; the others by
\* what becomes of their results, and by what the storage is called with.
CallsJudged == TransfersJudged /\ ResultsJudged /\ StoresJudged
=============================================================================
