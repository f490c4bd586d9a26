---------------------- MODULE AccessControlLintProofs ----------------------
(* For every crate, whatever order its functions, their callers and their    *)
(* callees come in: the detectors over calls report exactly the functions    *)
(* that nothing excuses, the detectors of events exactly those that stay     *)
(* silent, and unvalidated-cross-contract-target exactly the calls whose     *)
(* address a caller controls.                                                *)
EXTENDS AccessControlLint, EventLint, CrossContractTarget, FiniteSetTheorems, TLAPS

\* The functions of the crate and what macros made for them.
Made == {i \in Items : i.as \in {"itself"} \cup program[i.of].generated}

\* check_fn has seen the function as it was written.
Seen(f) == [of |-> f, as |-> "itself"] \notin unvisited

\* Functions that authorize, guard or exempt, and those that may have to be reported.
Crediting(f) == IF lint \in FlowKinds THEN Credits(lint, f) ELSE AuthIn(f)

Suspected(f) == IF lint \in FlowKinds THEN Site(lint, f) ELSE Suspect(f)

Suspects == {f \in Functions : Written(f) /\ Suspected(f)}

\* What was gathered is what is true of the functions seen so far, and no more: the
\* names and the calls, and what the detector looks for.
CallsGathered ==
  /\ program \in ProgramType
  /\ unvisited \subseteq Made /\ checked = Made \ unvisited
  /\ graph = {c \in Functions \X (Functions \cup {External}) :
                Seen(c[1]) /\ Written(c[1]) /\ c[2] \in CallsOf(c[1])}

Gathered ==
  /\ CallsGathered
  /\ authorized = {f \in Functions : Seen(f) /\ Written(f) /\ Crediting(f)}
  /\ pc = "visit" => suspects = {f \in Suspects : Seen(f)} /\ reported = {}
  /\ pc # "visit" => unvisited = {} /\ suspects \subseteq Suspects

\* The search from f: what was visited authorizes nothing, and all that it calls was
\* visited or is pending; both lie in the flow of f.
Searching(f) ==
  /\ f \in visited \cup pending
  /\ visited \cup pending \subseteq Flow(f) \cup {External}
  /\ visited \cap authorized = {}
  /\ \A x \in visited : Callees(x) \subseteq visited \cup pending

\* An entry point calls the suspect and reaches no authorization.
OpenCaller == \E g \in Functions : Entry(g) /\ Calls(g, callee) /\ ~Protected(g)

\* The callers looked at, but for those in rest, have been judged.
CallersJudged(rest) ==
  /\ callers \subseteq Callers(callee)
  /\ IF authed THEN \A g \in Callers(callee) \ rest : Entry(g) => Protected(g)
               ELSE called /\ OpenCaller

AtWork == pc \in {"callee", "callers", "caller"}

\* Every suspect taken from the list was judged right, but for the one at work.
Judged ==
  /\ pc # "visit" /\ lint \notin FlowKinds
  /\ \A f \in reported : Misuse(f)
  /\ \A f \in Suspects \ suspects : Misuse(f) => f \in reported \/ (AtWork /\ f = callee)
  /\ AtWork => callee \in Suspects
  /\ pc = "callee" => Searching(callee)
  /\ pc \in {"callers", "caller"} => ~Protected(callee)
  /\ pc = "callers" => CallersJudged(callers)
  /\ pc = "caller" => /\ authed
                      /\ \E f \in Callers(callee) :
                           Entry(f) /\ Searching(f) /\ CallersJudged(callers \cup {f})

Progress ==
  \/ pc = "visit"
  \/ Judged /\ pc \in {"next", "callee", "callers", "caller"}
  \/ Judged /\ pc = "done" /\ suspects = {}
  \/ pc = "done" /\ lint \in FlowKinds /\ reported = {f \in Functions : Wrong(lint, f)}

IInv == Gathered /\ Progress

-----------------------------------------------------------------------------
(* What the gathered facts come to when every function was seen.             *)

LEMMA ItemOfFunction ==
  \A f \in Functions : [of |-> f, as |-> "itself"] \in Items
BY DEF Items

LEMMA EntriesKnown ==
  ASSUME CallsGathered, CrateSeen, NEW f \in Functions
  PROVE  IsSorobanFunction(f) <=> Entry(f)
<1>1. \A as \in {"itself"} \cup Generated :
        [of |-> f, as |-> as] \in checked <=> as \in {"itself"} \cup program[f].generated
  BY DEF CallsGathered, CrateSeen, Items, Made
<1>2. program[f].generated \subseteq Generated
  BY DEF CallsGathered, ProgramType
<1> QED BY <1>1, <1>2, GeneratedAssumption DEF IsSorobanFunction, Entry

LEMMA CallsKnown ==
  ASSUME CallsGathered, CrateSeen, NEW f \in Functions, NEW g \in Functions
  PROVE  g \in Callees(f) <=> Calls(f, g)
<1>1. g \in CallsOf(f) <=> g \in program[f].calls
  BY ExternalAssumption DEF CallsOf
<1>2. <<f, g>> \in graph <=> ~program[f].expanded /\ g \in CallsOf(f)
  BY DEF CallsGathered, CrateSeen, Seen, Written
<1> QED BY <1>1, <1>2 DEF Callees, Calls

LEMMA CreditsKnown ==
  ASSUME Gathered, CrateSeen
  PROVE  authorized = {f \in Functions : Written(f) /\ Crediting(f)}
BY DEF Gathered, CallsGathered, CrateSeen, Seen

\* A flow has the function it begins with and all that is called from it, and every set
\* with these has the flow.
LEMMA FlowFacts ==
  ASSUME NEW f \in Functions
  PROVE  /\ f \in Flow(f) /\ Flow(f) \subseteq Functions
         /\ \A x \in Flow(f) : \A y \in Functions : Calls(x, y) => y \in Flow(f)
         /\ \A S \in SUBSET Functions :
              f \in S /\ (\A x \in S : \A y \in Functions : Calls(x, y) => y \in S)
                => Flow(f) \subseteq S
BY DEF Flow

LEMMA ReachableKnown ==
  ASSUME CallsGathered, CrateSeen, NEW f \in Functions
  PROVE  Reachable(f) = Flow(f)
<1>1. \A S \in SUBSET Functions :
        (\A x \in S : Callees(x) \cap Functions \subseteq S)
          <=> (\A x \in S : \A y \in Functions : Calls(x, y) => y \in S)
  BY CallsKnown
<1> QED BY <1>1 DEF Reachable, Flow

-----------------------------------------------------------------------------
(* The facts, gathered in any order.                                         *)

LEMMA GatheredFirst == Init => Gathered
<1> SUFFICES ASSUME Init PROVE Gathered
  OBVIOUS
<1>1. program \in ProgramType
  BY ProgramsAssumption DEF Init, CrateInit
<1>2. \A f \in Functions : ~Seen(f)
  BY DEF Init, CrateInit, Seen, Items
<1>3. unvisited = Made /\ checked = {}
  BY DEF Init, CrateInit, Made
<1> QED BY <1>1, <1>2, <1>3 DEF Gathered, CallsGathered, Init, CrateInit, Suspects

\* Definitions over the crate do not change with it.
LEMMA ProgramKept ==
  ASSUME UNCHANGED program
  PROVE  /\ Made' = Made
         /\ \A f : /\ Written(f)' <=> Written(f)
                   /\ CallsOf(f)' = CallsOf(f)
BY DEF Made, Written, CallsOf

LEMMA CrateKept ==
  ASSUME UNCHANGED <<program, lint>>
  PROVE  /\ Made' = Made /\ Suspects' = Suspects
         /\ \A f : /\ Written(f)' <=> Written(f)
                   /\ Crediting(f)' <=> Crediting(f)
                   /\ Suspected(f)' <=> Suspected(f)
                   /\ CallsOf(f)' = CallsOf(f)
<1>1. \A f, c : Has(f, c)' <=> Has(f, c)
  BY DEF Has
<1>2. \A f, c : Signed(f, c)' <=> Signed(f, c)
  BY DEF Signed
<1>3. \A f : Auths(f)' = Auths(f) /\ Written(f)' = Written(f) /\ CallsOf(f)' = CallsOf(f)
  BY DEF Auths, Written, CallsOf
<1>4. \A f : AuthIn(f)' = AuthIn(f) /\ OpIn(f)' = OpIn(f)
  BY DEF AuthIn, OpIn, AuthForms
<1>5. \A f : Suspect(f)' = Suspect(f)
  BY <1>4 DEF Suspect
<1>6. \A f : Exempts(f)' = Exempts(f) /\ Candidates(f)' = Candidates(f)
  BY <1>1 DEF Exempts, Capped, Persistent, Candidates
<1>7. \A f : Credits(lint, f)' = Credits(lint, f)
  BY <1>1, <1>3, <1>6 DEF Credits, MismatchAuthorized, GuardFound, AdminAuthFound
<1>8. \A f : Site(lint, f)' = Site(lint, f)
  BY <1>1, <1>2, <1>3, <1>6 DEF Site, MismatchSite, InitSink, GuardFound, AdminParam
<1>9. \A f : Crediting(f)' = Crediting(f) /\ Suspected(f)' = Suspected(f)
  BY <1>4, <1>5, <1>7, <1>8 DEF Crediting, Suspected
<1> QED BY <1>3, <1>9 DEF Made, Suspects

\* A visit, for any detector, gathers the calls of the function.
LEMMA CallsByVisit ==
  ASSUME CallsGathered, NEW item \in Items, item \in unvisited, CheckFn(item)
  PROVE  /\ CallsGathered'
         /\ \A g \in Functions : /\ Written(g)' <=> Written(g)
                                 /\ program' = program
                                 /\ Seen(g)' <=> Seen(g) \/ (item.as = "itself" /\ g = item.of)
<1> DEFINE f == item.of
<1>1. f \in Functions
  BY DEF Items
<1>2. program' = program /\ unvisited' = unvisited \ {item}
  BY DEF CheckFn
<1>3. /\ Made' = Made
      /\ \A g : (Written(g)' <=> Written(g)) /\ CallsOf(g)' = CallsOf(g)
  BY <1>2, ProgramKept
<1>4. unvisited' \subseteq Made' /\ checked' = Made' \ unvisited'
  <2>1. item \in Made /\ checked' = checked \cup {item}
    BY DEF CallsGathered, CheckFn, Record
  <2> QED BY <1>2, <1>3, <2>1 DEF CallsGathered
<1>5. graph' = IF Analysed(item) THEN graph \cup {<<f, g>> : g \in CallsOf(f)} ELSE graph
  BY DEF CheckFn
<1>6. program' \in ProgramType
  BY <1>2 DEF CallsGathered
<1>7. \A g \in Functions : Seen(g)' <=> Seen(g) \/ (item.as = "itself" /\ g = f)
  BY <1>1, <1>2 DEF Seen, Items
<1>8. CASE item.as = "itself"
  <2>1. Analysed(item) <=> Written(f)
    BY <1>8 DEF Analysed, Written
  <2>2. CallsOf(f) \subseteq Functions \cup {External}
    BY <1>1 DEF CallsOf, CallsGathered, ProgramType
  <2>3. graph' = {c \in Functions \X (Functions \cup {External}) :
                    Seen(c[1])' /\ Written(c[1]) /\ c[2] \in CallsOf(c[1])}
    BY <1>1, <1>5, <1>7, <1>8, <2>1, <2>2 DEF CallsGathered
  <2> QED BY <1>2, <1>3, <1>4, <1>6, <1>7, <2>3 DEF CallsGathered
<1>9. CASE item.as # "itself"
  <2>1. ~Analysed(item)
    BY <1>9 DEF Analysed
  <2>2. graph' = graph
    BY <1>5, <2>1
  <2>3. graph' = {c \in Functions \X (Functions \cup {External}) :
                    Seen(c[1])' /\ Written(c[1]) /\ c[2] \in CallsOf(c[1])}
    BY <1>7, <1>9, <2>2 DEF CallsGathered
  <2> QED BY <1>2, <1>3, <1>4, <1>6, <1>7, <2>3 DEF CallsGathered
<1> QED BY <1>8, <1>9

LEMMA GatheredByVisit ==
  ASSUME Gathered, NEW item \in Items, Visit(item)
  PROVE  Gathered'
<1> DEFINE f == item.of
           New(holds) == IF Analysed(item) /\ holds THEN {f} ELSE {}
<1>1. /\ f \in Functions /\ item \in unvisited /\ pc = "visit" /\ CheckFn(item)
      /\ UNCHANGED <<lint, pc, reported>>
  BY DEF Items, Visit
<1>2. /\ CallsGathered'
      /\ \A g \in Functions : /\ Written(g)' <=> Written(g)
                              /\ program' = program
                              /\ Seen(g)' <=> Seen(g) \/ (item.as = "itself" /\ g = f)
  BY <1>1, CallsByVisit DEF Gathered
<1>3. Suspects' = Suspects /\ \A g : Crediting(g)' <=> Crediting(g)
  BY <1>1, <1>2, CrateKept
<1>4. /\ suspects' = suspects \cup New(Suspected(f))
      /\ authorized' = authorized \cup New(Crediting(f))
  BY DEF Visit, Suspected, Crediting, Suspect
<1>5. Analysed(item) <=> item.as = "itself" /\ Written(f)
  BY DEF Analysed, Written
<1>6. authorized' = {g \in Functions : Seen(g)' /\ Written(g)' /\ Crediting(g)'}
  BY <1>1, <1>2, <1>3, <1>4, <1>5 DEF Gathered
<1>7. suspects' = {g \in Suspects' : Seen(g)'}
  BY <1>1, <1>2, <1>3, <1>4, <1>5 DEF Gathered, Suspects
<1>8. reported' = {} /\ pc' = "visit"
  BY <1>1 DEF Gathered
<1> QED BY <1>2, <1>6, <1>7, <1>8 DEF Gathered

\* The rest of the analysis gathers nothing.
LEMMA GatheredKept ==
  ASSUME Gathered, CrateSeen, UNCHANGED <<crate, lint, authorized>>,
         pc' # "visit", suspects' \subseteq suspects
  PROVE  Gathered'
<1>1. UNCHANGED <<program, unvisited, checked, graph, lint, authorized>>
  BY DEF crate
<1>2. /\ Made' = Made /\ Suspects' = Suspects
      /\ \A g : /\ Written(g)' <=> Written(g)
                /\ Crediting(g)' <=> Crediting(g)
                /\ CallsOf(g)' = CallsOf(g)
                /\ Seen(g)' <=> Seen(g)
  BY <1>1, CrateKept DEF Seen
<1>3. suspects \subseteq Suspects
  BY DEF Gathered, CallsGathered
<1> QED BY <1>1, <1>2, <1>3 DEF Gathered, CallsGathered, CrateSeen

-----------------------------------------------------------------------------
(* The detectors of FlowLints.                                               *)

\* One authorization for one address: a set with one element.
LEMMA OneAddress ==
  ASSUME NEW f, Cardinality(Auths(f)) = 1
  PROVE  \E a : Auths(f) = {a}
<1>1. DOMAIN AuthorizedAddress = {"auth_a", "auth_a_again", "auth_b"}
  BY DEF AuthorizedAddress
<1>2. IsFiniteSet({"auth_a", "auth_a_again", "auth_b"})
  <2>1. IsFiniteSet({"auth_a"} \cup {"auth_a_again"})
    BY FS_Singleton, FS_AddElement
  <2>2. IsFiniteSet(({"auth_a"} \cup {"auth_a_again"}) \cup {"auth_b"})
    BY <2>1, FS_AddElement
  <2>3. ({"auth_a"} \cup {"auth_a_again"}) \cup {"auth_b"} = {"auth_a", "auth_a_again", "auth_b"}
    OBVIOUS
  <2> QED BY <2>2, <2>3
<1>3. IsFiniteSet(Auths(f))
  BY <1>1, <1>2, FS_Subset DEF Auths
<1> QED BY <1>3, FS_Singleton

LEMMA CreditReached ==
  ASSUME Gathered, CrateSeen, NEW f \in Functions
  PROVE  Reachable(f) \cap authorized # {} <=> \E g \in Flow(f) : Written(g) /\ Crediting(g)
BY ReachableKnown, CreditsKnown, FlowFacts DEF Gathered

LEMMA MismatchesRight ==
  ASSUME Gathered, CrateSeen, lint = "auth-address-mismatch", NEW f \in Functions, Written(f)
  PROVE  MismatchSite(f) /\ ~ViaCallee(f, authorized) <=> Mismatched(f)
<1>1. \A g : Crediting(g) <=> Has(g, Authorizing)
  BY DEF Crediting, FlowKinds, Credits, MismatchAuthorized, Has, Auths, Authorizing
<1>2. Callees(f) \cap Functions = program[f].calls
  <2>1. program[f].calls \subseteq Functions
    BY DEF Gathered, CallsGathered, ProgramType
  <2> QED BY <2>1, CallsKnown DEF Gathered, Calls, Callees, Written
<1>3. ViaCallee(f, authorized) <=> SomewhereIn(Beyond(f), Authorizing)
  <2>1. \A g \in program[f].calls :
          Reachable(g) \cap authorized # {} <=> \E h \in Flow(g) : Written(h) /\ Has(h, Authorizing)
    BY <1>1, <1>2, CreditReached
  <2> QED BY <1>2, <2>1 DEF ViaCallee, SomewhereIn, Beyond
<1>4. ASSUME Cardinality(Auths(f)) = 1
      PROVE  (\E a \in Auths(f), w \in program[f].does \cap DOMAIN WrittenAddress :
                WrittenAddress[w] # AuthorizedAddress[a])
               <=> (\E w \in program[f].does \cap DOMAIN WrittenAddress :
                      \A a \in Auths(f) : AuthorizedAddress[a] # WrittenAddress[w])
  <2>1. PICK a : Auths(f) = {a}
    BY <1>4, OneAddress
  <2> QED BY <2>1
<1> QED BY <1>3, <1>4 DEF MismatchSite, Mismatched

LEMMA InitializationsRight ==
  ASSUME Gathered, CrateSeen, lint = "missing-initialization-guard", NEW f \in Functions, Written(f)
  PROVE  InitSink(f) /\ UnguardedInit(f, authorized) <=> Reinitializable(f)
<1>1. \A g : Crediting(g) <=> Has(g, Guards)
  BY DEF Crediting, FlowKinds, Credits, GuardFound
<1>2. Reachable(f) \cap authorized = {} <=> ~SomewhereIn(Flow(f), Guards)
  BY <1>1, CreditReached DEF SomewhereIn
<1>3. Has(f, Guards) => SomewhereIn(Flow(f), Guards)
  BY FlowFacts DEF SomewhereIn
<1> QED BY <1>2, <1>3, EntriesKnown DEF Gathered, InitSink, GuardFound, UnguardedInit, Reinitializable

LEMMA AdminsRight ==
  ASSUME Gathered, CrateSeen, lint = "unnecessary-admin-parameter", NEW f \in Functions, Written(f)
  PROVE  AdminParam(f) /\ UnnecessaryAdmin(f, authorized) <=> AdminUnneeded(f)
<1>1. \A g : Crediting(g) <=> Has(g, {"require_auth"})
  BY DEF Crediting, FlowKinds, Credits, AdminAuthFound
<1>2. Reachable(f) \cap authorized # {} <=> SomewhereIn(Flow(f), {"require_auth"})
  BY <1>1, CreditReached DEF SomewhereIn
<1> QED BY <1>2, EntriesKnown DEF Gathered, AdminParam, UnnecessaryAdmin, AdminForwarded, AdminUnneeded

LEMMA KeysRight ==
  ASSUME Gathered, CrateSeen, lint = "instance-storage-per-user-key", NEW f \in Functions, Written(f)
  PROVE  Candidates(f) # {} /\ PerUserKey(f, authorized) <=> KeyedPerUser(f)
<1>1. \A g : Crediting(g) <=> Exempts(g) # {}
  BY DEF Crediting, FlowKinds, Credits
<1>2. authorized = {g \in Functions : Written(g) /\ Exempts(g) # {}}
  BY <1>1, CreditsKnown
<1>3. \A x : (\A g \in authorized : x \notin Exempts(g))
               <=> (\A g \in Functions : Written(g) => x \notin Exempts(g))
  BY <1>2
<1> QED BY <1>3 DEF PerUserKey, KeyedPerUser, Candidates

LEMMA DecidedRight ==
  ASSUME Gathered, CrateSeen, lint \in FlowKinds, suspects = Suspects
  PROVE  {f \in suspects : ReportedBy(lint, f, authorized)} = {f \in Functions : Wrong(lint, f)}
<1> SUFFICES ASSUME NEW f \in Functions, Written(f)
             PROVE  Site(lint, f) /\ ReportedBy(lint, f, authorized) <=> Wrong(lint, f)
  BY DEF Suspects, Suspected, Wrong
<1>1. CASE lint = "auth-address-mismatch"
  BY <1>1, MismatchesRight DEF Site, ReportedBy, Wrong
<1>2. CASE lint = "missing-initialization-guard"
  BY <1>2, InitializationsRight DEF Site, ReportedBy, Wrong
<1>3. CASE lint = "unnecessary-admin-parameter"
  BY <1>3, AdminsRight DEF Site, ReportedBy, Wrong
<1>4. CASE lint = "instance-storage-per-user-key"
  BY <1>4, KeysRight DEF Site, ReportedBy, Wrong
<1> QED BY <1>1, <1>2, <1>3, <1>4 DEF FlowKinds

-----------------------------------------------------------------------------
(* The search for an authorization.                                          *)

\* Of the detectors that search, a function credits when it authorizes.
LEMMA ProtectedKnown ==
  ASSUME Gathered, CrateSeen, lint \notin FlowKinds, NEW f \in Functions
  PROVE  Protected(f) <=> Flow(f) \cap authorized # {}
BY CreditsKnown, FlowFacts DEF Protected, Crediting, Written

LEMMA SearchBegun ==
  ASSUME Gathered, NEW f \in Functions, StartSearch(f), UNCHANGED <<program, graph, authorized>>
  PROVE  Searching(f)'
<1>1. Flow(f)' = Flow(f) /\ f \in Flow(f)
  BY FlowFacts DEF Flow, Calls
<1> QED BY <1>1 DEF Searching, StartSearch, Callees

LEMMA SearchFound ==
  ASSUME Gathered, CrateSeen, lint \notin FlowKinds, NEW f \in Functions, Searching(f),
         pending \cap authorized # {}
  PROVE  Protected(f)
<1>1. authorized \subseteq Functions
  BY DEF Gathered, CallsGathered
<1> QED BY <1>1, ProtectedKnown, ExternalAssumption DEF Searching

\* When nothing is pending, the visited functions are the flow.
LEMMA SearchFailed ==
  ASSUME Gathered, CrateSeen, lint \notin FlowKinds, NEW f \in Functions, Searching(f),
         pending = {}
  PROVE  ~Protected(f)
<1> DEFINE S == visited \cap Functions
<1>1. f \in S
  BY DEF Searching
<1>2. \A x \in S : \A y \in Functions : Calls(x, y) => y \in S
  BY CallsKnown DEF Gathered, Searching
<1>3. Flow(f) \subseteq S
  BY <1>1, <1>2, FlowFacts
<1> QED BY <1>3, ProtectedKnown DEF Searching

LEMMA SearchStep ==
  ASSUME Gathered, CrateSeen, NEW f \in Functions, Searching(f),
         NEW x \in pending, x \notin authorized, Expand(x), visited' = visited \cup {x},
         UNCHANGED <<program, graph, authorized>>
  PROVE  Searching(f)'
<1>1. Flow(f)' = Flow(f)
  BY DEF Flow, Calls
<1>2. \A y : Callees(y)' = Callees(y)
  BY DEF Callees
<1>3. Callees(x) \subseteq Flow(f) \cup {External}
  <2>1. CASE x \in Functions
    <3>1. x \in Flow(f)
      BY <2>1, ExternalAssumption DEF Searching
    <3> QED BY <2>1, <3>1, CallsKnown, FlowFacts DEF Gathered, Callees
  <2>2. CASE x \notin Functions
    BY <2>2 DEF Callees, Gathered, CallsGathered
  <2> QED BY <2>1, <2>2
<1>4. pending' = (pending \ {x}) \cup (Callees(x) \ (visited \cup {x}))
  BY DEF Expand
<1> QED BY <1>1, <1>2, <1>3, <1>4 DEF Searching

-----------------------------------------------------------------------------
(* The verdicts.                                                             *)

\* What is true of the crate does not change with the analysis.
LEMMA TruthKept ==
  ASSUME UNCHANGED <<program, lint>>
  PROVE  /\ Suspects' = Suspects
         /\ \A f : /\ Entry(f)' <=> Entry(f)
                   /\ Protected(f)' <=> Protected(f)
                   /\ Misuse(f)' <=> Misuse(f)
                   /\ Wrong(lint, f)' <=> Wrong(lint, f)
                   /\ \A g : Calls(f, g)' <=> Calls(f, g)
<1>1. \A f, c : Has(f, c)' = Has(f, c) /\ Signed(f, c)' = Signed(f, c)
  BY DEF Has, Signed
<1>2. \A f : Entry(f)' = Entry(f) /\ Written(f)' = Written(f) /\ Auths(f)' = Auths(f)
  BY DEF Entry, Written, Auths
<1>3. \A f : Flow(f)' = Flow(f)
  BY DEF Flow, Calls
<1>4. \A f, g : Calls(f, g)' = Calls(f, g)
  BY DEF Calls
<1>5. \A f : AuthIn(f)' = AuthIn(f) /\ OpIn(f)' = OpIn(f)
  BY DEF AuthIn, OpIn, AuthForms
<1>6. \A f : Protected(f)' = Protected(f)
  BY <1>3, <1>5 DEF Protected
<1>7. \A f : Exposed(f)' = Exposed(f)
  BY <1>2, <1>4, <1>6 DEF Exposed
<1>8. \A f : Beyond(f)' = Beyond(f)
  BY <1>3 DEF Beyond
<1>9. \A f : Exempts(f)' = Exempts(f)
  BY <1>1 DEF Exempts, Capped, Persistent
<1>10. \A f : Mismatched(f)' = Mismatched(f)
  BY <1>1, <1>2, <1>8 DEF Mismatched, SomewhereIn
<1>11. \A f : /\ Reinitializable(f)' = Reinitializable(f)
              /\ AdminUnneeded(f)' = AdminUnneeded(f)
              /\ KeyedPerUser(f)' = KeyedPerUser(f)
  BY <1>1, <1>2, <1>3, <1>9 DEF Reinitializable, AdminUnneeded, KeyedPerUser, SomewhereIn
<1>12. \A f : Wrong(lint, f)' = Wrong(lint, f)
  BY <1>2, <1>10, <1>11 DEF Wrong
<1>13. \A f : Misuse(f)' = Misuse(f)
  BY <1>5, <1>6, <1>7, <1>12 DEF Misuse
<1> QED BY <1>2, <1>4, <1>6, <1>12, <1>13, CrateKept

\* Only a suspect can be misused.
LEMMA MisuseSuspected ==
  ASSUME lint \notin FlowKinds, NEW f \in Functions, Misuse(f)
  PROVE  f \in Suspects
BY FlowFacts DEF Misuse, Suspects, Suspected, Suspect, Protected, Written

-----------------------------------------------------------------------------
(* One step after the other.                                                 *)

LEMMA DecideStep ==
  ASSUME IInv, Decide
  PROVE  IInv'
<1>1. /\ CrateSeen /\ Gathered /\ lint \in FlowKinds /\ pc = "visit" /\ pc' = "done"
      /\ UNCHANGED <<crate, lint, authorized, suspects>>
      /\ reported' = {f \in suspects : ReportedBy(lint, f, authorized)}
  BY DEF Decide, IInv
<1>2. suspects = Suspects
  BY <1>1 DEF Gathered, CallsGathered, CrateSeen, Seen, Suspects
<1>3. reported' = {f \in Functions : Wrong(lint, f)}
  BY <1>1, <1>2, DecidedRight
<1>4. reported' = {f \in Functions : Wrong(lint, f)'}
  BY <1>1, <1>3, TruthKept DEF crate
<1>5. Gathered'
  BY <1>1, GatheredKept
<1> QED BY <1>1, <1>4, <1>5 DEF IInv, Progress

\* Before the first suspect is taken, all of them are in the list.
LEMMA BeforeSuspects ==
  ASSUME IInv, CrateSeen, pc \in {"visit", "next"}, lint \notin FlowKinds
  PROVE  /\ \A f \in reported : Misuse(f)
         /\ \A f \in Suspects \ suspects : Misuse(f) => f \in reported
         /\ suspects \subseteq Suspects
<1>1. CASE pc = "visit"
  BY <1>1 DEF IInv, Gathered, CallsGathered, CrateSeen, Seen
<1>2. CASE pc = "next"
  BY <1>2 DEF IInv, Progress, Judged, AtWork, Gathered, CallsGathered
<1> QED BY <1>1, <1>2

LEMMA NextSuspectStep ==
  ASSUME IInv, NextSuspect
  PROVE  IInv'
<1>1. PICK f \in suspects : callee' = f /\ suspects' = suspects \ {f} /\ StartSearch(f)
  BY DEF NextSuspect
<1>2. /\ CrateSeen /\ lint \notin FlowKinds /\ pc' = "callee"
      /\ UNCHANGED <<crate, lint, authorized, reported>>
  BY DEF NextSuspect
<1>3. Gathered'
  BY <1>1, <1>2, GatheredKept DEF IInv
<1>4. /\ \A g \in reported : Misuse(g)
      /\ \A g \in Suspects \ suspects : Misuse(g) => g \in reported
      /\ f \in Suspects
  BY <1>1, <1>2, BeforeSuspects DEF NextSuspect
<1>5. f \in Functions
  BY <1>4 DEF Suspects
<1>6. Searching(f)'
  BY <1>1, <1>2, <1>5, SearchBegun DEF IInv, crate
<1>7. Suspects' = Suspects /\ \A g : Misuse(g)' <=> Misuse(g)
  BY <1>2, TruthKept DEF crate
<1> QED BY <1>1, <1>2, <1>3, <1>4, <1>6, <1>7 DEF IInv, Progress, Judged, AtWork

LEMMA NoMoreStep ==
  ASSUME IInv, NoMoreSuspects
  PROVE  IInv'
<1>1. /\ CrateSeen /\ lint \notin FlowKinds /\ pc' = "done" /\ suspects = {}
      /\ UNCHANGED <<crate, lint, authorized, suspects, reported>>
  BY DEF NoMoreSuspects
<1>2. Gathered'
  BY <1>1, GatheredKept DEF IInv
<1>3. /\ \A g \in reported : Misuse(g)
      /\ \A g \in Suspects \ suspects : Misuse(g) => g \in reported
  BY <1>1, BeforeSuspects DEF NoMoreSuspects
<1>4. Suspects' = Suspects /\ \A g : Misuse(g)' <=> Misuse(g)
  BY <1>1, TruthKept DEF crate
<1> QED BY <1>1, <1>2, <1>3, <1>4 DEF IInv, Progress, Judged, AtWork

\* A judgement at work: what all its steps start from, and what they keep.
LEMMA Working ==
  ASSUME IInv, AtWork
  PROVE  CrateSeen /\ Judged /\ lint \notin FlowKinds /\ callee \in Suspects /\ callee \in Functions
BY DEF IInv, Gathered, CallsGathered, Progress, AtWork, Judged, CrateSeen, Suspects

LEMMA WorkKept ==
  ASSUME IInv, AtWork, AtWork', UNCHANGED <<crate, lint, authorized, suspects, reported, callee>>
  PROVE  /\ Gathered'
         /\ Callers(callee)' = Callers(callee)
         /\ \A g : Entry(g)' <=> Entry(g)
         /\ \A g : Protected(g)' <=> Protected(g)
         /\ OpenCaller' <=> OpenCaller
         /\ pc' = "callee" /\ Searching(callee)' => IInv'
         /\ pc' = "callers" /\ ~Protected(callee) /\ CallersJudged(callers)' => IInv'
         /\ /\ pc' = "caller" /\ ~Protected(callee) /\ authed'
            /\ \E f \in Callers(callee) :
                 Entry(f) /\ Searching(f)' /\ CallersJudged(callers \cup {f})'
            => IInv'
<1>1. CrateSeen /\ Judged /\ callee \in Suspects
  BY Working
<1>2. Gathered'
  BY <1>1, GatheredKept DEF IInv, AtWork
<1>3. /\ Suspects' = Suspects
      /\ \A f : /\ Entry(f)' <=> Entry(f)
                /\ Protected(f)' <=> Protected(f)
                /\ Misuse(f)' <=> Misuse(f)
                /\ \A g : Calls(f, g)' <=> Calls(f, g)
  BY TruthKept DEF crate
<1>4. Callers(callee)' = Callers(callee) /\ (OpenCaller' <=> OpenCaller)
  BY <1>3 DEF Callers, crate, OpenCaller
<1>5. /\ lint' \notin FlowKinds /\ \A f \in reported' : Misuse(f)'
      /\ \A f \in Suspects' \ suspects' : Misuse(f)' => f \in reported' \/ f = callee'
      /\ callee' \in Suspects'
  BY <1>1, <1>3 DEF Judged, AtWork
<1> QED BY <1>2, <1>3, <1>4, <1>5 DEF IInv, Progress, Judged, AtWork

\* A judgement is over: the suspect is reported if and only if it has to be.
LEMMA WorkDone ==
  ASSUME IInv, AtWork, pc' = "next", UNCHANGED <<crate, lint, authorized, suspects>>,
         reported' \in {reported, reported \cup {callee}},
         Misuse(callee) => callee \in reported', reported' # reported => Misuse(callee)
  PROVE  IInv'
<1>1. CrateSeen /\ Judged
  BY Working
<1>2. Gathered'
  BY <1>1, GatheredKept DEF IInv
<1>3. Suspects' = Suspects /\ \A f : Misuse(f)' <=> Misuse(f)
  BY TruthKept DEF crate
<1>4. /\ lint' \notin FlowKinds /\ \A f \in reported' : Misuse(f)'
      /\ \A f \in Suspects' \ suspects' : Misuse(f)' => f \in reported'
  BY <1>1, <1>3 DEF Judged
<1> QED BY <1>2, <1>4 DEF IInv, Progress, Judged, AtWork

LEMMA CallersKnown ==
  ASSUME IInv, AtWork
  PROVE  \A g : g \in Callers(callee) <=> g \in Functions /\ Calls(g, callee)
BY Working, CallsKnown DEF Gathered, IInv, Callers, Callees

LEMMA LookStep ==
  ASSUME IInv, Look
  PROVE  IInv'
<1>1. /\ AtWork /\ pc \in {"callee", "caller"}
      /\ UNCHANGED <<crate, lint, authorized, suspects, reported>>
  BY DEF Look, AtWork
<1>2. CrateSeen /\ Gathered /\ Judged /\ lint \notin FlowKinds /\ callee \in Functions
  BY <1>1, Working DEF IInv
<1>3. PICK x \in pending :
        \/ x \in authorized /\ Answer(TRUE) /\ UNCHANGED search
        \/ /\ x \notin authorized /\ Expand(x) /\ visited' = visited \cup {x}
           /\ UNCHANGED <<pc, judging>>
  BY DEF Look
<1>4. CASE x \in authorized /\ Answer(TRUE) /\ pc = "callee"
  <2>1. Protected(callee)
    BY <1>2, <1>4, SearchFound DEF Judged
  <2>2. ~Misuse(callee)
    BY <1>2, <2>1 DEF Misuse
  <2> QED BY <1>1, <1>4, <2>2, WorkDone DEF Answer, CalleeAnswer, judging
<1>5. CASE x \in authorized /\ Answer(TRUE) /\ pc = "caller"
  <2>1. pc' = "callers" /\ called' = TRUE /\ authed' = TRUE /\ UNCHANGED <<callee, callers>>
    BY <1>5 DEF Answer, CallerAnswer
  <2>2. PICK f \in Callers(callee) :
          Entry(f) /\ Searching(f) /\ CallersJudged(callers \cup {f})
    BY <1>2, <1>5 DEF Judged
  <2>3. Protected(f) /\ ~Protected(callee) /\ authed
    BY <1>2, <1>5, <2>2, SearchFound DEF Judged, Callers
  <2>4. callers \subseteq Callers(callee) /\ \A g \in Callers(callee) \ callers : Entry(g) => Protected(g)
    BY <2>2, <2>3 DEF CallersJudged
  <2>5. CallersJudged(callers)'
    BY <1>1, <2>1, <2>4, WorkKept DEF CallersJudged, AtWork
  <2> QED BY <1>1, <2>1, <2>3, <2>5, WorkKept DEF AtWork
<1>6. CASE Expand(x) /\ x \notin authorized /\ visited' = visited \cup {x} /\ UNCHANGED <<pc, judging>>
  <2>1. \A f \in Functions : Searching(f) => Searching(f)'
    BY <1>1, <1>2, <1>6, SearchStep DEF crate
  <2>2. UNCHANGED <<pc, callee, callers, called, authed>> /\ AtWork'
    BY <1>1, <1>6 DEF judging, AtWork
  <2>3. CASE pc = "callee"
    BY <1>1, <1>2, <2>1, <2>2, <2>3, WorkKept DEF Judged
  <2>4. CASE pc = "caller"
    <3>1. PICK f \in Callers(callee) :
            Entry(f) /\ Searching(f) /\ CallersJudged(callers \cup {f})
      BY <1>2, <2>4 DEF Judged
    <3>2. Searching(f)'
      BY <2>1, <3>1 DEF Callers
    <3>3. CallersJudged(callers \cup {f})'
      BY <1>1, <2>2, <3>1, WorkKept DEF CallersJudged
    <3> QED BY <1>1, <1>2, <2>2, <2>4, <3>1, <3>2, <3>3, WorkKept DEF Judged
  <2> QED BY <1>1, <2>3, <2>4
<1> QED BY <1>1, <1>3, <1>4, <1>5, <1>6

LEMMA NotFoundStep ==
  ASSUME IInv, NotFound
  PROVE  IInv'
<1>1. /\ AtWork /\ pc \in {"callee", "caller"} /\ pending = {} /\ Answer(FALSE)
      /\ UNCHANGED <<crate, lint, authorized, suspects, reported>>
  BY DEF NotFound, AtWork
<1>2. CrateSeen /\ Gathered /\ Judged /\ lint \notin FlowKinds /\ callee \in Functions
  BY <1>1, Working DEF IInv
<1>3. CASE pc = "callee"
  <2>1. ~Protected(callee)
    BY <1>1, <1>2, <1>3, SearchFailed DEF Judged
  <2>2. /\ pc' = "callers" /\ callers' = Callers(callee) /\ authed' = TRUE /\ callee' = callee
    BY <1>1, <1>3 DEF Answer, CalleeAnswer
  <2>3. CallersJudged(callers)'
    BY <1>1, <2>2, WorkKept DEF CallersJudged, AtWork
  <2> QED BY <1>1, <2>1, <2>2, <2>3, WorkKept DEF AtWork
<1>4. CASE pc = "caller"
  <2>1. pc' = "callers" /\ called' = TRUE /\ authed' = FALSE /\ UNCHANGED <<callee, callers>>
    BY <1>1, <1>4 DEF Answer, CallerAnswer
  <2>2. PICK f \in Callers(callee) :
          Entry(f) /\ Searching(f) /\ CallersJudged(callers \cup {f})
    BY <1>2, <1>4 DEF Judged
  <2>3. ~Protected(f) /\ ~Protected(callee)
    BY <1>1, <1>2, <1>4, <2>2, SearchFailed DEF Judged, Callers
  <2>4. OpenCaller
    BY <1>1, <2>2, <2>3, CallersKnown DEF OpenCaller
  <2>5. CallersJudged(callers)'
    BY <1>1, <2>1, <2>2, <2>4, WorkKept DEF CallersJudged, AtWork
  <2> QED BY <1>1, <2>1, <2>3, <2>5, WorkKept DEF AtWork
<1> QED BY <1>1, <1>3, <1>4

LEMMA NextCallerStep ==
  ASSUME IInv, NextCaller
  PROVE  IInv'
<1>1. /\ AtWork /\ pc = "callers"
      /\ UNCHANGED <<crate, lint, authorized, suspects, callee, authed, reported>>
  BY DEF NextCaller, AtWork
<1>2. /\ CrateSeen /\ Gathered /\ Judged /\ callee \in Functions
      /\ CallersJudged(callers) /\ ~Protected(callee)
  BY <1>1, Working DEF IInv, Judged
<1>3. PICK f \in callers :
        /\ callers' = callers \ {f}
        /\ IF IsSorobanFunction(f) /\ authed
           THEN pc' = "caller" /\ StartSearch(f) /\ UNCHANGED called
           ELSE called' = (called \/ IsSorobanFunction(f)) /\ UNCHANGED <<pc, search>>
  BY DEF NextCaller
<1>4. f \in Callers(callee) /\ f \in Functions /\ (IsSorobanFunction(f) <=> Entry(f))
  BY <1>2, <1>3, EntriesKnown DEF Gathered, CallersJudged, Callers
<1>5. CASE Entry(f) /\ authed
  <2>1. pc' = "caller" /\ StartSearch(f) /\ called' = called /\ authed'
    BY <1>1, <1>3, <1>4, <1>5
  <2>2. Searching(f)'
    BY <1>1, <1>2, <1>4, <2>1, SearchBegun DEF crate
  <2>3. CallersJudged(callers \cup {f})'
    BY <1>1, <1>2, <1>3, <1>5, <2>1, WorkKept DEF CallersJudged, AtWork
  <2> QED BY <1>1, <1>2, <1>4, <1>5, <2>1, <2>2, <2>3, WorkKept DEF AtWork
<1>6. CASE ~(Entry(f) /\ authed)
  <2>1. pc' = "callers" /\ (called => called')
    BY <1>1, <1>3, <1>4, <1>6
  <2>2. CallersJudged(callers)'
    BY <1>1, <1>2, <1>3, <1>6, <2>1, WorkKept DEF CallersJudged, AtWork
  <2> QED BY <1>1, <1>2, <2>1, <2>2, WorkKept DEF AtWork
<1> QED BY <1>5, <1>6

LEMMA JudgeStep ==
  ASSUME IInv, Judge
  PROVE  IInv'
<1>1. /\ AtWork /\ pc = "callers" /\ callers = {} /\ pc' = "next"
      /\ reported' = IF IsSorobanFunction(callee) \/ (called /\ ~authed)
                     THEN reported \cup {callee} ELSE reported
      /\ UNCHANGED <<crate, lint, authorized, suspects>>
  BY DEF Judge, AtWork
<1>2. /\ CrateSeen /\ Gathered /\ Judged /\ lint \notin FlowKinds
      /\ callee \in Suspects /\ callee \in Functions
      /\ CallersJudged(callers) /\ ~Protected(callee)
  BY <1>1, Working DEF IInv, Judged
<1>3. IsSorobanFunction(callee) <=> Entry(callee)
  BY <1>2, EntriesKnown DEF Gathered
<1>4. OpenCaller <=> called /\ ~authed
  BY <1>1, <1>2, CallersKnown DEF CallersJudged, OpenCaller
<1>5. Misuse(callee) <=> Entry(callee) \/ OpenCaller
  BY <1>2 DEF Misuse, Suspects, Suspected, Suspect, Written, Exposed, OpenCaller
<1> QED BY <1>1, <1>3, <1>4, <1>5, WorkDone

LEMMA Stutter ==
  ASSUME IInv, UNCHANGED vars
  PROVE  IInv'
<1>1. /\ UNCHANGED <<crate, lint, authorized, suspects, pc, search, judging, reported>>
  BY DEF vars
<1>2. UNCHANGED <<program, unvisited, checked, graph, pending, visited, callee, callers, called, authed>>
  BY <1>1 DEF crate, search, judging
<1>3. Gathered'
  <2>1. CASE pc = "visit"
    <3>1. /\ Made' = Made /\ Suspects' = Suspects
          /\ \A g : /\ Written(g)' <=> Written(g)
                    /\ Crediting(g)' <=> Crediting(g)
                    /\ CallsOf(g)' = CallsOf(g)
                    /\ Seen(g)' <=> Seen(g)
      BY <1>1, <1>2, CrateKept DEF Seen
    <3> QED BY <1>1, <1>2, <2>1, <3>1 DEF IInv, Gathered, CallsGathered
  <2>2. CASE pc # "visit"
    BY <1>1, <2>2, GatheredKept DEF IInv, Gathered, CallsGathered, CrateSeen
  <2> QED BY <2>1, <2>2
<1>4. CASE AtWork
  <2>1. Judged /\ callee' = callee /\ AtWork'
    BY <1>1, <1>2, <1>4, Working DEF AtWork
  <2>2. \A f : Searching(f)' <=> Searching(f)
    <3>1. \A f : Flow(f)' = Flow(f)
      BY <1>2 DEF Flow, Calls
    <3> QED BY <1>1, <1>2, <3>1 DEF Searching, Callees
  <2>3. \A rest : CallersJudged(rest)' <=> CallersJudged(rest)
    BY <1>1, <1>2, <1>4, <2>1, WorkKept DEF CallersJudged
  <2> QED BY <1>1, <1>2, <1>4, <2>1, <2>2, <2>3, WorkKept DEF Judged, AtWork
<1>5. CASE ~AtWork
  <2>1. /\ Suspects' = Suspects
        /\ \A f : Misuse(f)' <=> Misuse(f)
        /\ \A f : Wrong(lint, f)' <=> Wrong(lint, f)
    BY <1>1, <1>2, TruthKept
  <2>2. CASE Judged
    <3>1. Judged'
      BY <1>1, <1>5, <2>1, <2>2 DEF Judged, AtWork
    <3> QED BY <1>1, <1>3, <2>2, <3>1 DEF IInv, Progress, Judged
  <2>3. CASE ~Judged
    BY <1>1, <1>3, <2>1, <2>3 DEF IInv, Progress
  <2> QED BY <2>2, <2>3
<1> QED BY <1>4, <1>5

LEMMA Invariance == Spec => []IInv
<1>1. Init => IInv
  BY GatheredFirst DEF Init, IInv, Progress
<1>2. IInv /\ [Next]_vars => IInv'
  <2> SUFFICES ASSUME IInv, [Next]_vars
               PROVE  IInv'
    OBVIOUS
  <2>1. ASSUME NEW i \in Items, Visit(i)
        PROVE  IInv'
    BY <2>1, GatheredByVisit DEF IInv, Progress, Visit
  <2>2. CASE Post
    BY <2>2, DecideStep, NextSuspectStep, NoMoreStep, LookStep, NotFoundStep, NextCallerStep,
       JudgeStep DEF Post
  <2> QED BY <2>1, <2>2, Stutter DEF Next
<1> QED BY <1>1, <1>2, PTL DEF Spec

\* What is reported has to be, for every crate and every detector, in whatever order
\* functions, suspects, callers and callees come.
THEOREM ReportsRight == Spec => []ReportsJustified
<1>1. IInv => ReportsJustified
  <2> SUFFICES ASSUME IInv, NEW f \in reported
               PROVE  Misuse(f)
    BY DEF ReportsJustified
  <2>1. CASE pc = "visit"
    BY <2>1 DEF IInv, Gathered, CallsGathered
  <2>2. CASE Judged
    BY <2>2 DEF Judged
  <2>3. CASE lint \in FlowKinds /\ reported = {g \in Functions : Wrong(lint, g)}
    BY <2>3 DEF Misuse
  <2> QED BY <2>1, <2>2, <2>3 DEF IInv, Progress
<1> QED BY <1>1, Invariance, PTL

\* At the end nothing was missed that the detectors are to report, for every crate.
THEOREM AllReported == Spec => []NoneMissed
<1>1. IInv => NoneMissed
  <2> SUFFICES ASSUME IInv, pc = "done", NEW f \in Functions, Misuse(f)
               PROVE  f \in reported
    BY DEF NoneMissed
  <2>1. CASE Judged /\ suspects = {}
    <3>1. f \in Suspects
      BY <2>1, MisuseSuspected DEF Judged
    <3> QED BY <2>1, <3>1 DEF Judged, AtWork
  <2>2. CASE lint \in FlowKinds /\ reported = {g \in Functions : Wrong(lint, g)}
    BY <2>2 DEF Misuse
  <2> QED BY <2>1, <2>2 DEF IInv, Progress
<1> QED BY <1>1, Invariance, PTL

\* TypeOK: every variable of the detectors keeps its type.
THEOREM TypeCorrect == Spec => []TypeOK
<1>1. Init => TypeOK
  BY DEF Init, CrateInit, TypeOK, CrateType, Items
<1>2. IInv /\ TypeOK /\ [Next]_vars => TypeOK'
  <2> SUFFICES ASSUME IInv, TypeOK, [Next]_vars
               PROVE  TypeOK'
    OBVIOUS
  <2> USE DEF TypeOK, CrateType
  <2>1. ASSUME NEW i \in Items, Visit(i)
        PROVE  TypeOK'
    <3>1. i.of \in Functions /\ CallsOf(i.of) \subseteq Functions \cup {External}
      BY DEF Items, IInv, Gathered, CallsGathered, ProgramType, CallsOf
    <3> QED BY <2>1, <3>1 DEF Visit, CheckFn, Record, search, judging
  <2>2. CASE Decide
    BY <2>2 DEF Decide, crate, search, judging, CrateSeen
  <2>3. CASE NextSuspect \/ NoMoreSuspects
    BY <2>3 DEF NextSuspect, NoMoreSuspects, StartSearch, crate, search, judging, CrateSeen
  <2>4. CASE Look
    BY <2>4 DEF Look, Expand, Callees, Callers, Answer, CalleeAnswer, CallerAnswer, crate, search, judging
  <2>5. CASE NotFound
    BY <2>5 DEF NotFound, Callers, Answer, CalleeAnswer, CallerAnswer, crate, search, judging
  <2>6. CASE NextCaller
    <3>1. called' \in BOOLEAN /\ pc' \in {pc, "caller"}
      <4>1. PICK f \in callers :
              IF IsSorobanFunction(f) /\ authed
              THEN pc' = "caller" /\ UNCHANGED called
              ELSE called' = (called \/ IsSorobanFunction(f)) /\ UNCHANGED pc
        BY <2>6 DEF NextCaller, StartSearch, search
      <4>2. CASE IsSorobanFunction(f) /\ authed
        BY <4>1, <4>2
      <4>3. CASE ~(IsSorobanFunction(f) /\ authed)
        BY <4>1, <4>3, Zenon
      <4> QED BY <4>2, <4>3
    <3>2. pending' \subseteq Functions \cup {External} /\ visited' \subseteq Functions \cup {External}
      BY <2>6 DEF NextCaller, StartSearch, search
    <3>3. callers' \subseteq Functions
      BY <2>6 DEF NextCaller
    <3>4. UNCHANGED <<unvisited, checked, graph, lint, authorized, suspects, callee, authed, reported>>
      BY <2>6 DEF NextCaller, crate
    <3> QED BY <2>6, <3>1, <3>2, <3>3, <3>4 DEF NextCaller
  <2>7. CASE Judge
    <3>1. callee \in Functions
      BY <2>7, Working DEF Judge, AtWork
    <3> QED BY <2>7, <3>1 DEF Judge, crate, search, judging
  <2>8. CASE UNCHANGED vars
    BY <2>8 DEF vars, crate, search, judging
  <2> QED BY <2>1, <2>2, <2>3, <2>4, <2>5, <2>6, <2>7, <2>8 DEF Next, Post
<1> QED BY <1>1, <1>2, Invariance, PTL DEF Spec

-----------------------------------------------------------------------------
(* The detectors of events, which gather their calls in the same way.        *)

Does(f, what) == Written(f) /\ what \in program[f].does

\* What was gathered for the detectors of events.
EventsGathered ==
  /\ CallsGathered
  /\ emitters = {f \in Functions : Seen(f) /\ Does(f, "event")}
  /\ writers = {f \in Functions : Seen(f) /\ Does(f, "set")}
  /\ detector \in EventLints
  /\ stage # "visit" => CrateSeen

LEMMA EventsFirst == EventInit => EventsGathered
<1> SUFFICES ASSUME EventInit PROVE EventsGathered
  OBVIOUS
<1> USE DEF EventInit, CrateInit
<1>1. program \in ProgramType
  BY ProgramsAssumption
<1>2. \A f \in Functions : ~Seen(f)
  BY DEF Seen, Items
<1>3. unvisited = Made /\ checked = {}
  BY DEF Made, Items
<1> QED BY <1>1, <1>2, <1>3 DEF EventsGathered, CallsGathered

LEMMA EventsByVisit ==
  ASSUME EventsGathered, NEW item \in Items, VisitForEvents(item)
  PROVE  EventsGathered' /\ UNCHANGED <<program, detector, implemented, stage, unjudged, path, emits, flagged>>
<1> DEFINE f == item.of
           those(what) == IF Analysed(item) /\ what \in program[f].does THEN {f} ELSE {}
<1>1. /\ stage = "visit" /\ item \in unvisited /\ CheckFn(item)
      /\ UNCHANGED <<detector, implemented, stage, unjudged, path, emits, flagged>>
  BY DEF VisitForEvents, event_search
<1>2. emitters' = emitters \cup those("event") /\ writers' = writers \cup those("set")
  BY DEF VisitForEvents
<1>3. /\ CallsGathered'
      /\ \A g \in Functions : /\ Written(g)' <=> Written(g)
                              /\ program' = program
                              /\ Seen(g)' <=> Seen(g) \/ (item.as = "itself" /\ g = item.of)
  BY <1>1, CallsByVisit DEF EventsGathered
<1>4. f \in Functions /\ (Analysed(item) <=> item.as = "itself" /\ Written(f))
  BY DEF Items, Analysed, Written
<1>5. program' = program
  BY <1>3, <1>4
<1>6. emitters' = {g \in Functions : Seen(g)' /\ Does(g, "event")'}
  BY <1>2, <1>3, <1>4, <1>5 DEF EventsGathered, Does
<1>7. writers' = {g \in Functions : Seen(g)' /\ Does(g, "set")'}
  BY <1>2, <1>3, <1>4, <1>5 DEF EventsGathered, Does
<1> QED BY <1>1, <1>3, <1>5, <1>6, <1>7 DEF EventsGathered

\* Once every function was seen, what is gathered is what is true of the crate.
LEMMA EventsKnown ==
  ASSUME EventsGathered, CrateSeen
  PROVE  /\ emitters = {f \in Functions : Does(f, "event")}
         /\ writers = {f \in Functions : Does(f, "set")}
         /\ \A f \in Functions :
              /\ IsSorobanFunction(f) <=> Entry(f)
              /\ \A g \in Functions : g \in Callees(f) <=> Calls(f, g)
              /\ Emits(f) <=> Flow(f) \cap emitters # {}
              /\ (\E g \in Flow(f) : SetsInSilence(g))
                   <=> Flow(f) \cap (writers \ emitters) # {}
              /\ Callees(f) # {} <=> Written(f) /\ CallsOf(f) # {}
<1>1. /\ emitters = {f \in Functions : Does(f, "event")}
      /\ writers = {f \in Functions : Does(f, "set")}
  BY DEF EventsGathered, CrateSeen, Seen
<1>2. \A f \in Functions :
        /\ IsSorobanFunction(f) <=> Entry(f)
        /\ \A g \in Functions : g \in Callees(f) <=> Calls(f, g)
  BY EntriesKnown, CallsKnown DEF EventsGathered
<1>3. ASSUME NEW f \in Functions
      PROVE  /\ Emits(f) <=> Flow(f) \cap emitters # {}
             /\ (\E g \in Flow(f) : SetsInSilence(g))
                  <=> Flow(f) \cap (writers \ emitters) # {}
  <2>1. Flow(f) \subseteq Functions
    BY FlowFacts
  <2> QED BY <1>1, <2>1 DEF Emits, SetsInSilence, Does, Written
<1>4. ASSUME NEW f \in Functions
      PROVE  Callees(f) # {} <=> Written(f) /\ CallsOf(f) # {}
  <2>1. graph = {c \in Functions \X (Functions \cup {External}) :
                   Written(c[1]) /\ c[2] \in CallsOf(c[1])}
    BY DEF EventsGathered, CallsGathered, CrateSeen, Seen
  <2>2. CallsOf(f) \subseteq Functions \cup {External}
    BY DEF CallsOf, EventsGathered, CallsGathered, ProgramType
  <2> QED BY <2>1, <2>2 DEF Callees
<1> QED BY <1>1, <1>2, <1>3, <1>4

\* What a set of functions is told of the flow of a function by those of its callees.
LEMMA FlowOfCallees ==
  ASSUME EventsGathered, CrateSeen, NEW W, NEW f \in Functions, f \notin W,
         \A g \in Callees(f) : g \in Functions => Flow(g) \cap W = {}
  PROVE  Flow(f) \cap W = {}
<1> DEFINE S == {f} \cup {x \in Functions : \E g \in Callees(f) \cap Functions : x \in Flow(g)}
<1>1. \A x \in S : \A y \in Functions : Calls(x, y) => y \in S
  <2>1. ASSUME NEW y \in Functions, Calls(f, y)
        PROVE  y \in S
    BY <2>1, EventsKnown, FlowFacts
  <2>2. ASSUME NEW x \in Functions, NEW g \in Callees(f) \cap Functions, x \in Flow(g),
               NEW y \in Functions, Calls(x, y)
        PROVE  y \in S
    BY <2>2, FlowFacts
  <2> QED BY <2>1, <2>2
<1>2. Flow(f) \subseteq S
  <2>1. S \in SUBSET Functions /\ f \in S
    OBVIOUS
  <2> HIDE DEF S
  <2> QED BY <1>1, <2>1, FlowFacts
<1> QED BY <1>2

LEMMA CalleeInFlow ==
  ASSUME EventsGathered, CrateSeen, NEW f \in Functions, NEW x \in Flow(f),
         NEW g \in Callees(x), g \in Functions
  PROVE  g \in Flow(f)
BY EventsKnown, FlowFacts

\* Only the functions of the crate have callees.
LEMMA CalleesTyped ==
  ASSUME EventsGathered, NEW f
  PROVE  /\ Callees(f) \subseteq Functions \cup {External}
         /\ Callees(f) # {} => f \in Functions
         /\ emitters \subseteq Functions /\ writers \subseteq Functions
         /\ Wanted \subseteq Functions
<1>1. graph \subseteq Functions \X (Functions \cup {External})
  BY DEF EventsGathered, CallsGathered
<1>2. emitters \subseteq Functions /\ writers \subseteq Functions
  BY DEF EventsGathered
<1> QED BY <1>1, <1>2 DEF Callees, Wanted

-----------------------------------------------------------------------------
(* The search for an event recurses; its calls are the frames of path.       *)

Frames == [of : Functions \cup {External}, left : SUBSET (Functions \cup {External})]

PathTyped ==
  /\ path \in Seq(Frames) /\ path # <<>> /\ Len(path) <= StackLimit
  /\ path[1].of \in Functions
  /\ \A i \in 1 .. Len(path) : path[i].left \subseteq Callees(path[i].of)

\* Every call is for a callee of the one before.
PathCalls ==
  \A i, j \in 1 .. Len(path) : i <= j =>
     /\ path[j].of \in Functions => path[j].of \in Flow(path[i].of)
     /\ i < j => path[i].of \in Functions
     /\ i + 1 = j => path[j].of \in Callees(path[i].of)

\* Nothing that settles the search was passed: not a function on the path, not one
\* in the flow of a callee that was taken and has returned.
PathSearched ==
  \A i \in 1 .. Len(path) :
    /\ i < Len(path) \/ i > 1 => path[i].of \notin Wanted
    /\ \A g \in Callees(path[i].of) \ path[i].left :
         \/ i < Len(path) /\ g = path[i + 1].of
         \/ g \in Functions => Flow(g) \cap Wanted = {}

PathRight == PathTyped /\ PathCalls /\ PathSearched

\* The functions that the detector has to judge.
ToJudge == IF detector = "token-interface-events" /\ ~implemented THEN {} ELSE Keys

InSearch == stage \in {"event", "setter"}

InHand == IF InSearch THEN {path[1].of} ELSE {}

\* Every function taken so far was judged right, but for the one in hand.
EventsJudged ==
  /\ stage = "visit" => flagged = {} /\ path = <<>>
  /\ stage \in {"next", "event", "setter", "done"} =>
       /\ unjudged \subseteq ToJudge
       /\ flagged = {f \in ToJudge \ (unjudged \cup InHand) : Silent(f)}
  /\ InSearch => PathRight /\ path[1].of \in ToJudge \ unjudged /\ Concerned(path[1].of)
  /\ stage = "setter" => detector = "storage-change-events" /\ (emits <=> Emits(path[1].of))
  /\ stage = "done" => unjudged = {}
  /\ stage = "overflow" => Recursive

EventInv == EventsGathered /\ EventsJudged

\* Nothing of this changes when the crate and what was gathered do not.
LEMMA EventsKept ==
  ASSUME UNCHANGED <<crate, detector, implemented, emitters, writers>>
  PROVE  /\ ToJudge' = ToJudge
         /\ \A f : /\ Callees(f)' = Callees(f) /\ Flow(f)' = Flow(f)
                   /\ Concerned(f)' <=> Concerned(f)
                   /\ Silent(f)' <=> Silent(f)
                   /\ Emits(f)' <=> Emits(f)
         /\ Recursive' <=> Recursive
         /\ stage' = stage => Wanted' = Wanted
         /\ CrateSeen' <=> CrateSeen
         /\ EventsGathered /\ (CrateSeen \/ stage' = stage) => EventsGathered'
<1>1. UNCHANGED <<program, unvisited, checked, graph, detector, implemented, emitters, writers>>
  BY DEF crate
<1>2. \A f, g : (Calls(f, g)' <=> Calls(f, g)) /\ (Calls(f, g)' <=> Calls(f, g))
  BY <1>1 DEF Calls, Calls
<1>3. \A f : Flow(f)' = Flow(f) /\ Flow(f)' = Flow(f)
  BY <1>2 DEF Flow, Flow
<1>4. \A f : /\ Callees(f)' = Callees(f) /\ Callees(f)' = Callees(f)
             /\ CallsOf(f)' = CallsOf(f)
             /\ IsSorobanFunction(f)' <=> IsSorobanFunction(f)
             /\ Entry(f)' <=> Entry(f)
  BY <1>1 DEF Callees, Callees, CallsOf, IsSorobanFunction, Entry
<1>5. \A f : SetsInSilence(f)' <=> SetsInSilence(f)
  BY <1>1 DEF SetsInSilence
<1>6. \A f : Emits(f)' <=> Emits(f)
  BY <1>1, <1>3 DEF Emits
<1>7. \A f : Silent(f)' <=> Silent(f)
  <2>1. \A f : (\E g \in Flow(f) : SetsInSilence(g))'
                 <=> (\E g \in Flow(f) : SetsInSilence(g))
    BY <1>3, <1>5
  <2> QED BY <1>1, <1>4, <1>6, <2>1 DEF Silent
<1>8. \A f : Concerned(f)' <=> Concerned(f)
  BY <1>1, <1>4 DEF Concerned
<1>9. ToJudge' = ToJudge
  <2>1. Keys' = Keys
    BY <1>1 DEF Keys, Callees
  <2> QED BY <1>1, <2>1 DEF ToJudge
<1>10. Recursive' <=> Recursive
  BY <1>2, <1>3 DEF Recursive
<1>11. stage' = stage => Wanted' = Wanted
  BY <1>1 DEF Wanted
<1>12. CrateSeen' <=> CrateSeen
  BY <1>1 DEF CrateSeen
<1>13. ASSUME EventsGathered, CrateSeen \/ stage' = stage
       PROVE  EventsGathered'
  <2>1. /\ Made' = Made
        /\ \A g : /\ Written(g)' <=> Written(g)
                  /\ CallsOf(g)' = CallsOf(g)
                  /\ Seen(g)' <=> Seen(g)
    BY <1>1, ProgramKept DEF Seen
  <2>2. \A g, w : Does(g, w)' <=> Does(g, w)
    BY <1>1, <2>1 DEF Does
  <2>3. CallsGathered'
    BY <1>1, <1>13, <2>1 DEF EventsGathered, CallsGathered
  <2> QED BY <1>1, <1>12, <1>13, <2>1, <2>2, <2>3 DEF EventsGathered
<1> QED BY <1>3, <1>4, <1>6, <1>7, <1>8, <1>9, <1>10, <1>11, <1>12, <1>13

\* The search from f begins with one call.
LEMMA PathBegins ==
  ASSUME EventsGathered, CrateSeen, NEW f \in Functions,
         path' = <<Call(f)>>, UNCHANGED <<crate, detector, implemented, emitters, writers>>
  PROVE  PathRight' /\ path'[1].of = f
<1>1. Call(f) = [of |-> f, left |-> Callees(f)]
  BY DEF Call
<1>2. /\ path' = <<[of |-> f, left |-> Callees(f)]>> /\ Len(path') = 1
      /\ path'[1] = [of |-> f, left |-> Callees(f)]
  BY <1>1
<1>3. \A g : Callees(g)' = Callees(g) /\ Flow(g)' = Flow(g)
  BY EventsKept
<1>4. Callees(f) \subseteq Functions \cup {External}
  BY CalleesTyped
<1>5. StackLimit \in Nat /\ 1 <= StackLimit
  BY StackAssumption, FunctionsAssumption, FS_CardinalityType
<1>6. [of |-> f, left |-> Callees(f)] \in Frames
  BY <1>4 DEF Frames
<1>7. path' \in Seq(Frames)
  BY <1>2, <1>6
<1>8. PathTyped'
  BY <1>2, <1>3, <1>5, <1>7 DEF PathTyped
<1>9. PathCalls'
  <2>1. f \in Flow(f)
    BY FlowFacts
  <2> QED BY <1>2, <1>3, <2>1 DEF PathCalls
<1>10. PathSearched'
  BY <1>2, <1>3 DEF PathSearched
<1> QED BY <1>2, <1>8, <1>9, <1>10 DEF PathRight

Asked(s, g, C) == Append([s EXCEPT ![Len(s)].left = @ \ {g}], [of |-> g, left |-> C])

HasAsked(s, g, C, t) ==
  /\ t \in Seq(Frames) /\ Len(t) = Len(s) + 1
  /\ \A i \in 1 .. Len(s) : t[i].of = s[i].of
  /\ \A i \in 1 .. Len(s) : i < Len(s) => t[i].left = s[i].left
  /\ t[Len(s)].left = s[Len(s)].left \ {g}
  /\ t[Len(s) + 1] = [of |-> g, left |-> C]

LEMMA AskFrames ==
  ASSUME NEW s \in Seq(Frames), s # <<>>, NEW g \in Functions \cup {External},
         NEW C \in SUBSET (Functions \cup {External})
  PROVE  HasAsked(s, g, C, Asked(s, g, C))
<1> DEFINE t == Asked(s, g, C)
           u == [s EXCEPT ![Len(s)].left = @ \ {g}]
           c == [of |-> g, left |-> C]
<1>1. Len(s) \in Nat /\ Len(s) >= 1 /\ DOMAIN s = 1 .. Len(s)
  OBVIOUS
<1>2. \A i \in 1 .. Len(s) : s[i] \in Frames
  BY <1>1
<1>3. /\ \A i \in 1 .. Len(s) : u[i].of = s[i].of
      /\ \A i \in 1 .. Len(s) : i < Len(s) => u[i].left = s[i].left
      /\ u[Len(s)].left = s[Len(s)].left \ {g}
  BY <1>1, <1>2 DEF Frames
<1>4. u \in Seq(Frames) /\ Len(u) = Len(s)
  <2>1. [s[Len(s)] EXCEPT !.left = @ \ {g}] \in Frames
    BY <1>1, <1>2 DEF Frames
  <2>2. u \in [1 .. Len(s) -> Frames]
    BY <1>1, <1>2, <2>1
  <2> HIDE DEF u
  <2> QED BY <1>1, <2>2
<1>5. c \in Frames
  BY DEF Frames
<1>6. t = Append(u, c)
  BY DEF Asked
<1> HIDE DEF u, t
<1>7. t \in Seq(Frames) /\ Len(t) = Len(u) + 1
  <2> HIDE DEF c
  <2> QED BY <1>4, <1>5, <1>6
<1>8. (\A i \in 1 .. Len(u) : t[i] = u[i]) /\ t[Len(u) + 1] = c
  <2> HIDE DEF c
  <2> QED BY <1>4, <1>5, <1>6
<1>9. /\ \A i \in 1 .. Len(s) : t[i].of = s[i].of
      /\ \A i \in 1 .. Len(s) : i < Len(s) => t[i].left = s[i].left
      /\ t[Len(s)].left = s[Len(s)].left \ {g}
  BY <1>1, <1>3, <1>4, <1>8
<1> QED BY <1>1, <1>4, <1>7, <1>8, <1>9 DEF t, HasAsked

\* A call for one more callee.
LEMMA PathGrows ==
  ASSUME EventsGathered, CrateSeen, PathRight, NEW g \in Top.left,
         Top.of \notin Wanted, g \notin Wanted,
         Len(path) < StackLimit, StackLimit \in Nat, path' = Ask(g),
         UNCHANGED <<crate, detector, implemented, emitters, writers, stage>>
  PROVE  PathRight' /\ path'[1].of = path[1].of
<1> DEFINE n == Len(path)
           W == Wanted
<1>1. path \in Seq(Frames) /\ path # <<>> /\ n \in Nat /\ n >= 1
  BY DEF PathRight, PathTyped
<1>2. g \in path[n].left /\ path[n].of \notin W /\ g \notin W
  BY DEF Top
<1>3. /\ path[n].left \subseteq Callees(path[n].of)
      /\ g \in Callees(path[n].of) /\ g \in Functions \cup {External}
      /\ path[n].of \in Functions
  BY <1>1, <1>2, CalleesTyped DEF PathRight, PathTyped
<1>4. path' = Asked(path, g, Callees(g))
  BY DEF Ask, Call, Asked
<1>5. Callees(g) \in SUBSET (Functions \cup {External})
  BY CalleesTyped
<1>6. /\ path' \in Seq(Frames) /\ Len(path') = n + 1
      /\ \A i \in 1 .. n : path'[i].of = path[i].of
      /\ \A i \in 1 .. n : i < n => path'[i].left = path[i].left
      /\ path'[n].left = path[n].left \ {g}
      /\ path'[n + 1] = [of |-> g, left |-> Callees(g)]
  <2>1. HasAsked(path, g, Callees(g), path')
    BY <1>1, <1>3, <1>4, <1>5, AskFrames
  <2> QED BY <2>1 DEF HasAsked
<1>7. path'[n + 1].of = g /\ path'[n + 1].left = Callees(g)
  BY <1>6
<1>8. /\ \A h : Callees(h)' = Callees(h) /\ Flow(h)' = Flow(h)
      /\ Wanted' = W
  BY EventsKept
<1> HIDE DEF n, W
<1>9. Len(path') <= StackLimit /\ path' # <<>>
  <2>1. Len(path') \in Nat /\ Len(path') # 0
    BY <1>1, <1>6
  <2>2. path' # <<>>
    BY <2>1
  <2> QED BY <1>1, <1>6, <2>2 DEF n
<1>10. PathTyped'
  <2>1. path'[1].of = path[1].of /\ path[1].of \in Functions
    BY <1>1, <1>6 DEF PathRight, PathTyped
  <2>2. ASSUME NEW i \in 1 .. (n + 1)
        PROVE  path'[i].left \subseteq Callees(path'[i].of)
    <3>1. CASE i = n + 1
      BY <1>7, <3>1
    <3>2. CASE i \in 1 .. n
      <4>1. path[i].left \subseteq Callees(path[i].of)
        BY <3>2 DEF PathRight, PathTyped, n
      <4>2. path'[i].of = path[i].of
        BY <1>6, <3>2
      <4>3. path'[i].left \subseteq path[i].left
        BY <1>1, <1>6, <3>2
      <4> QED BY <4>1, <4>2, <4>3
    <3> QED BY <1>1, <3>1, <3>2
  <2> QED BY <1>6, <1>8, <1>9, <2>1, <2>2 DEF PathTyped
<1>11. PathCalls'
  <2>1. ASSUME NEW i \in 1 .. (n + 1), NEW j \in 1 .. (n + 1), i <= j
        PROVE  /\ path'[j].of \in Functions => path'[j].of \in Flow(path'[i].of)
               /\ i < j => path'[i].of \in Functions
               /\ i + 1 = j => path'[j].of \in Callees(path'[i].of)
    <3>1. CASE j \in 1 .. n
      <4>1. i \in 1 .. n
        BY <1>1, <2>1, <3>1
      <4>2. path'[i].of = path[i].of /\ path'[j].of = path[j].of
        BY <1>6, <3>1, <4>1
      <4> QED BY <2>1, <3>1, <4>1, <4>2 DEF PathRight, PathCalls, n
    <3>2. CASE i = n + 1
      <4>1. j = n + 1
        BY <1>1, <2>1, <3>2
      <4> QED BY <1>1, <1>7, <3>2, <4>1, FlowFacts
    <3>3. CASE i \in 1 .. n /\ j = n + 1
      <4>1. path'[i].of = path[i].of /\ path'[j].of = g
        BY <1>6, <1>7, <3>3
      <4>2. path[n].of \in Flow(path[i].of) /\ (i < n => path[i].of \in Functions)
        BY <1>1, <1>3, <3>3 DEF PathRight, PathCalls, n
      <4>3. path[i].of \in Functions
        BY <1>1, <1>3, <3>3, <4>2
      <4>4. g \in Functions => g \in Flow(path[i].of)
        BY <1>3, <4>2, <4>3, CalleeInFlow
      <4>5. i + 1 = j => i = n
        BY <1>1, <3>3
      <4> QED BY <1>3, <4>1, <4>3, <4>4, <4>5
    <3> QED BY <1>1, <3>1, <3>2, <3>3
  <2> QED BY <1>6, <1>8, <2>1 DEF PathCalls
<1>12. PathSearched'
  <2>1. ASSUME NEW i \in 1 .. (n + 1)
        PROVE  /\ i < n + 1 \/ i > 1 => path'[i].of \notin W
               /\ \A h \in Callees(path'[i].of) \ path'[i].left :
                    \/ i < n + 1 /\ h = path'[i + 1].of
                    \/ h \in Functions => Flow(h) \cap W = {}
    <3>1. CASE i = n + 1
      BY <1>1, <1>2, <1>7, <3>1
    <3>2. CASE i = n
      <4>1. path'[i].of = path[n].of /\ path'[i + 1].of = g
        BY <1>1, <1>6, <1>7, <3>2
      <4>2. \A h \in Callees(path[n].of) \ path[n].left :
              h \in Functions => Flow(h) \cap W = {}
        BY <1>1 DEF PathRight, PathSearched, n, W
      <4>3. path'[i].left = path[n].left \ {g} /\ i < n + 1
        BY <1>1, <1>6, <3>2
      <4> QED BY <1>2, <4>1, <4>2, <4>3
    <3>3. CASE i \in 1 .. n /\ i < n
      <4>1. /\ path'[i].of = path[i].of /\ path'[i].left = path[i].left
            /\ path'[i + 1].of = path[i + 1].of
        <5>1. i + 1 \in 1 .. n
          BY <1>1, <3>3
        <5> QED BY <1>6, <3>3, <5>1
      <4>2. /\ path[i].of \notin W
            /\ \A h \in Callees(path[i].of) \ path[i].left :
                 \/ h = path[i + 1].of
                 \/ h \in Functions => Flow(h) \cap W = {}
        BY <3>3 DEF PathRight, PathSearched, n, W
      <4> QED BY <1>1, <3>3, <4>1, <4>2
    <3> QED BY <1>1, <3>1, <3>2, <3>3
  <2> QED BY <1>6, <1>8, <2>1 DEF PathSearched
<1> QED BY <1>1, <1>6, <1>10, <1>11, <1>12 DEF PathRight

\* A call that found nothing returns to the one before it.
LEMMA PathShrinks ==
  ASSUME EventsGathered, CrateSeen, PathRight, Len(path) # 1, StackLimit \in Nat,
         Top.of \notin Wanted, Top.left = {},
         path' = SubSeq(path, 1, Len(path) - 1),
         UNCHANGED <<crate, detector, implemented, emitters, writers, stage>>
  PROVE  PathRight' /\ path'[1].of = path[1].of
<1> DEFINE n == Len(path)
           W == Wanted
<1>1. path \in Seq(Frames) /\ path # <<>> /\ n \in Nat /\ n >= 2
  <2>1. path \in Seq(Frames) /\ path # <<>>
    BY DEF PathRight, PathTyped
  <2>2. n \in Nat /\ n # 0 /\ n # 1
    BY <2>1
  <2>3. n >= 2
    <3> HIDE DEF n
    <3> QED BY <2>2
  <2> QED BY <2>1, <2>2, <2>3
<1>2. path[n].left = {} /\ path[n].of \notin W
  BY DEF Top
<1>3. /\ path' \in Seq(Frames) /\ Len(path') = n - 1
      /\ \A i \in 1 .. (n - 1) : path'[i] = path[i]
  BY <1>1
<1>4. /\ \A h : Callees(h)' = Callees(h) /\ Flow(h)' = Flow(h)
      /\ Wanted' = W
  BY EventsKept
<1>5. path[n].of \in Functions => Flow(path[n].of) \cap W = {}
  <2>1. \A h \in Callees(path[n].of) : h \in Functions => Flow(h) \cap W = {}
    BY <1>1, <1>2 DEF PathRight, PathSearched
  <2> QED BY <1>2, <2>1, FlowOfCallees
<1> HIDE DEF n, W
<1>6. PathTyped'
  <2>1. Len(path') \in Nat /\ Len(path') # 0
    BY <1>1, <1>3
  <2>2. path' # <<>>
    BY <2>1
  <2>a. path'[1] = path[1]
    BY <1>1, <1>3
  <2>3. Len(path') <= StackLimit
    BY <1>1, <1>3 DEF PathRight, PathTyped, n
  <2>4. \A i \in 1 .. (n - 1) : path'[i].left \subseteq Callees(path'[i].of)
    BY <1>1, <1>3 DEF PathRight, PathTyped, n
  <2> QED BY <1>3, <1>4, <2>a, <2>2, <2>3, <2>4 DEF PathRight, PathTyped
<1>7. PathCalls'
  <2>1. \A i, j \in 1 .. (n - 1) : i <= j =>
          /\ path'[j].of \in Functions => path'[j].of \in Flow(path'[i].of)
          /\ i < j => path'[i].of \in Functions
          /\ i + 1 = j => path'[j].of \in Callees(path'[i].of)
    BY <1>1, <1>3 DEF PathRight, PathCalls, n
  <2> QED BY <1>3, <1>4, <2>1 DEF PathCalls
<1>8. PathSearched'
  <2>1. ASSUME NEW i \in 1 .. (n - 1)
        PROVE  /\ i < n - 1 \/ i > 1 => path'[i].of \notin W
               /\ \A h \in Callees(path'[i].of) \ path'[i].left :
                    \/ i < n - 1 /\ h = path'[i + 1].of
                    \/ h \in Functions => Flow(h) \cap W = {}
    <3>1. path'[i] = path[i] /\ i < n
      BY <1>1, <1>3
    <3>2. /\ path[i].of \notin W
          /\ \A h \in Callees(path[i].of) \ path[i].left :
               \/ h = path[i + 1].of
               \/ h \in Functions => Flow(h) \cap W = {}
      BY <1>1, <3>1 DEF PathRight, PathSearched, n, W
    <3>3. CASE i = n - 1
      <4>1. i + 1 = n
        BY <1>1, <3>3
      <4> QED BY <1>5, <3>1, <3>2, <4>1
    <3>4. CASE i < n - 1
      <4>1. path'[i + 1] = path[i + 1]
        BY <1>1, <1>3, <3>4
      <4> QED BY <3>1, <3>2, <3>4, <4>1
    <3>5. i = n - 1 \/ i < n - 1
      BY <1>1
    <3> QED BY <3>3, <3>4, <3>5
  <2> QED BY <1>3, <1>4, <2>1 DEF PathSearched
<1> QED BY <1>1, <1>3, <1>6, <1>7, <1>8 DEF PathRight

\* The last call that returns has searched the whole flow of the function in hand.
LEMMA NothingFound ==
  ASSUME EventsGathered, CrateSeen, PathRight, Len(path) = 1,
         Top.of \notin Wanted, Top.left = {}
  PROVE  Flow(path[1].of) \cap Wanted = {}
<1>1. path[1].of \in Functions /\ path[1].of \notin Wanted /\ path[1].left = {}
  BY DEF PathRight, PathTyped, Top
<1>2. \A h \in Callees(path[1].of) : h \in Functions => Flow(h) \cap Wanted = {}
  BY <1>1 DEF PathRight, PathSearched
<1> QED BY <1>1, <1>2, FlowOfCallees

\* A search is only settled by a function in the flow of the one in hand.
LEMMA SomethingFound ==
  ASSUME EventsGathered, CrateSeen, PathRight,
         ({Top.of} \cup Top.left) \cap Wanted # {}
  PROVE  Flow(path[1].of) \cap Wanted # {}
<1> DEFINE n == Len(path)
<1>1. n \in Nat /\ n >= 1 /\ path[1].of \in Functions
  BY DEF PathRight, PathTyped
<1>2. PICK g \in {path[n].of} \cup path[n].left : g \in Wanted
  BY DEF Top
<1>3. g \in Functions /\ path[n].left \subseteq Callees(path[n].of)
  BY <1>1, <1>2, CalleesTyped DEF PathRight, PathTyped
<1>4. path[n].of \in Functions
  BY <1>2, <1>3, CalleesTyped
<1>5. path[n].of \in Flow(path[1].of)
  BY <1>1, <1>4 DEF PathRight, PathCalls
<1>6. g \in Flow(path[1].of)
  BY <1>1, <1>2, <1>3, <1>5, CalleeInFlow
<1> QED BY <1>2, <1>6

\* There is room on the stack for every function once, so a call too many is for one
\* that is on the path already.
LEMMA OverflowRecursive ==
  ASSUME EventsGathered, CrateSeen, PathRight,
         Top.left # {}, ~(Len(path) < StackLimit)
  PROVE  Recursive
<1> DEFINE n == Len(path)
           f == [i \in 1 .. n |-> path[i].of]
<1>1. n \in Nat /\ n >= 1 /\ StackLimit \in Nat /\ n = StackLimit
  BY StackAssumption DEF PathRight, PathTyped
<1>2. path[n].of \in Functions
  BY <1>1, CalleesTyped DEF PathRight, PathTyped, Top
<1>3. \A i \in 1 .. n : path[i].of \in Functions
  BY <1>1, <1>2 DEF PathRight, PathCalls
<1>4. f \in [1 .. n -> Functions]
  BY <1>3
<1>5. IsFiniteSet(1 .. n) /\ Cardinality(1 .. n) = n
  BY <1>1, FS_Interval
<1>6. IsFiniteSet(Functions) /\ Cardinality(Functions) < Cardinality(1 .. n)
  BY <1>1, <1>5, StackAssumption, FunctionsAssumption, FS_CardinalityType
<1>7. PICK x, y \in 1 .. n : x # y /\ f[x] = f[y]
  <2> HIDE DEF f, n
  <2> QED BY <1>4, <1>5, <1>6, FS_PigeonHole
<1>8. PICK i, j \in 1 .. n : i < j /\ path[i].of = path[j].of
  BY <1>1, <1>7
<1>9. i + 1 \in 1 .. n /\ i + 1 <= j
  BY <1>1, <1>8
<1>10. path[i + 1].of \in Callees(path[i].of) /\ path[j].of \in Flow(path[i + 1].of)
  BY <1>1, <1>3, <1>8, <1>9 DEF PathRight, PathCalls
<1>11. Calls(path[i].of, path[i + 1].of)
  BY <1>3, <1>8, <1>9, <1>10, EventsKnown
<1> QED BY <1>3, <1>8, <1>9, <1>10, <1>11 DEF Recursive

-----------------------------------------------------------------------------
(* What the searches answer is what the detectors are for.                   *)

LEMMA KeysKnown ==
  ASSUME EventsGathered, CrateSeen
  PROVE  Keys = {f \in Functions : Written(f) /\ CallsOf(f) # {}}
BY EventsKnown DEF Keys

\* A function is only silent when the detector has to judge it and is concerned.
LEMMA SilentJudged ==
  ASSUME EventsGathered, CrateSeen, NEW f \in Functions, Silent(f)
  PROVE  f \in ToJudge /\ Concerned(f)
<1>1. f \in Keys
  BY KeysKnown DEF Silent, Written
<1>2. Concerned(f)
  BY EventsKnown DEF Silent, Concerned
<1>3. detector = "token-interface-events" => implemented
  BY DEF Silent
<1> QED BY <1>1, <1>2, <1>3 DEF ToJudge

\* With an answer to its search, a function is reported when it is silent.
LEMMA AnsweredRight ==
  ASSUME EventsGathered, CrateSeen, NEW f \in ToJudge, Concerned(f),
         NEW found \in BOOLEAN, found <=> Flow(f) \cap Wanted # {}
  PROVE  /\ f \in Functions
         /\ stage = "event" => (found <=> Emits(f))
         /\ stage = "event" /\ detector # "storage-change-events" => (~found <=> Silent(f))
         /\ stage = "setter" /\ detector = "storage-change-events" /\ (emits <=> Emits(f))
              => (Reportable(f, found) <=> Silent(f))
<1>1. /\ f \in Functions /\ Written(f) /\ CallsOf(f) # {}
      /\ detector = "token-interface-events" => implemented
  BY KeysKnown DEF ToJudge
<1>2. detector \in {"storage-change-events", "token-interface-events"}
  BY LintsAssumption DEF EventsGathered
<1>3. stage = "event" => (found <=> Emits(f))
  BY <1>1, EventsKnown DEF Wanted
<1>4. stage = "setter" => (found <=> \E g \in Flow(f) : SetsInSilence(g))
  BY <1>1, EventsKnown DEF Wanted
<1>5. f \in writers <=> "set" \in program[f].does
  BY <1>1, EventsKnown DEF Does
<1>6. ~program[f].expanded /\ CallsOf(f) # {} /\ Flow(f) = Flow(f)
  BY <1>1 DEF Written
<1>7. CASE detector = "token-interface-events"
  <2>1. "token" \in program[f].signature /\ implemented
    BY <1>1, <1>7 DEF Concerned
  <2>2. Silent(f) <=> ~Emits(f)
    BY <1>6, <1>7, <2>1 DEF Silent
  <2> QED BY <1>1, <1>3, <1>7, <2>2
<1>8. CASE detector = "storage-change-events"
  <2>1. Entry(f)
    BY <1>1, <1>8, EventsKnown DEF Concerned
  <2>2. Silent(f) <=> /\ ~Emits(f)
                      /\ \E g \in Flow(f) : SetsInSilence(g)
                      /\ "value" \in program[f].signature => "set" \in program[f].does
    BY <1>6, <1>8, <2>1 DEF Silent
  <2> QED BY <1>1, <1>3, <1>4, <1>5, <1>8, <2>2 DEF Reportable
<1> QED BY <1>2, <1>7, <1>8

LEMMA AnswerKeeps ==
  ASSUME EventInv, CrateSeen, InSearch,
         NEW found \in BOOLEAN, found <=> Flow(path[1].of) \cap Wanted # {},
         SearchAnswer(path[1].of, found),
         UNCHANGED <<crate, detector, implemented, emitters, writers, unjudged>>
  PROVE  EventInv'
<1>f. PICK f : f = path[1].of
  OBVIOUS
<1>1. /\ EventsGathered /\ f \in ToJudge \ unjudged /\ Concerned(f)
      /\ unjudged \subseteq ToJudge
      /\ flagged = {g \in ToJudge \ (unjudged \cup {f}) : Silent(g)}
      /\ stage = "setter" => detector = "storage-change-events" /\ (emits <=> Emits(f))
  BY <1>f DEF EventInv, EventsJudged, InSearch, InHand
<1>2. /\ f \in Functions
      /\ stage = "event" => (found <=> Emits(f))
      /\ stage = "event" /\ detector # "storage-change-events" => (~found <=> Silent(f))
      /\ stage = "setter" => (Reportable(f, found) <=> Silent(f))
  BY <1>1, <1>f, AnsweredRight
<1>3. /\ ToJudge' = ToJudge /\ EventsGathered'
      /\ \A g : /\ Concerned(g)' <=> Concerned(g)
                /\ Silent(g)' <=> Silent(g)
                /\ Emits(g)' <=> Emits(g)
  BY <1>1, EventsKept
<1>4. CASE stage = "event" /\ detector = "storage-change-events"
  <2>1. /\ stage' = "setter" /\ path' = <<Call(f)>>
        /\ emits' = found /\ flagged' = flagged
    BY <1>4, <1>f DEF SearchAnswer
  <2>2. PathRight' /\ path'[1].of = f
    <3> QED BY <1>1, <1>2, <2>1, PathBegins
  <2>3. InSearch' /\ InHand' = {f}
    BY <2>1, <2>2 DEF InSearch, InHand
  <2>4. flagged' = {g \in ToJudge \ (unjudged \cup InHand') : Silent(g)'}
    <3> QED BY <1>1, <1>3, <2>1, <2>3
  <2>5. emits' <=> Emits(f)'
    BY <1>2, <1>3, <1>4, <2>1
  <2>6. detector' = "storage-change-events"
    BY <1>4
  <2> QED BY <1>1, <1>3, <2>1, <2>2, <2>3, <2>4, <2>5, <2>6 DEF EventInv, EventsJudged
<1>5. CASE ~(stage = "event" /\ detector = "storage-change-events")
  <2> DEFINE report == IF stage = "setter" THEN Reportable(f, found) ELSE ~found
  <2>1. /\ stage' = "next" /\ path' = <<>>
        /\ flagged' = IF report THEN flagged \cup {f} ELSE flagged
    BY <1>5, <1>f DEF SearchAnswer
  <2>2. report <=> Silent(f)
    BY <1>2, <1>5 DEF InSearch
  <2>3. flagged' = {g \in ToJudge \ unjudged : Silent(g)}
    <3> HIDE DEF report
    <3> QED BY <1>1, <2>1, <2>2
  <2>4. InHand' = {} /\ ~InSearch'
    BY <2>1 DEF InHand, InSearch
  <2> QED BY <1>1, <1>3, <2>1, <2>3, <2>4 DEF EventInv, EventsJudged
<1> QED BY <1>4, <1>5

-----------------------------------------------------------------------------
LEMMA EventInvFirst == EventInit => EventInv
<1> SUFFICES ASSUME EventInit PROVE EventInv
  OBVIOUS
<1>1. EventsJudged
  BY DEF EventInit, EventsJudged, InSearch
<1> QED BY <1>1, EventsFirst DEF EventInv

LEMMA EventBegin ==
  ASSUME EventInv, Begin
  PROVE  EventInv'
<1>1. /\ stage = "visit" /\ CrateSeen /\ stage' = "next" /\ unjudged' = ToJudge
      /\ UNCHANGED <<crate, detector, implemented, emitters, writers, path, emits, flagged>>
  BY DEF Begin, ToJudge
<1>2. ToJudge' = ToJudge /\ EventsGathered'
  BY <1>1, EventsKept DEF EventInv
<1>3. flagged' = {}
  BY <1>1 DEF EventInv, EventsJudged
<1> QED BY <1>1, <1>2, <1>3 DEF EventInv, EventsJudged, InSearch, InHand

LEMMA EventNextFunction ==
  ASSUME EventInv, NextFunction
  PROVE  EventInv'
<1>1. PICK f \in unjudged :
        /\ unjudged' = unjudged \ {f}
        /\ IF Concerned(f) THEN stage' = "event" /\ path' = <<Call(f)>>
           ELSE UNCHANGED <<stage, path>>
  BY DEF NextFunction
<1>2. stage = "next" /\ UNCHANGED <<crate, detector, implemented, emitters, writers, emits, flagged>>
  BY DEF NextFunction
<1>3. /\ EventsGathered /\ CrateSeen /\ unjudged \subseteq ToJudge
      /\ flagged = {g \in ToJudge \ unjudged : Silent(g)}
  BY <1>2 DEF EventInv, EventsJudged, EventsGathered, InHand, InSearch
<1>4. /\ ToJudge' = ToJudge /\ EventsGathered'
      /\ \A g : /\ Concerned(g)' <=> Concerned(g)
                /\ Silent(g)' <=> Silent(g)
  BY <1>2, <1>3, EventsKept
<1>5. f \in ToJudge /\ ToJudge \subseteq Functions
  BY <1>3 DEF ToJudge, Keys
<1>6. CASE Concerned(f)
  <2>1. PathRight' /\ path'[1].of = f /\ stage' = "event"
    BY <1>1, <1>2, <1>3, <1>5, <1>6, PathBegins
  <2>2. InSearch' /\ InHand' = {f}
    BY <2>1 DEF InSearch, InHand
  <2>3. flagged' = {g \in ToJudge \ (unjudged' \cup {f}) : Silent(g)'}
    BY <1>1, <1>2, <1>3, <1>4
  <2> QED BY <1>1, <1>3, <1>4, <1>5, <1>6, <2>1, <2>2, <2>3 DEF EventInv, EventsJudged
<1>7. CASE ~Concerned(f)
  <2>1. ~Silent(f)
    BY <1>3, <1>5, <1>7, SilentJudged
  <2>2. stage' = "next" /\ path' = path /\ InHand' = {} /\ ~InSearch'
    BY <1>1, <1>2, <1>7 DEF InHand, InSearch
  <2>3. flagged' = {g \in ToJudge \ unjudged' : Silent(g)'}
    BY <1>1, <1>2, <1>3, <1>4, <2>1
  <2> QED BY <1>1, <1>3, <1>4, <2>2, <2>3 DEF EventInv, EventsJudged
<1> QED BY <1>6, <1>7

LEMMA EventNoMoreFunctions ==
  ASSUME EventInv, NoMoreFunctions
  PROVE  EventInv'
<1>1. /\ stage = "next" /\ stage' = "done" /\ unjudged = {}
      /\ UNCHANGED <<crate, detector, implemented, emitters, writers, unjudged, path, flagged>>
  BY DEF NoMoreFunctions, event_search
<1>2. CrateSeen /\ flagged = {g \in ToJudge \ unjudged : Silent(g)}
  BY <1>1 DEF EventInv, EventsJudged, EventsGathered, InHand, InSearch
<1>3. /\ ToJudge' = ToJudge /\ EventsGathered'
      /\ \A g : Silent(g)' <=> Silent(g)
  BY <1>1, <1>2, EventsKept DEF EventInv
<1>4. InHand' = {} /\ ~InSearch'
  BY <1>1 DEF InHand, InSearch
<1> QED BY <1>1, <1>2, <1>3, <1>4 DEF EventInv, EventsJudged

\* The search goes on: the function in hand is the same.
LEMMA StillInHand ==
  ASSUME EventInv, CrateSeen, InSearch, PathRight', path'[1].of = path[1].of,
         UNCHANGED <<crate, detector, implemented, emitters, writers, stage, unjudged, emits, flagged>>
  PROVE  EventInv'
<1>1. /\ ToJudge' = ToJudge /\ EventsGathered'
      /\ \A g : /\ Concerned(g)' <=> Concerned(g)
                /\ Silent(g)' <=> Silent(g)
                /\ Emits(g)' <=> Emits(g)
  BY EventsKept DEF EventInv
<1>2. InSearch' /\ InHand' = InHand /\ stage # "done" /\ stage # "overflow" /\ stage # "visit"
  BY DEF InSearch, InHand
<1> QED BY <1>1, <1>2 DEF EventInv, EventsJudged

LEMMA EventSearch ==
  ASSUME EventInv, Settled \/ Descend \/ Return
  PROVE  EventInv'
<1>1. /\ InSearch /\ CrateSeen /\ EventsGathered /\ PathRight /\ StackLimit \in Nat
      /\ UNCHANGED <<crate, detector, implemented, emitters, writers, unjudged>>
  BY StackAssumption DEF Settled, Descend, Return, InSearch, EventInv,
                         EventsGathered, EventsJudged
<1>2. CASE Settled
  <2>1. Flow(path[1].of) \cap Wanted # {}
    BY <1>1, <1>2, SomethingFound DEF Settled
  <2>2. SearchAnswer(path[1].of, TRUE)
    BY <1>2 DEF Settled
  <2> QED BY <1>1, <2>1, <2>2, AnswerKeeps
<1>3. CASE Descend
  <2>1. PICK g \in Top.left \ Wanted :
          IF Len(path) < StackLimit THEN path' = Ask(g) /\ UNCHANGED stage
          ELSE stage' = "overflow" /\ UNCHANGED path
    BY <1>3 DEF Descend
  <2>2. Top.of \notin Wanted /\ UNCHANGED <<emits, flagged>>
    BY <1>3 DEF Descend
  <2>3. CASE Len(path) < StackLimit
    <3>1. PathRight' /\ path'[1].of = path[1].of
      BY <1>1, <2>1, <2>2, <2>3, PathGrows
    <3> QED BY <1>1, <2>1, <2>2, <2>3, <3>1, StillInHand
  <2>4. CASE ~(Len(path) < StackLimit)
    <3>1. Recursive /\ stage' = "overflow"
      BY <1>1, <2>1, <2>4, OverflowRecursive
    <3>2. EventsGathered' /\ Recursive'
      BY <1>1, <3>1, EventsKept
    <3> QED BY <3>1, <3>2 DEF EventInv, EventsJudged, InSearch
  <2> QED BY <2>3, <2>4
<1>4. CASE Return
  <2>1. Top.of \notin Wanted /\ Top.left = {}
    BY <1>4 DEF Return
  <2>2. CASE Len(path) = 1
    <3>1. Flow(path[1].of) \cap Wanted = {}
      BY <1>1, <2>1, <2>2, NothingFound
    <3>2. SearchAnswer(path[1].of, FALSE)
      BY <1>4, <2>2 DEF Return, Top
    <3> QED BY <1>1, <3>1, <3>2, AnswerKeeps
  <2>3. CASE Len(path) # 1
    <3>1. path' = SubSeq(path, 1, Len(path) - 1) /\ UNCHANGED <<stage, emits, flagged>>
      BY <1>4, <2>3 DEF Return
    <3>2. PathRight' /\ path'[1].of = path[1].of
      BY <1>1, <2>1, <2>3, <3>1, PathShrinks
    <3> QED BY <1>1, <3>1, <3>2, StillInHand
  <2> QED BY <2>2, <2>3
<1> QED BY <1>2, <1>3, <1>4

LEMMA EventStep ==
  ASSUME EventInv, [EventNext]_events
  PROVE  EventInv'
<1>1. ASSUME NEW i \in Items, VisitForEvents(i)
      PROVE  EventInv'
  <2>1. EventsGathered' /\ UNCHANGED <<stage, unjudged, path, emits, flagged>> /\ stage = "visit"
    BY <1>1, EventsByVisit DEF EventInv, VisitForEvents
  <2> QED BY <2>1 DEF EventInv, EventsJudged, InSearch
<1>2. CASE Begin
  BY <1>2, EventBegin
<1>3. CASE NextFunction
  BY <1>3, EventNextFunction
<1>4. CASE NoMoreFunctions
  BY <1>4, EventNoMoreFunctions
<1>5. CASE Settled \/ Descend \/ Return
  BY <1>5, EventSearch
<1>6. CASE UNCHANGED events
  <2>1. UNCHANGED <<crate, detector, implemented, emitters, writers, stage, unjudged, path, emits, flagged>>
    BY <1>6 DEF events, event_search
  <2>2. /\ ToJudge' = ToJudge /\ EventsGathered'
        /\ \A f : /\ Callees(f)' = Callees(f) /\ Flow(f)' = Flow(f)
                  /\ Concerned(f)' <=> Concerned(f)
                  /\ Silent(f)' <=> Silent(f)
                  /\ Emits(f)' <=> Emits(f)
        /\ Recursive' <=> Recursive
        /\ Wanted' = Wanted
    BY <2>1, EventsKept DEF EventInv
  <2>3. (InSearch' <=> InSearch) /\ InHand' = InHand
    BY <2>1 DEF InSearch, InHand
  <2>4. PathRight => PathRight'
    BY <2>1, <2>2 DEF PathRight, PathTyped, PathCalls, PathSearched
  <2> QED BY <2>1, <2>2, <2>3, <2>4 DEF EventInv, EventsJudged
<1> QED BY <1>1, <1>2, <1>3, <1>4, <1>5, <1>6 DEF EventNext, EventPost

\* SilenceReported: whatever order the functions are seen and the calls are
\* followed in, exactly the functions that change state silently are reported.
THEOREM EventsReportedRight ==
  EventSpec => []SilenceReported
<1>1. EventInv => SilenceReported
  <2> SUFFICES ASSUME EventInv, stage = "done"
               PROVE  flagged = {f \in Functions : Silent(f)}
    BY DEF SilenceReported
  <2>1. EventsGathered /\ CrateSeen
    BY DEF EventInv, EventsGathered
  <2>2. flagged = {f \in ToJudge : Silent(f)}
    BY DEF EventInv, EventsJudged, InHand, InSearch
  <2>3. \A f \in Functions : Silent(f) => f \in ToJudge
    BY <2>1, SilentJudged
  <2>4. ToJudge \subseteq Functions
    BY DEF ToJudge, Keys
  <2> QED BY <2>2, <2>3, <2>4
<1>2. EventInv /\ [EventNext]_events => EventInv'
  BY EventStep
<1> QED BY <1>1, <1>2, EventInvFirst, PTL DEF EventSpec

\* OverflowOnlyOnRecursion: with room for as many calls as there are functions, the
\* stack only runs out on a crate with functions that call one another in a circle.
THEOREM EventsOverflow ==
  EventSpec => []OverflowOnlyOnRecursion
<1>1. EventInv => OverflowOnlyOnRecursion
  BY DEF EventInv, EventsJudged, OverflowOnlyOnRecursion
<1>2. EventInv /\ [EventNext]_events => EventInv'
  BY EventStep
<1> QED BY <1>1, <1>2, EventInvFirst, PTL DEF EventSpec

-----------------------------------------------------------------------------
(* Targets of calls.                                                         *)

Added(f) == Seen(f) /\ Looked(f)

\* What was gathered is what is true of the functions seen so far, and no more.
TargetsGathered ==
  /\ CallsGathered /\ addresses \in [Functions -> Address]
  /\ authorized_functions = {f \in Functions : Added(f) /\ AuthorizesIn(f)}
  /\ guarded_params = {p \in Places : Added(p[1]) /\ p \in GuardedIn(p[1])}
  /\ address_params = {p \in Places : Added(p[1]) /\ p[2] \in addresses[p[1]].params}
  /\ candidates = {p \in Places : Added(p[1]) /\ p \in CandidatesIn(p[1])}
  /\ taint_edges = {e \in Places \X Places : Added(e[1][1]) /\ e \in EdgesIn(e[1][1])}
  /\ phase \in {"visit", "propagate", "done"}
  /\ phase # "visit" => unvisited = {}

\* Parameters met so far are controlled by an attacker, and those whose turn has come
\* have passed that on.
Propagated ==
  /\ worklist \subseteq reachable
  /\ reachable \subseteq AttackerControlled
  /\ EntryParams \subseteq reachable
  /\ \A p \in reachable \ worklist : Onward(p) \subseteq reachable

TargetInv == TargetsGathered /\ (phase = "propagate" => Propagated) /\ TargetsReported

-----------------------------------------------------------------------------
(* What the gathered facts come to when every function was seen.             *)

LEMMA ValidationsKnown ==
  ASSUME TargetsGathered, CrateSeen, NEW p \in Places
  PROVE  Validated(p) <=> ValidatedAt(p)
<1> DEFINE f == p[1]
<1>1. f \in Functions
  BY DEF Places
<1>2. \A S \in SUBSET Functions :
        (\A x \in S : Callees(x) \cap Functions \subseteq S)
          <=> (\A x \in S : \A y \in Functions : Calls(x, y) => y \in S)
  BY CallsKnown DEF TargetsGathered
<1>3. \A g \in Functions : g \in authorized_functions <=> Looked(g) /\ AuthorizesIn(g)
  BY DEF TargetsGathered, CrateSeen, Seen, Added
<1>4. authorized_functions \subseteq Functions
  BY DEF TargetsGathered
<1>5. AuthReachable(f) <=> \E g \in Flow(f) : Looked(g) /\ AuthorizesIn(g)
  <2>1. \A g \in Functions :
          (\A S \in SUBSET Functions :
             (f \in S /\ \A x \in S : Callees(x) \cap Functions \subseteq S) => g \in S)
          <=> g \in Flow(f)
    BY <1>2 DEF Flow
  <2> QED BY <1>3, <1>4, <2>1 DEF AuthReachable, Flow
<1>6. p \in guarded_params <=> Looked(f) /\ p \in GuardedIn(f)
  BY DEF TargetsGathered, CrateSeen, Seen, Added
<1> QED BY <1>5, <1>6 DEF Validated, ValidatedAt

LEMMA EdgesKnown ==
  ASSUME TargetsGathered, CrateSeen, NEW p \in Places, NEW q
  PROVE  <<p, q>> \in taint_edges
           <=> Looked(p[1]) /\ \E e \in addresses[p[1]].forwards :
                                 e[1] = p[2] /\ q = <<e[2], e[3]>>
<1>1. /\ p[1] \in Functions /\ p = <<p[1], p[2]>>
      /\ addresses[p[1]].forwards \subseteq Params \X Functions \X Params
  BY DEF Places, TargetsGathered, Address
<1>2. \A e \in addresses[p[1]].forwards : <<e[2], e[3]>> \in Places
  BY <1>1 DEF Places
<1>3. <<p, q>> \in EdgesIn(p[1]) <=> \E e \in addresses[p[1]].forwards :
                                       e[1] = p[2] /\ q = <<e[2], e[3]>>
  BY <1>1 DEF EdgesIn
<1>4. <<p, q>> \in taint_edges
        <=> /\ <<p, q>> \in Places \X Places
            /\ Looked(p[1]) /\ <<p, q>> \in EdgesIn(p[1])
  BY DEF TargetsGathered, CrateSeen, Seen, Added
<1> QED BY <1>2, <1>3, <1>4

-----------------------------------------------------------------------------
(* The facts, gathered in any order.                                         *)

LEMMA TargetsFirst == TargetInit => TargetsGathered
<1> SUFFICES ASSUME TargetInit PROVE TargetsGathered
  OBVIOUS
<1>1. program \in ProgramType /\ addresses \in [Functions -> Address]
  BY AddressesAssumption, ProgramsAssumption DEF TargetInit
<1>2. \A f \in Functions : ~Seen(f)
  BY DEF TargetInit, CrateInit, Seen, Items
<1>3. unvisited = Made /\ checked = {}
  BY DEF TargetInit, CrateInit, Made
<1>4. CallsGathered
  BY <1>1, <1>2, <1>3 DEF CallsGathered, TargetInit, CrateInit
<1> QED BY <1>1, <1>2, <1>4 DEF TargetsGathered, TargetInit, Added, Places

LEMMA TargetsByVisit ==
  ASSUME TargetsGathered, NEW item \in Items, VisitForTargets(item)
  PROVE  TargetsGathered'
<1> DEFINE f == item.of
<1>1. f \in Functions /\ item \in unvisited /\ phase = "visit" /\ CheckFn(item)
  BY DEF Items, VisitForTargets
<1>2. UNCHANGED <<program, addresses, phase>>
  BY DEF VisitForTargets, CheckFn
<1>3. /\ CallsGathered'
      /\ \A g \in Functions : Seen(g)' <=> Seen(g) \/ (item.as = "itself" /\ g = f)
  BY <1>1, CallsByVisit DEF TargetsGathered
<1>4. /\ addresses' \in [Functions -> Address]
      /\ phase' \in {"visit", "propagate", "done"} /\ (phase' # "visit" => unvisited' = {})
  BY <1>1, <1>2 DEF TargetsGathered
<1> DEFINE New(what) == IF Analysed(item) /\ addresses[f].params # {} THEN what ELSE {}
<1>5. /\ authorized_functions' =
           authorized_functions \cup New(IF AuthorizesIn(f) THEN {f} ELSE {})
      /\ guarded_params' = guarded_params \cup New(GuardedIn(f))
      /\ address_params' = address_params \cup New({f} \X addresses[f].params)
      /\ candidates' = candidates \cup New(CandidatesIn(f))
      /\ taint_edges' = taint_edges \cup New(EdgesIn(f))
  BY DEF VisitForTargets
<1>6. \A g \in Functions : /\ Looked(g)' <=> Looked(g)
                           /\ AuthorizesIn(g)' <=> AuthorizesIn(g)
                           /\ GuardedIn(g)' = GuardedIn(g)
                           /\ CandidatesIn(g)' = CandidatesIn(g) /\ EdgesIn(g)' = EdgesIn(g)
  BY <1>2 DEF Looked, AuthorizesIn, GuardedIn, CandidatesIn, EdgesIn, IsConstructor
<1>7. CASE item.as = "itself"
  <2>1. \A g \in Functions : Seen(g)' <=> Seen(g) \/ g = f
    BY <1>3, <1>7
  <2>2. Analysed(item) /\ addresses[f].params # {} <=> Looked(f)
    BY <1>7 DEF Analysed, Looked
  <2>4. addresses[f] \in Address
    BY <1>1 DEF TargetsGathered
  <2>5. GuardedIn(f) \subseteq Places /\ CandidatesIn(f) \subseteq Places
    BY <1>1, <2>4 DEF GuardedIn, CandidatesIn, Places, Address
  <2>6. /\ \A p \in GuardedIn(f) \cup CandidatesIn(f) : p[1] = f
        /\ EdgesIn(f) \subseteq Places \X Places /\ \A e \in EdgesIn(f) : e[1][1] = f
    BY <1>1, <2>4 DEF GuardedIn, CandidatesIn, EdgesIn, Places, Address
  <2>8. authorized_functions' =
          {g \in Functions : Seen(g)' /\ Looked(g) /\ AuthorizesIn(g)}
    BY <1>1, <1>5, <2>1, <2>2 DEF TargetsGathered, Added
  <2>9. guarded_params' =
          {p \in Places : Seen(p[1])' /\ Looked(p[1]) /\ p \in GuardedIn(p[1])}
    BY <1>1, <1>5, <2>1, <2>2, <2>5, <2>6 DEF TargetsGathered, Added, Places
  <2>10. address_params' =
           {p \in Places : Seen(p[1])' /\ Looked(p[1]) /\ p[2] \in addresses[p[1]].params}
    BY <1>1, <1>5, <2>1, <2>2, <2>4 DEF TargetsGathered, Added, Places, Address
  <2>11. candidates' =
           {p \in Places : Seen(p[1])' /\ Looked(p[1]) /\ p \in CandidatesIn(p[1])}
    BY <1>1, <1>5, <2>1, <2>2, <2>5, <2>6 DEF TargetsGathered, Added, Places
  <2>12. taint_edges' =
           {e \in Places \X Places : /\ Seen(e[1][1])' /\ Looked(e[1][1])
                                     /\ e \in EdgesIn(e[1][1])}
    BY <1>1, <1>5, <2>1, <2>2, <2>6 DEF TargetsGathered, Added, Places
  <2> QED
    BY <1>2, <1>3, <1>4, <1>6, <2>8, <2>9, <2>10, <2>11, <2>12 DEF TargetsGathered, Added, Places
<1>8. CASE item.as # "itself"
  <2>1. \A g \in Functions : Seen(g)' <=> Seen(g)
    BY <1>3, <1>8
  <2>2. ~Analysed(item)
    BY <1>8 DEF Analysed
  <2>3. UNCHANGED facts
    BY <1>5, <2>2 DEF facts
  <2> QED
    BY <1>2, <1>3, <1>4, <1>6, <2>1, <2>3 DEF TargetsGathered, facts, Added, Places
<1> QED BY <1>7, <1>8

\* The rest of the analysis gathers nothing.
LEMMA TargetsKept ==
  ASSUME TargetsGathered, UNCHANGED <<crate, addresses, facts>>,
         phase' \in {"visit", "propagate", "done"}, phase' # "visit" => unvisited = {}
  PROVE  TargetsGathered'
<1>1. CallsGathered'
  BY DEF TargetsGathered, CallsGathered, crate, Made, Seen, Written, CallsOf
<1> QED BY <1>1 DEF TargetsGathered, crate, facts, Added, Seen, Looked, AuthorizesIn,
                    GuardedIn, CandidatesIn, EdgesIn, IsConstructor

-----------------------------------------------------------------------------
(* The worklist.                                                             *)

\* What is passed on without a validation is controlled by whoever controls the rest.
LEMMA OnwardControlled ==
  ASSUME TargetsGathered, CrateSeen, NEW p \in AttackerControlled
  PROVE  Onward(p) \subseteq AttackerControlled
<1> SUFFICES ASSUME NEW q \in Onward(p)
             PROVE  q \in AttackerControlled
  OBVIOUS
<1>1. p \in Places
  BY DEF AttackerControlled
<1>2. ~ValidatedAt(p) /\ <<p, q>> \in taint_edges
  <2>1. ~Validated(p) /\ \E d \in taint_edges : d[1] = p /\ q = d[2]
    BY DEF Onward
  <2>2. \A d \in taint_edges : d = <<d[1], d[2]>>
    BY DEF TargetsGathered
  <2> QED BY <1>1, <2>1, <2>2, ValidationsKnown
<1>3. q \in Places
  BY <1>2 DEF TargetsGathered
<1>4. PICK e \in addresses[p[1]].forwards : e[1] = p[2] /\ q = <<e[2], e[3]>>
  BY <1>1, <1>2, EdgesKnown
<1>5. Looked(p[1])
  BY <1>1, <1>2, EdgesKnown
<1>6. ASSUME NEW S \in SUBSET Places, EntryParams \subseteq S, Closed(S)
      PROVE  q \in S
  BY <1>2, <1>4, <1>5, <1>6 DEF AttackerControlled, Closed
<1> QED BY <1>3, <1>6 DEF AttackerControlled

\* When nothing is left to pass on, nothing was missed.
LEMMA AllReached ==
  ASSUME TargetsGathered, CrateSeen, Propagated, worklist = {}
  PROVE  reachable = AttackerControlled
<1>1. reachable \subseteq Places
  BY DEF Propagated, AttackerControlled
<1>2. Closed(reachable)
  <2> SUFFICES ASSUME NEW p \in reachable, ~ValidatedAt(p), Looked(p[1]),
                      NEW e \in addresses[p[1]].forwards, e[1] = p[2]
               PROVE  <<e[2], e[3]>> \in reachable
    BY DEF Closed
  <2>1. p \in Places /\ Onward(p) \subseteq reachable
    BY <1>1 DEF Propagated
  <2>2. <<p, <<e[2], e[3]>>>> \in taint_edges
    BY <2>1, EdgesKnown
  <2>3. ~Validated(p)
    BY <2>1, ValidationsKnown
  <2>4. <<e[2], e[3]>> \in Onward(p)
    BY <2>2, <2>3 DEF Onward
  <2> QED BY <2>1, <2>4
<1>3. EntryParams \subseteq reachable /\ reachable \subseteq AttackerControlled
  BY DEF Propagated
<1>4. AttackerControlled \subseteq reachable
  BY <1>1, <1>2, <1>3 DEF AttackerControlled
<1> QED BY <1>3, <1>4

\* The parameters of the entry points, as they were gathered.
LEMMA SeedRight ==
  ASSUME TargetsGathered, CrateSeen
  PROVE  {p \in address_params : ~IsConstructor(p[1]) /\ IsSorobanFunction(p[1])} = EntryParams
<1>1. \A p \in Places : p[1] \in Functions
  BY DEF Places
<1>2. \A p \in Places : IsSorobanFunction(p[1]) <=> Entry(p[1])
  BY <1>1, EntriesKnown DEF TargetsGathered
<1>3. address_params = {p \in Places : Looked(p[1]) /\ p[2] \in addresses[p[1]].params}
  BY DEF TargetsGathered, CrateSeen, Seen, Added
<1> QED BY <1>2, <1>3 DEF EntryParams

LEMMA EntriesControlled == EntryParams \subseteq AttackerControlled
BY DEF EntryParams, AttackerControlled

LEMMA ReportRight ==
  ASSUME TargetsGathered, CrateSeen, Propagated, worklist = {}
  PROVE  {p \in candidates : ~Validated(p) /\ p \in reachable}
           = {p \in AttackerControlled : /\ Looked(p[1]) /\ p \in CandidatesIn(p[1])
                                         /\ ~ValidatedAt(p)}
<1>1. candidates = {p \in Places : Looked(p[1]) /\ p \in CandidatesIn(p[1])}
  BY DEF TargetsGathered, CrateSeen, Seen, Added
<1>2. AttackerControlled \subseteq Places
  BY DEF AttackerControlled
<1>3. reachable = AttackerControlled
  BY AllReached
<1>4. \A p \in Places : Validated(p) <=> ValidatedAt(p)
  BY ValidationsKnown
<1> QED BY <1>1, <1>2, <1>3, <1>4

\* The definitions over the crate do not change with it.
LEMMA AddressesKept ==
  ASSUME UNCHANGED <<program, addresses>>
  PROVE  /\ AttackerControlled' = AttackerControlled /\ EntryParams' = EntryParams
         /\ \A f \in Functions : Looked(f)' <=> Looked(f)
         /\ \A f \in Functions : CandidatesIn(f)' = CandidatesIn(f)
         /\ \A p \in Places : ValidatedAt(p)' <=> ValidatedAt(p)
<1>1. \A f : /\ Looked(f)' <=> Looked(f)
             /\ CandidatesIn(f)' = CandidatesIn(f)
             /\ Entry(f)' <=> Entry(f)
             /\ IsConstructor(f)' <=> IsConstructor(f)
             /\ GuardedIn(f)' = GuardedIn(f)
             /\ AuthorizesIn(f)' <=> AuthorizesIn(f)
             /\ Flow(f)' = Flow(f)
  BY DEF Looked, CandidatesIn, Entry, IsConstructor, GuardedIn, AuthorizesIn, Flow, Calls
<1>2. \A p : ValidatedAt(p)' <=> ValidatedAt(p)
  BY <1>1 DEF ValidatedAt
<1>3. EntryParams' = EntryParams
  BY <1>1 DEF EntryParams
<1>4. \A S : Closed(S)' <=> Closed(S)
  BY <1>1, <1>2 DEF Closed
<1>5. AttackerControlled' = AttackerControlled
  BY <1>3, <1>4 DEF AttackerControlled
<1> QED BY <1>1, <1>2, <1>3, <1>5

LEMMA PropagatedFirst ==
  ASSUME TargetsGathered, Seed
  PROVE  Propagated'
<1>1. CrateSeen /\ UNCHANGED <<program, addresses>>
  BY DEF Seed, crate
<1>2. worklist' = EntryParams /\ reachable' = EntryParams
  BY <1>1, SeedRight DEF Seed
<1>3. AttackerControlled' = AttackerControlled /\ EntryParams' = EntryParams
  BY <1>1, AddressesKept
<1> QED BY <1>2, <1>3, EntriesControlled DEF Propagated

LEMMA PropagatedKept ==
  ASSUME TargetsGathered, Propagated, Propagate
  PROVE  Propagated'
<1>1. CrateSeen
  BY DEF Propagate, TargetsGathered, CrateSeen
<1>2. PICK p \in worklist :
        /\ worklist' = (worklist \ {p}) \cup (Onward(p) \ reachable)
        /\ reachable' = reachable \cup Onward(p)
  BY DEF Propagate, Push
<1>3. UNCHANGED <<crate, addresses, facts>>
  BY DEF Propagate
<1>4. Onward(p) \subseteq AttackerControlled
  BY <1>1, OnwardControlled DEF Propagated
<1>5. AttackerControlled' = AttackerControlled /\ EntryParams' = EntryParams
  BY <1>3, AddressesKept DEF crate
<1>6. \A q : Onward(q)' = Onward(q)
  BY <1>3 DEF Onward, Validated, AuthReachable, Callees, crate, facts
<1>7. \A q \in reachable' \ worklist' : Onward(q) \subseteq reachable'
  BY <1>2 DEF Propagated
<1> QED BY <1>2, <1>4, <1>5, <1>6, <1>7 DEF Propagated

-----------------------------------------------------------------------------
LEMMA TargetInvariance == TargetSpec => []TargetInv
<1>1. TargetInit => TargetInv
  BY TargetsFirst DEF TargetInit, TargetInv, TargetsReported
<1>2. TargetInv /\ [TargetNext]_propagation => TargetInv'
  <2> SUFFICES ASSUME TargetInv, [TargetNext]_propagation
               PROVE  TargetInv'
    OBVIOUS
  <2>1. ASSUME NEW i \in Items, VisitForTargets(i)
        PROVE  TargetInv'
    <3>1. TargetsGathered'
      BY <2>1, TargetsByVisit DEF TargetInv
    <3>2. phase' = "visit"
      BY <2>1 DEF VisitForTargets
    <3> QED BY <3>1, <3>2 DEF TargetInv, TargetsReported
  <2>2. CASE Seed
    <3>1. TargetsGathered'
      BY <2>2, TargetsKept DEF TargetInv, Seed, CrateSeen
    <3>2. Propagated' /\ phase' = "propagate"
      BY <2>2, PropagatedFirst DEF TargetInv, Seed
    <3> QED BY <3>1, <3>2 DEF TargetInv, TargetsReported
  <2>3. CASE Propagate
    <3>1. TargetsGathered'
      BY <2>3, TargetsKept DEF TargetInv, Propagate, TargetsGathered
    <3>2. Propagated' /\ phase' = "propagate"
      BY <2>3, PropagatedKept DEF TargetInv, Propagate
    <3> QED BY <3>1, <3>2 DEF TargetInv, TargetsReported
  <2>4. CASE Report
    <3>1. TargetsGathered' /\ phase' = "done"
      BY <2>4, TargetsKept DEF TargetInv, Report, TargetsGathered
    <3>2. TargetsGathered /\ CrateSeen /\ Propagated /\ worklist = {}
      BY <2>4 DEF TargetInv, Report, TargetsGathered, CrateSeen
    <3>3. findings' = {p \in AttackerControlled : /\ Looked(p[1]) /\ p \in CandidatesIn(p[1])
                                                  /\ ~ValidatedAt(p)}
      BY <2>4, <3>2, ReportRight DEF Report
    <3>4. \A p \in AttackerControlled : p \in Places /\ p[1] \in Functions
      BY DEF AttackerControlled, Places
    <3>5. TargetsReported'
      BY <2>4, <3>3, <3>4, AddressesKept DEF Report, crate, TargetsReported
    <3> QED BY <3>1, <3>5 DEF TargetInv
  <2>5. CASE UNCHANGED propagation
    <3>1. TargetsGathered'
      BY <2>5, TargetsKept DEF TargetInv, propagation, TargetsGathered
    <3>2. Propagated' <=> Propagated
      <4>1. AttackerControlled' = AttackerControlled /\ EntryParams' = EntryParams
        BY <2>5, AddressesKept DEF propagation, crate
      <4>2. \A q : Onward(q)' = Onward(q)
        BY <2>5 DEF propagation, Onward, Validated, AuthReachable, Callees, crate, facts
      <4> QED BY <2>5, <4>1, <4>2 DEF propagation, Propagated
    <3>3. TargetsReported'
      <4>1. \A p \in AttackerControlled : p \in Places /\ p[1] \in Functions
        BY DEF AttackerControlled, Places
      <4> QED BY <2>5, <4>1, AddressesKept DEF TargetInv, propagation, crate, TargetsReported
    <3> QED BY <2>5, <3>1, <3>2, <3>3 DEF TargetInv, propagation
  <2> QED BY <2>1, <2>2, <2>3, <2>4, <2>5 DEF TargetNext
<1> QED BY <1>1, <1>2, PTL DEF TargetSpec

\* Exactly the calls are reported whose address comes from a parameter of an entry point
\* with no validation on the way, for every crate and every order.
THEOREM TargetsRight == TargetSpec => []TargetsReported
<1>1. TargetInv => TargetsReported
  BY DEF TargetInv
<1> QED BY <1>1, TargetInvariance, PTL
=============================================================================
