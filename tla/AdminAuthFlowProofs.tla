------------------------- MODULE AdminAuthFlowProofs -------------------------
(* For every crate, whatever order its functions are seen in, its entry       *)
(* points analysed and the summaries computed: missing-new-admin-auth misses  *)
(* no new admin that some execution stores without the two having signed, and *)
(* reports none without a reason.                                            *)
EXTENDS AdminAuthFlow, FiniteSetTheorems, TLAPS

Made == {i \in Items : i.as \in {"itself"} \cup program[i.of].generated}

\* check_fn has seen the function as it was written.
Seen(f) == [of |-> f, as |-> "itself"] \notin unvisited

\* What was gathered is what is true of the functions seen so far.
Gathered ==
  /\ program \in ProgramType /\ bodies \in [Functions -> BodyType]
  /\ unvisited \subseteq Made
  /\ checked = {i \in Made \ unvisited : ~IsInitializeFn(i.of)}
  /\ graph = {c \in Functions \X (Functions \cup {External}) :
                Seen(c[1]) /\ Known(c[1]) /\ c[2] \in CallsOf(c[1])}
  /\ params = {f \in Functions : Seen(f) /\ Known(f)}
  /\ pc \in {"visit", "entries", "fixpoint", "done"}
  /\ pc # "visit" => unvisited = {}

\* Summaries, of functions that are looked at, promise no more than what follows from
\* them.
Modest(known) ==
  /\ known \in [DOMAIN known -> SUBSET Admins]
  /\ DOMAIN known \subseteq {f \in Functions : Known(f)}
  /\ \A f \in DOMAIN known : known[f] \subseteq Summary(f, known)

\* Some execution stores a new admin there without the two having signed.
Lacking(f, b) == Missing(f, b, Silent)

\* What an entry point leads to was reported.
Covered(e) ==
  \A f \in Within(e), b \in Blocks :
    Known(f) /\ Lacking(f, b) => <<f, b>> \in reported

\* The entry points before the present one are covered, and its summaries are modest.
Progress ==
  /\ pc = "visit" => looked_at = {}
  /\ pc \in {"entries", "done"} => \A e \in looked_at : Covered(e)
  /\ pc = "fixpoint" =>
       /\ Modest(summaries)
       /\ todo \subseteq DOMAIN summaries
       /\ \E e \in looked_at \cap Functions :
            /\ DOMAIN summaries = {f \in Within(e) : Known(f)}
            /\ \A d \in looked_at \ {e} : Covered(d)
  /\ pc = "done" => \A f \in Functions : Entry(f) /\ Known(f) => f \in looked_at

IInv == Gathered /\ Progress

-----------------------------------------------------------------------------
(* What summaries promise, and what executions do.                           *)

LEMMA EventsTyped ==
  ASSUME Gathered, NEW f \in Functions, NEW b \in Blocks
  PROVE  /\ bodies[f].does[b].who \in Admins /\ bodies[f].params \subseteq Params
         /\ Tracked(f) \subseteq Admins
BY DEF Gathered, BodyType, Event, Tracked, Admins

\* The more is known, the less is unauthorized, and the more a summary says.
LEMMA SummaryMonotone ==
  ASSUME NEW known, NEW more, DOMAIN more = DOMAIN known,
         \A g \in DOMAIN known : known[g] \subseteq more[g], NEW f
  PROVE  Summary(f, known) \subseteq Summary(f, more)
<1>1. \A b, x : Propagates(f, b, x, more) \subseteq Propagates(f, b, x, known)
  <2>1. \A b, x : CallReturn(f, b, x, known) => CallReturn(f, b, x, more)
    BY DEF CallReturn
  <2> QED BY <2>1 DEF Propagates
<1>2. \A x : Unauthorized(f, x, more) \subseteq Unauthorized(f, x, known)
  BY <1>1 DEF Unauthorized
<1> QED BY <1>2 DEF Summary

\* The more keeps silent, the more comes back unasked.
LEMMA SilencedMonotone ==
  ASSUME NEW some, NEW more, some \subseteq more
  PROVE  /\ \A p \in BOOLEAN : Silenced(some, p) \subseteq Silenced(more, p)
         /\ \A f, x, p : Unasked(f, x, some, p) \subseteq Unasked(f, x, more, p)
         /\ \A f, b : Missing(f, b, some) => Missing(f, b, more)
<1>1. \A f, b, x, p : GoesOn(f, b, x, some, p) \subseteq GoesOn(f, b, x, more, p)
  <2>1. \A f, b, x : KeepsSilent(f, b, x, some) => KeepsSilent(f, b, x, more)
    BY DEF KeepsSilent
  <2> QED BY <2>1 DEF GoesOn
<1>2. \A f, x, p : Unasked(f, x, some, p) \subseteq Unasked(f, x, more, p)
  BY <1>1 DEF Unasked
<1>3. \A f, x, p : UnaskedEnds(f, x, some, p) \subseteq UnaskedEnds(f, x, more, p)
  BY <1>2 DEF UnaskedEnds
<1>4. \A p : Silenced(some, p) \subseteq Silenced(more, p)
  BY <1>3 DEF Silenced
<1> QED BY <1>2, <1>4 DEF Missing

\* Where modest summaries find an authorization, no execution goes without.
LEMMA ExecutionsFollowed ==
  ASSUME Gathered, NEW known, Modest(known), NEW f \in Functions, NEW x \in Admins
  PROVE  Unasked(f, x, Silent, FALSE) \subseteq Unauthorized(f, x, known)
<1> DEFINE Open == {s \in Functions \X Admins : ~(s[1] \in DOMAIN known /\ s[2] \in known[s[1]])}
           Top == Functions \X Admins
<1>1. \A g, b : \A y \in Admins : GoesOn(g, b, y, Open, FALSE) \subseteq Propagates(g, b, y, known)
  <2> SUFFICES ASSUME NEW g, NEW b, NEW y \in Admins,
                      KeepsSilent(g, b, y, Open), CallReturn(g, b, y, known)
               PROVE  FALSE
    BY DEF GoesOn, Propagates
  <2> DEFINE e == bodies[g].does[b]
  <2>1. e.does = "call" /\ e.callee \in DOMAIN known /\ Known(e.callee)
    BY DEF CallReturn, Modest
  <2>2. CASE y = Current /\ Current \in known[e.callee]
    BY <2>1, <2>2 DEF KeepsSilent
  <2>3. CASE \E z \in Params : <<z, y>> \in e.args /\ z \in known[e.callee]
    BY <2>1, <2>3 DEF KeepsSilent
  <2> QED BY <2>2, <2>3 DEF CallReturn
<1>2. \A g : \A y \in Admins : Unasked(g, y, Open, FALSE) \subseteq Unauthorized(g, y, known)
  BY <1>1 DEF Unasked, Unauthorized
<1>3. Silenced(Open, FALSE) \subseteq Open
  <2> SUFFICES ASSUME NEW s \in Silenced(Open, FALSE), s[1] \in DOMAIN known, s[2] \in known[s[1]]
               PROVE  FALSE
    BY DEF Silenced
  <2>1. s[1] \in Functions /\ s[2] \in Admins /\ s[2] \in Summary(s[1], known)
    BY DEF Silenced, Modest
  <2>2. PICK b \in UnaskedEnds(s[1], s[2], Open, FALSE) : TRUE
    BY <2>1 DEF Silenced, Summary
  <2>3. b \in Unauthorized(s[1], s[2], known) /\ SummaryExit(s[1], b) /\ ~AuthEvent(s[1], b, s[2])
    BY <1>2, <2>1, <2>2 DEF UnaskedEnds
  <2> QED BY <2>1, <2>3 DEF Summary
<1>4. Silent \subseteq Open
  <2> DEFINE most == Silenced(Top, FALSE)
             R == Open \cap most
  <2>1. Silenced(R, FALSE) \subseteq Silenced(Open, FALSE) /\ Silenced(R, FALSE) \subseteq most
    BY SilencedMonotone
  <2>2. Silenced(R, FALSE) \subseteq R /\ R \in SUBSET most
    BY <1>3, <2>1
  <2> QED BY <2>2 DEF Silent
<1>5. Unasked(f, x, Silent, FALSE) \subseteq Unasked(f, x, Open, FALSE)
  BY <1>4, SilencedMonotone
<1> QED BY <1>2, <1>5

LEMMA SinksFollowed ==
  ASSUME Gathered, NEW known, Modest(known), NEW f \in Functions, NEW b \in Blocks,
         Lacking(f, b)
  PROVE  b \in UnsafeSinks(f, known)
<1>1. Current \in Admins /\ bodies[f].does[b].who \in Admins
  BY EventsTyped DEF Admins
<1> QED BY <1>1, ExecutionsFollowed DEF Lacking, Missing, UnsafeSinks

\* Computing one summary anew keeps all of them modest, and takes nothing back.
LEMMA RecomputeModest ==
  ASSUME Gathered, NEW known, Modest(known), NEW f \in DOMAIN known
  PROVE  LET more == [known EXCEPT ![f] = Summary(f, known)]
         IN  Modest(more) /\ \A g \in DOMAIN known : known[g] \subseteq more[g]
<1> DEFINE more == [known EXCEPT ![f] = Summary(f, known)]
<1>1. DOMAIN more = DOMAIN known /\ f \in Functions
  BY DEF Modest
<1>2. Summary(f, known) \subseteq Admins
  <2>1. First \in Blocks
    BY BlocksAssumption
  <2> QED BY <1>1, <2>1, EventsTyped DEF Summary
<1>3. \A g \in DOMAIN known : more[g] = IF g = f THEN Summary(f, known) ELSE known[g]
  BY DEF Modest
<1>4. \A g \in DOMAIN known : known[g] \subseteq more[g]
  BY <1>3 DEF Modest
<1>5. \A g : Summary(g, known) \subseteq Summary(g, more)
  BY <1>1, <1>4, SummaryMonotone
<1>6. \A g \in DOMAIN more : more[g] \subseteq Summary(g, more)
  BY <1>1, <1>3, <1>5 DEF Modest
<1>7. more \in [DOMAIN more -> SUBSET Admins]
  BY <1>1, <1>2, <1>3 DEF Modest
<1> QED BY <1>1, <1>4, <1>6, <1>7 DEF Modest

-----------------------------------------------------------------------------
(* The facts, gathered in any order.                                         *)

LEMMA EntriesKnown ==
  ASSUME Gathered, CrateSeen, NEW f \in Functions
  PROVE  IsSorobanFunction(f) <=> Entry(f) /\ ~IsInitializeFn(f)
<1>1. \A as \in {"itself"} \cup Generated :
        [of |-> f, as |-> as] \in checked
          <=> as \in {"itself"} \cup program[f].generated /\ ~IsInitializeFn(f)
  BY DEF Gathered, CrateSeen, Items, Made
<1>2. program[f].generated \subseteq Generated
  BY DEF Gathered, ProgramType
<1> QED BY <1>1, <1>2, GeneratedAssumption DEF IsSorobanFunction, Entry

\* The functions reached along the graph are those within.
LEMMA ReachKnown ==
  ASSUME Gathered, CrateSeen
  PROVE  /\ \A e \in Functions : ReachableFrom(e) = Within(e)
         /\ params = {f \in Functions : Known(f)}
<1>1. \A f, g \in Functions : g \in Callees(f) <=> Follows(f, g)
  <2> SUFFICES ASSUME NEW f \in Functions, NEW g \in Functions
               PROVE  g \in Callees(f) <=> Follows(f, g)
    OBVIOUS
  <2>1. g \in CallsOf(f) <=> g \in program[f].calls
    BY ExternalAssumption DEF CallsOf
  <2>2. <<f, g>> \in graph <=> Known(f) /\ g \in CallsOf(f)
    BY DEF Gathered, CrateSeen, Seen
  <2> QED BY <2>1, <2>2 DEF Callees, Follows, Calls, Known
<1>2. \A S \in SUBSET Functions :
        (\A x \in S : Callees(x) \cap Functions \subseteq S)
          <=> (\A x \in S : \A y \in Functions : Follows(x, y) => y \in S)
  BY <1>1
<1>3. \A e \in Functions : ReachableFrom(e) = Within(e)
  BY <1>2 DEF ReachableFrom, Within
<1>4. params = {f \in Functions : Known(f)}
  BY DEF Gathered, CrateSeen, Seen
<1> QED BY <1>3, <1>4

LEMMA GatheredFirst == Init => Gathered
<1> SUFFICES ASSUME Init PROVE Gathered
  OBVIOUS
<1>1. program \in ProgramType /\ bodies \in [Functions -> BodyType]
  BY CasesAssumption, ProgramsAssumption DEF Init
<1>2. \A f \in Functions : ~Seen(f)
  BY DEF Init, CrateInit, Seen, Items
<1>3. unvisited = Made /\ checked = {}
  BY DEF Init, CrateInit, Made
<1> QED BY <1>1, <1>2, <1>3 DEF Gathered, Init, CrateInit

LEMMA GatheredByVisit ==
  ASSUME Gathered, NEW item \in Items, Visit(item)
  PROVE  Gathered'
<1> DEFINE f == item.of
<1>1. f \in Functions /\ item \in unvisited /\ pc = "visit" /\ item \in Made
  BY DEF Items, Visit, Gathered
<1>2. UNCHANGED <<program, bodies, pc>> /\ unvisited' = unvisited \ {item}
  BY DEF Visit, CheckFn
<1>3. /\ program' \in ProgramType /\ bodies' \in [Functions -> BodyType]
      /\ pc' \in {"visit", "entries", "fixpoint", "done"} /\ (pc' # "visit" => unvisited' = {})
  BY <1>1, <1>2 DEF Gathered
<1>4. Made' = Made /\ \A g : /\ Known(g)' <=> Known(g) /\ CallsOf(g)' = CallsOf(g)
                            /\ IsInitializeFn(g)' <=> IsInitializeFn(g)
  BY <1>2 DEF Made, Known, CallsOf, IsInitializeFn
<1>5. unvisited' \subseteq Made' /\ checked' = {i \in Made \ unvisited' : ~IsInitializeFn(i.of)}
  <2>1. checked' = IF IsInitializeFn(f) THEN checked ELSE checked \cup {item}
    BY DEF Visit, CheckFn, Record
  <2> QED BY <1>1, <1>2, <1>4, <2>1 DEF Gathered
<1>6. /\ graph' = IF Analysed(item) /\ ~IsInitializeFn(f)
                  THEN graph \cup {<<f, g>> : g \in CallsOf(f)} ELSE graph
      /\ params' = IF Analysed(item) /\ ~IsInitializeFn(f) THEN params \cup {f} ELSE params
  BY DEF Visit, CheckFn
<1>9. /\ {i \in Made \ unvisited' : ~IsInitializeFn(i.of)}
           = {i \in Made' \ unvisited' : ~IsInitializeFn(i.of)'}
      /\ {c \in Functions \X (Functions \cup {External}) :
            Seen(c[1])' /\ Known(c[1]) /\ c[2] \in CallsOf(c[1])}
           = {c \in Functions \X (Functions \cup {External}) :
                Seen(c[1])' /\ Known(c[1])' /\ c[2] \in CallsOf(c[1])'}
      /\ {g \in Functions : Seen(g)' /\ Known(g)} = {g \in Functions : Seen(g)' /\ Known(g)'}
  BY <1>2, <1>4 DEF IsInitializeFn, Known, CallsOf
<1>7. CASE item.as = "itself"
  <2>1. \A g \in Functions : Seen(g)' <=> Seen(g) \/ g = f
    BY <1>2, <1>7 DEF Seen, Items
  <2>2. Analysed(item) /\ ~IsInitializeFn(f) <=> Known(f)
    BY <1>7 DEF Analysed, Known
  <2>3. CallsOf(f) \subseteq Functions \cup {External}
    BY <1>1 DEF CallsOf, Gathered, ProgramType
  <2>4. graph' = {c \in Functions \X (Functions \cup {External}) :
                    Seen(c[1])' /\ Known(c[1]) /\ c[2] \in CallsOf(c[1])}
    BY <1>1, <1>6, <2>1, <2>2, <2>3 DEF Gathered
  <2>5. params' = {g \in Functions : Seen(g)' /\ Known(g)}
    BY <1>1, <1>6, <2>1, <2>2 DEF Gathered
  <2> QED BY <1>3, <1>5, <1>9, <2>4, <2>5 DEF Gathered
<1>8. CASE item.as # "itself"
  <2>1. \A g \in Functions : Seen(g)' <=> Seen(g)
    BY <1>2, <1>8 DEF Seen
  <2>2. UNCHANGED <<graph, params>>
    BY <1>6, <1>8 DEF Analysed
  <2>3. graph' = {c \in Functions \X (Functions \cup {External}) :
                    Seen(c[1])' /\ Known(c[1]) /\ c[2] \in CallsOf(c[1])}
    BY <2>1, <2>2 DEF Gathered
  <2>4. params' = {g \in Functions : Seen(g)' /\ Known(g)}
    BY <2>1, <2>2 DEF Gathered
  <2> QED BY <1>3, <1>5, <1>9, <2>3, <2>4 DEF Gathered
<1> QED BY <1>7, <1>8

\* The rest of the analysis gathers nothing.
LEMMA GatheredKept ==
  ASSUME Gathered, UNCHANGED <<crate, bodies, params>>,
         pc' \in {"visit", "entries", "fixpoint", "done"}, pc' # "visit" => unvisited = {}
  PROVE  Gathered'
BY DEF Gathered, crate, Made, Seen, Known, IsInitializeFn, CallsOf

-----------------------------------------------------------------------------
(* The rounds.                                                               *)

\* What is true of the crate does not change with the analysis.
LEMMA CrateKept ==
  ASSUME UNCHANGED <<program, bodies>>, NEW f
  PROVE  /\ Known(f)' <=> Known(f)
         /\ Entry(f)' <=> Entry(f)
         /\ Within(f)' = Within(f)
         /\ \A b : Lacking(f, b)' <=> Lacking(f, b)
         /\ Doubted' = Doubted
         /\ \A b, silent : Missing(f, b, silent)' <=> Missing(f, b, silent)
         /\ \A x, silent, p : UnaskedEnds(f, x, silent, p)' = UnaskedEnds(f, x, silent, p)
<1>1. \A g : (Known(g)' <=> Known(g)) /\ (Entry(g)' <=> Entry(g))
  BY DEF Known, IsInitializeFn, Entry
<1>2. \A g : Within(g)' = Within(g)
  BY DEF Within, Follows, Calls, Known, IsInitializeFn
<1>3. \A g, c, x, silent, p : GoesOn(g, c, x, silent, p)' = GoesOn(g, c, x, silent, p)
  <2>1. \A g, c, x, silent : KeepsSilent(g, c, x, silent)' <=> KeepsSilent(g, c, x, silent)
    BY DEF KeepsSilent, Known, IsInitializeFn
  <2>2. \A g, c, x : /\ AuthEvent(g, c, x)' <=> AuthEvent(g, c, x)
                     /\ Edges(g, c)' = Edges(g, c) /\ Unwinds(g, c)' = Unwinds(g, c)
    BY DEF AuthEvent, Edges, Unwinds
  <2> QED BY <2>1, <2>2 DEF GoesOn
<1>4. \A g, x, silent, p : Unasked(g, x, silent, p)' = Unasked(g, x, silent, p)
  <2> SUFFICES ASSUME NEW g, NEW x, NEW silent, NEW p
               PROVE  Unasked(g, x, silent, p)' = Unasked(g, x, silent, p)
    OBVIOUS
  <2>1. \A S : (\E c \in S : ~(GoesOn(g, c, x, silent, p)' \subseteq S))
              <=> \E c \in S : ~(GoesOn(g, c, x, silent, p) \subseteq S)
    BY <1>3
  <2> QED BY <2>1 DEF Unasked
<1>5. \A g, x, silent, p : UnaskedEnds(g, x, silent, p)' = UnaskedEnds(g, x, silent, p)
  <2>1. \A g, b, x : (SummaryExit(g, b) /\ ~AuthEvent(g, b, x))' <=> SummaryExit(g, b) /\ ~AuthEvent(g, b, x)
    BY DEF AuthEvent, SummaryExit, Unwinds
  <2> QED BY <1>4, <2>1 DEF UnaskedEnds
<1>6. \A g : Tracked(g)' = Tracked(g) /\ \A b : Panics(g, b)' <=> Panics(g, b)
  BY DEF Tracked, Panics
<1>7. \A silent, p : Silenced(silent, p)' = Silenced(silent, p)
  <2> SUFFICES ASSUME NEW silent, NEW p PROVE Silenced(silent, p)' = Silenced(silent, p)
    OBVIOUS
  <2> DEFINE silenced(s) == \/ s[2] \notin Tracked(s[1])
                            \/ \E b \in UnaskedEnds(s[1], s[2], silent, p) : p \/ ~Panics(s[1], b)
  <2>1. \A s : silenced(s)' <=> silenced(s)
    BY <1>5, <1>6
  <2>2. /\ Silenced(silent, p) = {s \in {g \in Functions : Known(g)} \X Admins : silenced(s)}
        /\ Silenced(silent, p)' = {s \in {g \in Functions : Known(g)'} \X Admins : silenced(s)'}
    BY DEF Silenced, Admins
  <2>3. {g \in Functions : Known(g)'} = {g \in Functions : Known(g)}
    BY <1>1
  <2> HIDE DEF silenced
  <2> QED BY <2>1, <2>2, <2>3
<1>8. Silent' = Silent /\ Doubted' = Doubted
  BY <1>7 DEF Silent, Doubted, Admins
<1>9. \A g, b, silent : Missing(g, b, silent)' <=> Missing(g, b, silent)
  BY <1>4 DEF Missing
<1>10. \A g, b : Lacking(g, b)' <=> Lacking(g, b)
  BY <1>8, <1>9 DEF Lacking, Missing
<1> QED BY <1>1, <1>2, <1>5, <1>8, <1>9, <1>10

LEMMA CoveredKept ==
  ASSUME UNCHANGED <<program, bodies>>, reported \subseteq reported', NEW e, Covered(e)
  PROVE  Covered(e)'
<1>1. Within(e)' = Within(e) /\ \A f, b : Known(f)' /\ Lacking(f, b)' <=> Known(f) /\ Lacking(f, b)
  BY CrateKept
<1>2. \A f \in Within(e), b \in Blocks : Known(f) /\ Lacking(f, b) => <<f, b>> \in reported'
  BY DEF Covered
<1>3. \A f \in Within(e)', b \in Blocks : Known(f)' /\ Lacking(f, b)' => <<f, b>> \in reported'
  BY <1>1, <1>2
<1> QED BY <1>3 DEF Covered

\* Modest summaries stay modest while the crate stays what it is.
LEMMA ModestKept ==
  ASSUME NEW STATE known, Modest(known), UNCHANGED <<program, bodies>>, summaries' = known
  PROVE  Modest(summaries)'
<1>1. \A f : (Known(f)' <=> Known(f)) /\ Tracked(f)' = Tracked(f)
  BY DEF Known, IsInitializeFn, Tracked
<1>2. \A f, c, x : Propagates(f, c, x, summaries)' = Propagates(f, c, x, known)
  <2>1. \A f, c, x : /\ CallReturn(f, c, x, summaries)' <=> CallReturn(f, c, x, known)
                     /\ AuthEvent(f, c, x)' <=> AuthEvent(f, c, x)
                     /\ Edges(f, c)' = Edges(f, c) /\ Unwinds(f, c)' = Unwinds(f, c)
    BY DEF AuthEvent, CallReturn, Edges, Unwinds
  <2> QED BY <2>1 DEF Propagates
<1>3. \A f, x : Unauthorized(f, x, summaries)' = Unauthorized(f, x, known)
  <2> SUFFICES ASSUME NEW f, NEW x PROVE Unauthorized(f, x, summaries)' = Unauthorized(f, x, known)
    OBVIOUS
  <2>1. \A S : (\E c \in S : ~(Propagates(f, c, x, summaries)' \subseteq S))
              <=> \E c \in S : ~(Propagates(f, c, x, known) \subseteq S)
    BY <1>2
  <2> QED BY <2>1 DEF Unauthorized
<1>4. \A f, x, b : (SummaryExit(f, b)' => AuthEvent(f, b, x)')
                    <=> (SummaryExit(f, b) => AuthEvent(f, b, x))
  BY DEF SummaryExit, Unwinds, AuthEvent
<1>5. \A f : Summary(f, summaries)' = Summary(f, known)
  BY <1>1, <1>3, <1>4 DEF Summary
<1> QED BY <1>1, <1>5 DEF Modest

\* The last round found nothing new: what is lacking in the functions it was about is
\* reported.
LEMMA SinksCover ==
  ASSUME Gathered, Modest(summaries), NEW e \in Functions,
         DOMAIN summaries = {f \in Within(e) : Known(f)}, reported' = reported \cup Sinks,
         UNCHANGED <<program, bodies>>
  PROVE  Covered(e)'
<1>1. \A f \in Within(e), b \in Blocks :
        Known(f) /\ Lacking(f, b) => <<f, b>> \in reported'
  <2> SUFFICES ASSUME NEW f \in Within(e), NEW b \in Blocks, Known(f), Lacking(f, b)
               PROVE  <<f, b>> \in Sinks
    OBVIOUS
  <2>1. f \in Functions /\ f \in DOMAIN summaries
    BY DEF Within
  <2>2. b \in UnsafeSinks(f, summaries)
    BY <2>1, SinksFollowed
  <2> QED BY <2>1, <2>2 DEF Sinks
<1>2. Within(e)' = Within(e) /\ \A f, b : Known(f)' /\ Lacking(f, b)' <=> Known(f) /\ Lacking(f, b)
  BY CrateKept
<1>3. \A f \in Within(e)', b \in Blocks : Known(f)' /\ Lacking(f, b)' => <<f, b>> \in reported'
  BY <1>1, <1>2
<1> QED BY <1>3 DEF Covered

LEMMA VisitStep ==
  ASSUME IInv, NEW item \in Items, Visit(item)
  PROVE  IInv'
<1>1. Gathered'
  BY GatheredByVisit DEF IInv
<1>2. pc' = "visit" /\ looked_at' = {}
  BY DEF IInv, Progress, Visit
<1> QED BY <1>1, <1>2 DEF IInv, Progress

LEMMA ShownStep ==
  ASSUME IInv, CrateShown
  PROVE  IInv'
<1>1. Gathered'
  BY GatheredKept DEF IInv, CrateShown, CrateSeen
<1>2. pc' = "entries" /\ looked_at' = {}
  BY DEF IInv, Progress, CrateShown
<1> QED BY <1>1, <1>2 DEF IInv, Progress

LEMMA StartStep ==
  ASSUME IInv, NEW e \in Functions, StartEntry(e)
  PROVE  IInv'
<1>1. Gathered' /\ Gathered /\ CrateSeen
  BY GatheredKept DEF IInv, StartEntry, Gathered, CrateSeen
<1>2. pc' = "fixpoint" /\ looked_at' = looked_at \cup {e} /\ UNCHANGED <<program, bodies, reported>>
  BY DEF StartEntry, crate
<1> DEFINE D == {f \in Within(e) : Known(f)}
<1>3. summaries' = [g \in D |-> {}] /\ todo' = D
  <2>1. reachable' = Within(e) /\ params = {f \in Functions : Known(f)}
    BY <1>1, ReachKnown DEF StartEntry
  <2>2. Within(e) \subseteq Functions
    BY DEF Within
  <2>3. reachable' \cap params = D
    BY <2>1, <2>2
  <2> QED BY <2>3 DEF StartEntry
<1>4. DOMAIN summaries' = {f \in Within(e)' : Known(f)'}
  BY <1>2, <1>3, CrateKept
<1>5. Modest(summaries)'
  <2>1. DOMAIN summaries' \subseteq {f \in Functions : Known(f)'}
    BY <1>4 DEF Within
  <2>2. summaries' \in [DOMAIN summaries' -> SUBSET Admins]
        /\ \A f \in DOMAIN summaries' : summaries'[f] = {}
    BY <1>3
  <2> QED BY <2>1, <2>2 DEF Modest
<1>6. \A d \in looked_at' \ {e} : Covered(d)'
  BY <1>2, CoveredKept DEF IInv, Progress, StartEntry
<1> QED BY <1>1, <1>2, <1>3, <1>4, <1>5, <1>6 DEF IInv, Progress

LEMMA RecomputeStep ==
  ASSUME IInv, NEW f \in Functions, Recompute(f)
  PROVE  /\ IInv'
         /\ \A g \in DOMAIN summaries : summaries[g] \subseteq summaries'[g]
<1>1. Gathered' /\ Gathered
  BY GatheredKept DEF IInv, Recompute, Gathered
<1>2. /\ Modest(summaries) /\ f \in DOMAIN summaries /\ pc' = "fixpoint"
      /\ UNCHANGED <<program, bodies, looked_at, reported>>
  BY DEF IInv, Progress, Recompute, crate
<1> DEFINE more == [summaries EXCEPT ![f] = Summary(f, summaries)]
<1>3. summaries' = more
  BY DEF Recompute
<1>4. Modest(more) /\ \A g \in DOMAIN summaries : summaries[g] \subseteq more[g]
  BY <1>1, <1>2, RecomputeModest
<1>5. Modest(summaries)'
  BY <1>2, <1>3, <1>4, ModestKept
<1>6. DOMAIN summaries' = DOMAIN summaries /\ todo' \subseteq DOMAIN summaries
  BY <1>3 DEF IInv, Progress, Recompute
<1>7. PICK e \in looked_at \cap Functions :
        /\ DOMAIN summaries = {g \in Within(e) : Known(g)}
        /\ \A d \in looked_at \ {e} : Covered(d)
  BY DEF IInv, Progress, Recompute
<1>8. DOMAIN summaries' = {g \in Within(e)' : Known(g)'}
  BY <1>2, <1>6, <1>7, CrateKept
<1>9. \A d \in looked_at' \ {e} : Covered(d)'
  BY <1>2, <1>7, CoveredKept
<1> QED BY <1>1, <1>2, <1>3, <1>4, <1>5, <1>6, <1>7, <1>8, <1>9 DEF IInv, Progress

LEMMA RoundStep ==
  ASSUME IInv, NextRound
  PROVE  IInv'
<1>1. Gathered' /\ Gathered
  BY GatheredKept DEF IInv, NextRound, Gathered
<1>2. /\ Modest(summaries) /\ pc' = "fixpoint" /\ todo' = DOMAIN summaries
      /\ UNCHANGED <<program, bodies, looked_at, reported, summaries>>
  BY DEF IInv, Progress, NextRound, crate
<1>3. Modest(summaries)'
  BY <1>2, ModestKept
<1>4. PICK e \in looked_at \cap Functions :
        /\ DOMAIN summaries = {g \in Within(e) : Known(g)}
        /\ \A d \in looked_at \ {e} : Covered(d)
  BY DEF IInv, Progress, NextRound
<1>5. DOMAIN summaries' = {g \in Within(e)' : Known(g)'}
  BY <1>2, <1>4, CrateKept
<1>6. \A d \in looked_at' \ {e} : Covered(d)'
  BY <1>2, <1>4, CoveredKept
<1> QED BY <1>1, <1>2, <1>3, <1>4, <1>5, <1>6 DEF IInv, Progress

LEMMA SinksStep ==
  ASSUME IInv, LintSinks
  PROVE  IInv'
<1>1. Gathered' /\ Gathered
  BY GatheredKept DEF IInv, LintSinks, Gathered
<1>2. /\ Modest(summaries) /\ pc' = "entries" /\ reported' = reported \cup Sinks
      /\ UNCHANGED <<program, bodies, looked_at>>
  BY DEF IInv, Progress, LintSinks, crate
<1>3. PICK e \in looked_at \cap Functions :
        /\ DOMAIN summaries = {g \in Within(e) : Known(g)}
        /\ \A d \in looked_at \ {e} : Covered(d)
  BY DEF IInv, Progress, LintSinks
<1>4. Covered(e)'
  BY <1>1, <1>2, <1>3, SinksCover
<1>5. \A d \in looked_at \ {e} : Covered(d)'
  BY <1>2, <1>3, CoveredKept
<1> QED BY <1>1, <1>2, <1>4, <1>5 DEF IInv, Progress

LEMMA NoMoreStep ==
  ASSUME IInv, NoMoreEntries
  PROVE  IInv'
<1>1. Gathered' /\ Gathered /\ CrateSeen
  BY GatheredKept DEF IInv, NoMoreEntries, Gathered, CrateSeen
<1>2. /\ pc = "entries" /\ pc' = "done" /\ UNCHANGED <<program, bodies, looked_at, reported>>
      /\ \A f \in Functions : IsSorobanFunction(f) => f \in looked_at
  BY DEF NoMoreEntries, crate, fixpoint
<1>3. \A d \in looked_at : Covered(d)'
  BY <1>2, CoveredKept DEF IInv, Progress
<1>4. \A f \in Functions : Entry(f)' /\ Known(f)' => f \in looked_at
  <2>1. \A f \in Functions : Entry(f) /\ Known(f) => f \in looked_at
    BY <1>1, <1>2, EntriesKnown DEF Known
  <2> QED BY <1>2, <2>1, CrateKept
<1> QED BY <1>1, <1>2, <1>3, <1>4 DEF IInv, Progress

LEMMA Stutter ==
  ASSUME IInv, UNCHANGED vars
  PROVE  IInv'
<1>1. Gathered'
  BY GatheredKept DEF IInv, vars, Gathered
<1>2. UNCHANGED <<program, bodies, pc, looked_at, summaries, todo, reported>>
  BY DEF vars, crate, fixpoint
<1>3. \A d : Covered(d) => Covered(d)'
  BY <1>2, CoveredKept
<1>4. Modest(summaries) => Modest(summaries)'
  BY <1>2, ModestKept
<1>5. \A e : {g \in Within(e)' : Known(g)'} = {g \in Within(e) : Known(g)}
  BY <1>2, CrateKept
<1>6. \A f : Entry(f)' /\ Known(f)' => Entry(f) /\ Known(f)
  BY <1>2, CrateKept
<1>7. Progress'
  BY <1>2, <1>3, <1>4, <1>5, <1>6 DEF IInv, Progress
<1> QED BY <1>1, <1>7 DEF IInv

-----------------------------------------------------------------------------
LEMMA Invariance == Spec => []IInv
<1>1. Init => IInv
  BY GatheredFirst DEF Init, IInv, Progress
<1>2. IInv /\ [Next]_vars => IInv'
  BY VisitStep, ShownStep, StartStep, RecomputeStep, RoundStep, SinksStep, NoMoreStep, Stutter
  DEF Next
<1> QED BY <1>1, <1>2, PTL DEF Spec

\* Every new admin that an execution from an entry point stores without it or the current
\* one having signed is reported, for every crate and every order.
THEOREM NoneLacking == Spec => []NoSinkMissed
<1>1. IInv => NoSinkMissed
  <2> SUFFICES ASSUME IInv, pc = "done", NEW f \in Functions, NEW b \in Blocks,
                      Entered(f), Lacking(f, b)
               PROVE  <<f, b>> \in reported
    BY DEF NoSinkMissed, Lacking
  <2>1. PICK e \in Functions : Known(e) /\ Entry(e) /\ f \in Within(e)
    BY DEF Entered
  <2>2. e \in looked_at /\ Covered(e)
    BY <2>1 DEF IInv, Progress
  <2> QED BY <2>1, <2>2 DEF Covered, Entered
<1> QED BY <1>1, Invariance, PTL

\* No summary is taken back while an entry point is analysed.
THEOREM NoneTakenBack == Spec => SummariesGrow
<1> DEFINE Grows == pc = "fixpoint" /\ pc' = "fixpoint" =>
                      \A f \in DOMAIN summaries : summaries[f] \subseteq summaries'[f]
<1>1. IInv /\ [Next]_vars => [Grows]_vars
  <2> SUFFICES ASSUME IInv, Next, pc = "fixpoint", pc' = "fixpoint",
                      NEW f \in DOMAIN summaries
               PROVE  summaries[f] \subseteq summaries'[f]
    OBVIOUS
  <2>1. ASSUME NEW g \in Functions, Recompute(g)
        PROVE  summaries[f] \subseteq summaries'[f]
    BY <2>1, RecomputeStep
  <2>2. CASE NextRound
    BY <2>2 DEF NextRound
  <2>3. (\E g \in Functions : Recompute(g)) \/ NextRound
    BY DEF Next, Visit, CrateShown, StartEntry, LintSinks, NoMoreEntries
  <2> QED BY <2>1, <2>2, <2>3
<1> QED BY <1>1, Invariance, PTL DEF Spec, SummariesGrow

-----------------------------------------------------------------------------
(* What is reported has a reason.  The summaries of a fixpoint leave out only *)
(* what may come back unasked if panics and circles of calls are doubted; and *)
(* where there are none, only what executions do.                            *)

\* Of what f calls on, something panics or leads back to itself.
Trouble(f) == \E g \in Below(f) : InCircle(g) \/ PanicsUnasked(g, Doubted)

Explained(f, b) ==
  Entered(f) /\ Missing(f, b, Doubted) /\ (Lacking(f, b) \/ Trouble(f))

\* The calls in the blocks of a function are among its calls.
CallsNamed ==
  \A f \in Functions, b \in Blocks :
    bodies[f].does[b].does = "call" => bodies[f].does[b].callee \in program[f].calls

CleanupsDrop ==
  \A f \in Functions, b \in Blocks :
    /\ bodies[f].unwind[b] \in bodies[f].cleanups \cup {NoBlock}
    /\ b \in bodies[f].cleanups =>
         /\ Edges(f, b) \subseteq bodies[f].cleanups
         /\ bodies[f].does[b].does # "set"
         /\ bodies[f].successors[b] = {} => Panics(f, b)

\* Summaries that computing them anew leaves as they are, but for those of some functions.
Stable(known, but) == \A f \in DOMAIN known \ but : known[f] = Summary(f, known)

\* A round that has changed nothing leaves stable what it has looked at.
Explaining ==
  /\ CallsNamed /\ CleanupsDrop
  /\ looked_at \subseteq {e \in Functions : Entry(e)}
  /\ pc = "fixpoint" /\ ~changed => Stable(summaries, todo)
  /\ \A c \in reported : Explained(c[1], c[2])

LEMMA SilentClosed == Silenced(Silent, FALSE) \subseteq Silent
<1> DEFINE Top == Functions \X Admins
           most == Silenced(Top, FALSE)
<1>1. most \subseteq Top /\ Silent \subseteq most
  BY DEF Silenced, Silent
<1>2. Silenced(Silent, FALSE) \subseteq most
  BY <1>1, SilencedMonotone
<1>3. ASSUME NEW R \in SUBSET most, Silenced(R, FALSE) \subseteq R
      PROVE  Silenced(Silent, FALSE) \subseteq R
  <2>1. Silent \subseteq R
    BY <1>3 DEF Silent
  <2> QED BY <1>3, <2>1, SilencedMonotone
<1> QED BY <1>2, <1>3 DEF Silent

LEMMA DoubtedMost ==
  ASSUME NEW R, R \subseteq Functions \X Admins, R \subseteq Silenced(R, TRUE)
  PROVE  R \subseteq Doubted
<1>1. Silenced(R, TRUE) \subseteq Silenced(Functions \X Admins, TRUE)
  BY SilencedMonotone
<1> QED BY <1>1 DEF Doubted

LEMMA CallsTyped ==
  ASSUME Gathered, NEW f \in Functions
  PROVE  program[f].calls \subseteq Functions
BY DEF Gathered, ProgramType

LEMMA WithinFacts ==
  ASSUME NEW f \in Functions
  PROVE  /\ f \in Within(f) /\ Within(f) \subseteq Functions
         /\ \A x \in Within(f), y \in Functions : Follows(x, y) => y \in Within(f)
         /\ \A g \in Within(f) : Within(g) \subseteq Within(f)
         /\ ~Known(f) => Within(f) = {f}
<1>1. f \in Within(f) /\ Within(f) \subseteq Functions
  BY DEF Within
<1>2. \A x \in Within(f), y \in Functions : Follows(x, y) => y \in Within(f)
  BY DEF Within
<1>3. \A g \in Within(f) : Within(g) \subseteq Within(f)
  BY <1>1, <1>2 DEF Within
<1>4. ASSUME ~Known(f)
      PROVE  Within(f) \subseteq {f}
  <2>1. {f} \in SUBSET Functions /\ \A x \in {f}, y \in Functions : Follows(x, y) => y \in {f}
    BY <1>4 DEF Follows
  <2> QED BY <2>1 DEF Within
<1> QED BY <1>1, <1>2, <1>3, <1>4

\* Where the callees come back unasked whenever their summaries do not promise otherwise,
\* what the summaries leave unauthorized is unasked.
LEMMA Unpromised ==
  ASSUME Gathered, CallsNamed, NEW e \in Functions, NEW known,
         DOMAIN known = {f \in Within(e) : Known(f)}, NEW f \in DOMAIN known, NEW x \in Admins,
         NEW R, \A g \in DOMAIN known : Follows(f, g) =>
                  \A y \in Admins \ known[g] : <<g, y>> \in R
  PROVE  /\ \A b \in Blocks : CallReturn(f, b, x, known) \/ KeepsSilent(f, b, x, R)
         /\ Unauthorized(f, x, known) \subseteq Unasked(f, x, R, TRUE)
<1>1. f \in Within(e) /\ f \in Functions /\ Known(f)
  BY WithinFacts
<1>2. ASSUME NEW b \in Blocks, ~CallReturn(f, b, x, known)
      PROVE  KeepsSilent(f, b, x, R)
  <2> DEFINE c == bodies[f].does[b]
  <2> SUFFICES ASSUME c.does = "call", Known(c.callee)
               PROVE  /\ x = Current => <<c.callee, Current>> \in R
                      /\ \A y \in Params : <<y, x>> \in c.args => <<c.callee, y>> \in R
    BY DEF KeepsSilent
  <2>1. c.callee \in program[f].calls
    BY <1>1 DEF CallsNamed
  <2>2. c.callee \in Functions
    BY <1>1, <2>1, CallsTyped
  <2>3. Follows(f, c.callee)
    BY <1>1, <2>1 DEF Follows, Calls, Known
  <2>4. c.callee \in DOMAIN known
    BY <1>1, <2>2, <2>3, WithinFacts
  <2>5. \A y \in Admins \ known[c.callee] : <<c.callee, y>> \in R
    BY <2>3, <2>4
  <2>6. /\ ~(x = Current /\ Current \in known[c.callee])
        /\ \A y \in Params : <<y, x>> \in c.args => y \notin known[c.callee]
    BY <1>2, <2>4 DEF CallReturn
  <2> QED BY <2>5, <2>6 DEF Admins
<1>3. \A b \in Blocks : Propagates(f, b, x, known) \subseteq GoesOn(f, b, x, R, TRUE)
  BY <1>2 DEF Propagates, GoesOn
<1> QED BY <1>2, <1>3 DEF Unauthorized, Unasked

\* Then no panic is needed to come to a block that is no cleanup.
LEMMA NoPanicNeeded ==
  ASSUME Gathered, CleanupsDrop, NEW f \in Functions, NEW x, NEW known, NEW R,
         \A b \in Blocks : CallReturn(f, b, x, known) \/ KeepsSilent(f, b, x, R),
         NEW b \in Unauthorized(f, x, known), b \notin bodies[f].cleanups
  PROVE  b \in Unasked(f, x, R, FALSE)
<1> DEFINE C == bodies[f].cleanups
<1> SUFFICES ASSUME NEW S \in SUBSET (Blocks \ {b}), First \in S
             PROVE  \E c \in S : ~(GoesOn(f, c, x, R, FALSE) \subseteq S)
  BY DEF Unasked, Unauthorized
<1>1. C \subseteq Blocks
  BY DEF Gathered, BodyType
<1>2. PICK c \in S \cup C : ~(Propagates(f, c, x, known) \subseteq S \cup C)
  BY <1>1 DEF Unauthorized
<1>3. c \in Blocks /\ Unwinds(f, c) \subseteq C
  BY <1>1 DEF CleanupsDrop, Unwinds
<1>4. c \notin C
  <2>1. c \in C => Edges(f, c) \subseteq C
    BY <1>3 DEF CleanupsDrop
  <2> QED BY <1>2, <1>3, <2>1 DEF Propagates
<1>5. ~AuthEvent(f, c, x) /\ ~CallReturn(f, c, x, known) /\ ~(Edges(f, c) \subseteq S)
  BY <1>2, <1>3 DEF Propagates
<1>6. ~(GoesOn(f, c, x, R, FALSE) \subseteq S)
  BY <1>3, <1>5 DEF GoesOn
<1> QED BY <1>2, <1>4, <1>6

\* Where no functions call one another in a circle, callees lead to less.
LEMMA WithinShrinks ==
  ASSUME NEW f \in Functions, ~InCircle(f), NEW g \in Functions, Follows(f, g)
  PROVE  <<Within(g), Within(f)>> \in StrictSubsetOrdering(Functions)
<1>1. f \notin Within(g)
  BY DEF InCircle, Below
<1>2. g \in Within(f)
  BY WithinFacts
<1>3. Within(g) \subseteq Within(f) /\ f \in Within(f) /\ Within(f) \subseteq Functions
  BY <1>2, WithinFacts
<1> QED BY <1>1, <1>3 DEF StrictSubsetOrdering

LEMMA BelowFacts ==
  ASSUME NEW f \in Functions
  PROVE  /\ Below(f) \subseteq Within(f) /\ Below(f) \subseteq Functions
         /\ \A g \in Functions : Follows(f, g) => g \in Below(f)
         /\ \A g \in Below(f), h \in Functions : Follows(g, h) => h \in Below(f)
<1>1. ASSUME NEW h \in Functions, Follows(f, h)
      PROVE  h \in Within(h) /\ h \in Within(f) /\ Within(h) \subseteq Within(f) /\ Within(h) \subseteq Functions
  BY <1>1, WithinFacts
<1>2. ASSUME NEW g \in Below(f), NEW h \in Functions, Follows(g, h)
      PROVE  h \in Below(f)
  <2>1. PICK k \in Functions : Follows(f, k) /\ g \in Within(k)
    BY <1>2 DEF Below
  <2>2. h \in Within(k)
    BY <1>2, <2>1, WithinFacts
  <2> QED BY <2>1, <2>2 DEF Below
<1>3. /\ Below(f) \subseteq Within(f) /\ Below(f) \subseteq Functions
      /\ \A g \in Functions : Follows(f, g) => g \in Below(f)
  BY <1>1 DEF Below
<1> QED BY <1>2, <1>3

\* What the summaries of a fixpoint do not promise may come back unasked for all that
\* the ends of functions show.
LEMMA StableDoubted ==
  ASSUME Gathered, CallsNamed, NEW e \in Functions, NEW known,
         DOMAIN known = {f \in Within(e) : Known(f)}, Stable(known, {}),
         NEW f \in DOMAIN known, NEW x \in Admins \ known[f]
  PROVE  <<f, x>> \in Doubted
<1> DEFINE R == {s \in Functions \X Admins : s[1] \in DOMAIN known /\ s[2] \notin known[s[1]]}
<1>1. DOMAIN known \subseteq Functions /\ \A g \in DOMAIN known : Known(g)
  BY WithinFacts
<1>2. ASSUME NEW g \in DOMAIN known, NEW y \in Admins \ known[g]
      PROVE  <<g, y>> \in Silenced(R, TRUE)
  <2>1. known[g] = Summary(g, known) /\ g \in Functions /\ Known(g)
    BY <1>1 DEF Stable
  <2>2. CASE y \notin Tracked(g)
    BY <2>1, <2>2 DEF Silenced
  <2>3. CASE y \in Tracked(g)
    <3>1. PICK b \in Unauthorized(g, y, known) : SummaryExit(g, b) /\ ~AuthEvent(g, b, y)
      BY <2>1, <2>3 DEF Summary
    <3>2. \A h \in DOMAIN known : \A z \in Admins \ known[h] : <<h, z>> \in R
      BY <1>1
    <3> HIDE DEF R
    <3>3. Unauthorized(g, y, known) \subseteq Unasked(g, y, R, TRUE)
      BY <3>2, Unpromised
    <3>4. b \in UnaskedEnds(g, y, R, TRUE)
      BY <3>1, <3>3 DEF UnaskedEnds
    <3> QED BY <2>1, <3>4 DEF Silenced
  <2> QED BY <2>2, <2>3
<1>3. R \subseteq Silenced(R, TRUE)
  <2>1. \A s \in R : s[1] \in DOMAIN known /\ s[2] \in Admins \ known[s[1]] /\ s = <<s[1], s[2]>>
    OBVIOUS
  <2> DEFINE Q == Silenced(R, TRUE)
  <2> HIDE DEF R, Q
  <2>2. \A g \in DOMAIN known : \A y \in Admins \ known[g] : <<g, y>> \in Q
    BY <1>2 DEF Q
  <2>3. ASSUME NEW s \in R
        PROVE  s \in Q
    <3>1. <<s[1], s[2]>> \in Q
      BY <2>1, <2>2
    <3> QED BY <2>1, <3>1
  <2> QED BY <2>3 DEF Q
<1>4. R \subseteq Doubted
  BY <1>3, DoubtedMost
<1> QED BY <1>1, <1>4

\* Where nothing below f panics or goes round in a circle, it does come back unasked.
LEMMA StableSilent ==
  ASSUME Gathered, CallsNamed, CleanupsDrop, NEW e \in Functions, NEW known,
         DOMAIN known = {f \in Within(e) : Known(f)}, Stable(known, {}),
         NEW f \in DOMAIN known, ~Trouble(f),
         NEW g \in DOMAIN known \cap Below(f), NEW x \in Admins \ known[g]
  PROVE  <<g, x>> \in Silent
<1> DEFINE D == DOMAIN known \cap Below(f)
           Right(h) == \A y \in Admins \ known[h] : <<h, y>> \in Silent
           Wrong == {h \in D : ~Right(h)}
           T == {Within(h) : h \in Wrong}
           Order == StrictSubsetOrdering(Functions)
<1>1. DOMAIN known \subseteq Functions /\ (\A h \in DOMAIN known : Known(h)) /\ f \in Functions
  BY WithinFacts
<1>2. ASSUME NEW h \in D, \A k \in D : Follows(h, k) => Right(k)
      PROVE  Right(h)
  <2> SUFFICES ASSUME NEW y \in Admins \ known[h]
               PROVE  <<h, y>> \in Silenced(Silent, FALSE)
    BY SilentClosed
  <2>1. known[h] = Summary(h, known) /\ h \in Functions /\ Known(h)
    BY <1>1 DEF Stable
  <2>2. CASE y \notin Tracked(h)
    BY <2>1, <2>2 DEF Silenced
  <2>3. CASE y \in Tracked(h)
    <3>1. PICK b \in Unauthorized(h, y, known) : SummaryExit(h, b) /\ ~AuthEvent(h, b, y)
      BY <2>1, <2>3 DEF Summary
    <3>2. Unauthorized(h, y, known) \subseteq Unasked(h, y, Doubted, TRUE)
      <4>1. \A k \in DOMAIN known : \A z \in Admins \ known[k] : <<k, z>> \in Doubted
        BY StableDoubted
      <4> QED BY <4>1, Unpromised
    <3>3. ~Panics(h, b)
      <4>1. b \in UnaskedEnds(h, y, Doubted, TRUE)
        BY <3>1, <3>2 DEF UnaskedEnds
      <4> QED BY <2>1, <2>3, <4>1 DEF Trouble, PanicsUnasked
    <3>4. b \in Blocks /\ b \notin bodies[h].cleanups
      BY <2>1, <3>1, <3>3 DEF CleanupsDrop, SummaryExit, Unauthorized
    <3>5. \A k \in DOMAIN known : Follows(h, k) => \A z \in Admins \ known[k] : <<k, z>> \in Silent
      BY <1>1, <1>2, BelowFacts
    <3>6. \A c \in Blocks : CallReturn(h, c, y, known) \/ KeepsSilent(h, c, y, Silent)
      BY <3>5, Unpromised
    <3>7. b \in Unasked(h, y, Silent, FALSE)
      BY <2>1, <3>1, <3>4, <3>6, NoPanicNeeded
    <3>8. b \in UnaskedEnds(h, y, Silent, FALSE)
      BY <3>1, <3>7 DEF UnaskedEnds
    <3> QED BY <2>1, <3>3, <3>8 DEF Silenced
  <2> QED BY <2>2, <2>3
<1>3. ASSUME Wrong # {}
      PROVE  FALSE
  <2>1. T \subseteq FiniteSubsetsOf(Functions) /\ T # {}
    <3>1. \A h \in Wrong : Within(h) \in SUBSET Functions
      BY <1>1, WithinFacts
    <3>2. FiniteSubsetsOf(Functions) = SUBSET Functions
      BY FunctionsAssumption, FS_FiniteSubsetsOfFinite
    <3> QED BY <1>3, <3>1, <3>2
  <2>2. IsWellFoundedOn(Order, FiniteSubsetsOf(Functions))
    BY FS_StrictSubsetOrderingWellFounded
  <2>3. \E least \in T : \A t \in T : ~(<<t, least>> \in Order)
    <3> HIDE DEF T, Order
    <3> QED BY <2>1, <2>2, WFMin
  <2>4. PICK h \in Wrong : \A k \in Wrong : <<Within(k), Within(h)>> \notin Order
    BY <2>3
  <2>5. h \in Functions /\ ~InCircle(h)
    BY <1>1, <2>4 DEF Trouble
  <2>6. \A k \in D : Follows(h, k) => Right(k)
    BY <1>1, <2>4, <2>5, WithinShrinks
  <2> QED BY <1>2, <2>4, <2>6
<1> QED BY <1>3

\* At a fixpoint every sink is explained.
LEMMA SinksExplained ==
  ASSUME Gathered, CallsNamed, CleanupsDrop, NEW e \in Functions, Entry(e), NEW known,
         DOMAIN known = {f \in Within(e) : Known(f)}, Stable(known, {}),
         NEW f \in DOMAIN known, NEW b \in UnsafeSinks(f, known)
  PROVE  Explained(f, b)
<1>1. f \in Functions /\ f \in Within(e) /\ Known(f) /\ b \in Blocks
  BY WithinFacts DEF UnsafeSinks
<1>2. Entered(f)
  <2>1. Known(e)
    BY <1>1, WithinFacts
  <2> QED BY <1>1, <2>1 DEF Entered
<1>3. bodies[f].does[b].who \in Admins /\ Current \in Admins /\ b \notin bodies[f].cleanups
  BY <1>1, EventsTyped DEF Admins, UnsafeSinks, CleanupsDrop
<1>4. ASSUME NEW R, \A g \in DOMAIN known : Follows(f, g) =>
                      \A y \in Admins \ known[g] : <<g, y>> \in R
      PROVE  Missing(f, b, R)
  <2>1. ASSUME NEW x \in Admins, b \in Unauthorized(f, x, known)
        PROVE  b \in Unasked(f, x, R, FALSE)
    <3>1. \A c \in Blocks : CallReturn(f, c, x, known) \/ KeepsSilent(f, c, x, R)
      BY <1>4, Unpromised
    <3> QED BY <1>1, <1>3, <2>1, <3>1, NoPanicNeeded
  <2> QED BY <1>3, <2>1 DEF UnsafeSinks, Missing
<1>5. Missing(f, b, Doubted)
  <2>1. \A g \in DOMAIN known : \A y \in Admins \ known[g] : <<g, y>> \in Doubted
    BY StableDoubted
  <2> QED BY <1>4, <2>1
<1>6. ASSUME ~Trouble(f)
      PROVE  Lacking(f, b)
  <2>1. \A g \in DOMAIN known \cap Below(f) : \A y \in Admins \ known[g] : <<g, y>> \in Silent
    BY <1>6, StableSilent
  <2>2. \A g \in DOMAIN known : Follows(f, g) => \A y \in Admins \ known[g] : <<g, y>> \in Silent
    BY <1>1, <2>1, BelowFacts, WithinFacts
  <2> QED BY <1>4, <2>2 DEF Lacking
<1> QED BY <1>2, <1>5, <1>6 DEF Explained

\* A reason stays one, and a summary computed anew is the same, while the crate is.
LEMMA ExplainedKept ==
  ASSUME UNCHANGED <<program, bodies>>
  PROVE  /\ CallsNamed' <=> CallsNamed
         /\ \A f : Entry(f)' <=> Entry(f)
         /\ CleanupsDrop' <=> CleanupsDrop
         /\ \A f, b : Explained(f, b)' <=> Explained(f, b)
<1>1. \A f : /\ Known(f)' <=> Known(f)
             /\ Entry(f)' <=> Entry(f)
             /\ Within(f)' = Within(f)
             /\ Doubted' = Doubted
             /\ \A b : Lacking(f, b)' <=> Lacking(f, b)
             /\ \A b, silent : Missing(f, b, silent)' <=> Missing(f, b, silent)
             /\ \A x, silent, p : UnaskedEnds(f, x, silent, p)' = UnaskedEnds(f, x, silent, p)
  BY CrateKept
<1>2. \A f, g : Follows(f, g)' <=> Follows(f, g)
  BY DEF Follows, Calls, Known, IsInitializeFn
<1>3. \A f : Below(f)' = Below(f) /\ (InCircle(f)' <=> InCircle(f))
  BY <1>1, <1>2 DEF Below, InCircle
<1>4. \A f, doubted : PanicsUnasked(f, doubted)' <=> PanicsUnasked(f, doubted)
  <2>1. \A f : Tracked(f)' = Tracked(f) /\ \A b : Panics(f, b)' <=> Panics(f, b)
    BY DEF Tracked, Panics
  <2> QED BY <1>1, <2>1 DEF PanicsUnasked
<1>5. \A f : Trouble(f)' <=> Trouble(f)
  <2>1. \A g : (InCircle(g) \/ PanicsUnasked(g, Doubted))' <=> InCircle(g) \/ PanicsUnasked(g, Doubted)
    <3>1. \A g : PanicsUnasked(g, Doubted)' <=> PanicsUnasked(g, Doubted)
      BY <1>1, <1>4 DEF PanicsUnasked
    <3> QED BY <1>3, <3>1
  <2> QED BY <1>3, <2>1 DEF Trouble
<1>6. \A f, b : Missing(f, b, Doubted)' <=> Missing(f, b, Doubted)
  BY <1>1 DEF Missing
<1>7. \A f : Entered(f)' <=> Entered(f)
  BY <1>1 DEF Entered
<1>8. (CallsNamed' <=> CallsNamed) /\ (CleanupsDrop' <=> CleanupsDrop)
  BY DEF CallsNamed, CleanupsDrop, Edges, Panics
<1> QED BY <1>1, <1>5, <1>6, <1>7, <1>8 DEF Explained

LEMMA SummaryKept ==
  ASSUME UNCHANGED <<program, bodies, summaries>>
  PROVE  \A f : Summary(f, summaries)' = Summary(f, summaries)
<1>1. \A f : Tracked(f)' = Tracked(f)
  BY DEF Tracked
<1>2. \A f, c, x : Propagates(f, c, x, summaries)' = Propagates(f, c, x, summaries)
  <2>1. \A f, c, x : /\ CallReturn(f, c, x, summaries)' <=> CallReturn(f, c, x, summaries)
                     /\ AuthEvent(f, c, x)' <=> AuthEvent(f, c, x)
                     /\ Edges(f, c)' = Edges(f, c) /\ Unwinds(f, c)' = Unwinds(f, c)
    BY DEF AuthEvent, CallReturn, Edges, Unwinds
  <2> QED BY <2>1 DEF Propagates
<1>3. \A f, x : Unauthorized(f, x, summaries)' = Unauthorized(f, x, summaries)
  <2> SUFFICES ASSUME NEW f, NEW x PROVE Unauthorized(f, x, summaries)' = Unauthorized(f, x, summaries)
    OBVIOUS
  <2>1. \A S : (\E c \in S : ~(Propagates(f, c, x, summaries)' \subseteq S))
              <=> \E c \in S : ~(Propagates(f, c, x, summaries) \subseteq S)
    BY <1>2
  <2> QED BY <2>1 DEF Unauthorized
<1>4. \A f, x, b : (SummaryExit(f, b)' => AuthEvent(f, b, x)')
                    <=> (SummaryExit(f, b) => AuthEvent(f, b, x))
  BY DEF SummaryExit, Unwinds, AuthEvent
<1> QED BY <1>1, <1>3, <1>4 DEF Summary

LEMMA ExplainingFirst == Init => Explaining
<1> SUFFICES ASSUME Init PROVE Explaining
  OBVIOUS
<1>1. PICK c \in Cases : program = c[1] /\ bodies = c[2]
  BY DEF Init
<1>2. CallsNamed
  BY <1>1, CallsAssumption DEF CallsNamed
<1>3. CleanupsDrop
  BY <1>1, CleanupsAssumption DEF CleanupsDrop, Edges, Panics
<1> QED BY <1>2, <1>3 DEF Explaining, Init

LEMMA ExplainingStep ==
  ASSUME IInv, Explaining, [Next]_vars
  PROVE  Explaining'
<1>1. UNCHANGED <<program, bodies>>
  BY DEF Next, vars, crate, Visit, CheckFn, CrateShown, StartEntry, Recompute, NextRound, LintSinks,
         NoMoreEntries
<1>2. /\ CallsNamed' /\ CleanupsDrop'
      /\ \A f : Entry(f)' <=> Entry(f)
      /\ \A c \in reported : Explained(c[1], c[2])'
  BY <1>1, ExplainedKept DEF Explaining
<1>3. ASSUME UNCHANGED <<looked_at, reported>>, Stable(summaries, todo)' \/ pc' # "fixpoint"
      PROVE  Explaining'
  BY <1>2, <1>3 DEF Explaining
<1>4. ASSUME NEW f \in Functions, StartEntry(f)
      PROVE  Explaining'
  <2>1. looked_at' = looked_at \cup {f} /\ reported' = reported /\ todo' = DOMAIN summaries'
    BY <1>4 DEF StartEntry
  <2>2. Entry(f)
    <3>1. Gathered /\ CrateSeen
      BY <1>4 DEF IInv, Gathered, StartEntry, CrateSeen
    <3> QED BY <1>4, <3>1, EntriesKnown DEF StartEntry
  <2> QED BY <1>2, <2>1, <2>2 DEF Explaining, Stable
<1>5. ASSUME NEW f \in Functions, Recompute(f)
      PROVE  Explaining'
  <2>1. /\ pc = "fixpoint" /\ UNCHANGED <<looked_at, reported>> /\ todo' = todo \ {f}
        /\ summaries' = [summaries EXCEPT ![f] = Summary(f, summaries)]
        /\ changed' = (changed \/ summaries' # summaries)
    BY <1>5 DEF Recompute
  <2>2. ASSUME ~changed'
        PROVE  Stable(summaries, todo)'
    <3>1. ~changed /\ summaries' = summaries
      BY <2>1, <2>2
    <3>2. \A g : Summary(g, summaries)' = Summary(g, summaries)
      BY <1>1, <3>1, SummaryKept
    <3>3. f \in DOMAIN summaries => summaries[f] = Summary(f, summaries)
      BY <2>1, <3>1
    <3>4. \A g \in DOMAIN summaries \ todo : summaries[g] = Summary(g, summaries)
      BY <2>1, <3>1 DEF Explaining, Stable
    <3> QED BY <2>1, <3>1, <3>2, <3>3, <3>4 DEF Stable
  <2> QED BY <1>2, <2>1, <2>2 DEF Explaining
<1>6. CASE NextRound
  BY <1>3, <1>6 DEF NextRound, Stable
<1>7. CASE LintSinks
  <2>1. /\ pc = "fixpoint" /\ pc' = "entries" /\ UNCHANGED looked_at
        /\ reported' = reported \cup Sinks /\ Stable(summaries, {})
    BY <1>7 DEF LintSinks, Explaining
  <2>2. PICK e \in looked_at \cap Functions : DOMAIN summaries = {f \in Within(e) : Known(f)}
    BY <2>1 DEF IInv, Progress
  <2>3. Gathered /\ CallsNamed /\ CleanupsDrop /\ Entry(e)
    BY <2>2 DEF IInv, Explaining
  <2>4. \A c \in Sinks : Explained(c[1], c[2])
    BY <2>1, <2>2, <2>3, SinksExplained DEF Sinks
  <2>5. \A c \in Sinks : Explained(c[1], c[2])'
    BY <1>1, <2>4, ExplainedKept
  <2> QED BY <1>2, <2>1, <2>5 DEF Explaining
<1>8. CASE (\E i \in Items : Visit(i)) \/ CrateShown \/ NoMoreEntries
  BY <1>3, <1>8 DEF Visit, CrateShown, NoMoreEntries
<1>9. CASE UNCHANGED vars
  <2>1. UNCHANGED <<looked_at, reported, pc, changed, todo, summaries>>
    BY <1>9 DEF vars, fixpoint
  <2>2. \A f : Summary(f, summaries)' = Summary(f, summaries)
    BY <1>1, <2>1, SummaryKept
  <2> QED BY <1>2, <2>1, <2>2 DEF Explaining, Stable
<1> QED BY <1>4, <1>5, <1>6, <1>7, <1>8, <1>9 DEF Next

\* Every report has a reason, for every crate and every order: an execution that comes to
\* it unasked, if what its function calls comes back unasked where it panics before it
\* asked, or calls in a circle; and it is one that really does unless something does so.
THEOREM AlarmsHaveReasons == Spec => []AlarmsExplained
<1>1. Explaining => AlarmsExplained
  BY DEF Explaining, AlarmsExplained, Explained, Trouble, Lacking
<1>2. IInv /\ Explaining /\ [Next]_vars => Explaining'
  BY ExplainingStep
<1> QED BY <1>1, <1>2, ExplainingFirst, Invariance, PTL DEF Spec
=============================================================================
