--------------------------- MODULE CompilerOutput ---------------------------
(* What scout makes of the compiler's messages: which crates were analysed   *)
(* (scout/core/findings.rs), which findings are kept, and which of them the  *)
(* unnecessary_lint_allow detector cancels (scout/core/post_processing.rs).  *)
EXTENDS Integers, Sequences

CONSTANTS Packages,     \* the packages of the project, [id, name]
          DependantsOf, \* function: id of a package that is not the project's own ->
                        \* the ids that list_all_dependants answers for it
          AllowLint,    \* the lint unnecessary_lint_allow
          NoCode,       \* a message with no lint code
          NoSpan        \* a message with no (complete) span

-----------------------------------------------------------------------------
(* A name is a word, or two words joined by a dash or an underscore.         *)
Name == [word : STRING, sep : {"", "-", "_"}]

ASSUME NamesAssumption == \A p \in Packages : p.name \in Name

Underscored(n) == IF n.sep = "-" THEN [n EXCEPT !.sep = "_"] ELSE n

Dashed(n) == IF n.sep = "_" THEN [n EXCEPT !.sep = "-"] ELSE n

-----------------------------------------------------------------------------
(* A message is [reason, id, target, error, code, file, span, allows]: the   *)
(* package it comes from, the name of the target being compiled, whether it  *)
(* is an error, its lint, and where it points.  For AllowLint, allows is the *)
(* lint whose allow attribute is called unnecessary.                         *)
IsCompilerMessage(m) == m.reason = "compiler-message"

IsCompilerError(m) == IsCompilerMessage(m) /\ m.error

IsScoutFinding(m, detectors) == IsCompilerMessage(m) /\ m.code \in detectors

OwnIds == {p.id : p \in Packages}

\* The names a message says something about: its target's, or the names of the
\* project's packages that depend on a package outside the project.
Affected(m) ==
  IF m.id \in OwnIds THEN {m.target}
  ELSE {p.name : p \in {q \in Packages : q.id \in DependantsOf[m.id]}}

JudgeLast(verdicts, m) ==
  [n \in DOMAIN verdicts \cup Affected(m) |->
     IF n \notin Affected(m) THEN verdicts[n] ELSE ~IsCompilerError(m)]

\* get_crates_from_output, for one message.  A name that failed once stays failed.
Judge(verdicts, m) ==
  [n \in DOMAIN verdicts \cup Affected(m) |->
     IF n \notin Affected(m) \/ (n \in DOMAIN verdicts /\ ~verdicts[n])
     THEN verdicts[n] ELSE ~IsCompilerError(m)]

\* The verdicts that get_crates can make of those on names.  Two names can stand
\* for one crate, and they are merged in the iteration order of a hash map: the
\* last one wins.
Crates(verdicts) ==
  LET keys == {Underscored(p.name) : p \in Packages}
      said(k) == {verdicts[n] : n \in {n \in DOMAIN verdicts : Underscored(n) = k}}
  IN  {c \in [keys -> BOOLEAN] :
         \A k \in keys : c[k] \in IF said(k) = {} THEN {TRUE} ELSE said(k)}

SuccessfulIfKnown(crates, m) ==
  LET krate == Dashed(m.target)
  IN  krate \in DOMAIN crates /\ crates[krate]

\* split_findings looks a finding's crate up under its dashed name; a crate it
\* does not find counts as analysed.
Successful(crates, m) ==
  LET krate == Dashed(m.target)
  IN  krate \in DOMAIN crates => crates[krate]

\* A message that names no target.
Nameless(m) == m.target.word = ""

\* Findings are known by their positions among the messages; a nameless one is
\* dropped.
SplitFindings(messages, findings, crates) ==
  {i \in findings : ~Nameless(messages[i]) /\ Successful(crates, messages[i])}

-----------------------------------------------------------------------------
IsAllow(f) == f.code = AllowLint

\* parse_finding: a span, and for AllowLint a note to read the lint from.
Parsable(f) == f.span # NoSpan /\ (IsAllow(f) => f.allows # "unreadable")

SpansOverlap(s, t) == s[1] <= t[2] /\ t[1] <= s[2]

\* allow f is about finding g.
Covers(f, g) == /\ IsAllow(f) /\ ~IsAllow(g)
                /\ Parsable(f) /\ Parsable(g)
                /\ f.file = g.file
                /\ f.allows = g.code
                /\ SpansOverlap(f.span, g.span)

\* should_include_finding, for a cache of the successful findings.
ShouldInclude(f, cache) ==
  /\ Parsable(f)
  /\ IF IsAllow(f) THEN ~\E g \in cache : Covers(f, g)
                   ELSE ~\E g \in cache : Covers(g, f)

PostProcessFindings(messages, positions, successful) ==
  LET cache == {messages[i] : i \in successful}
  IN  {i \in positions : IsAllow(messages[i]) \/ ShouldInclude(messages[i], cache)}

PostProcess(messages, positions, successful) ==
  LET cache == {messages[i] : i \in successful}
  IN  {i \in positions : ShouldInclude(messages[i], cache)}
=============================================================================
