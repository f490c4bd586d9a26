------------------------------ MODULE ScoutRun ------------------------------
(* One `cargo scout-audit` process (run.rs): from the options to the exit    *)
(* code, with the FAIL file that --cicd asks for.                            *)
EXTENDS CompilerOutput, SequencesExt

CONSTANTS Requests,     \* the command lines a run may be given
          Alphabet,     \* the messages the compiler may emit
          MaxMessages,  \* bound: messages per run
          Faults,       \* the steps that may fail, "parse" and "kill"
          Unset         \* an option that is not given

ASSUME MaxMessagesAssumption == MaxMessages \in Nat

\* The command line does not take --filter and --exclude together.
ASSUME RequestsAssumption ==
  \A r \in Requests : r.filter # Unset => r.exclude = Unset

\* The formats are written one after another.
ASSUME FormatsAssumption ==
  \A r \in Requests : /\ r.formats \in Seq(STRING)
                      /\ r.config # Unset => r.config.formats \in Seq(STRING)

\* Targets are named the way packages are.
ASSUME AlphabetAssumption == \A m \in Alphabet : m.target \in Name

VARIABLES opts,         \* the command line and the project's configuration file
          pc,           \* the step being done, or the one the run ended in
          fail,         \* the FAIL file exists
          detectors,    \* the detectors selected
          messages,     \* what the compiler printed, line by line
          judged,       \* how many messages get_crates has read
          verdicts,     \* what they say: name -> compiled
          crates,       \* verdict per crate
          findings,     \* the positions of the findings to report
          stdout,       \* the positions of the messages kept for an editor
          todo,         \* the formats still to be written
          reports,      \* function: path -> [format, whole] of the file there
          exit          \* "running", "ok", "error" or "died"

(* opts is a record: mode is the first of the early-return flags that is     *)
(* set, or "audit"; cicd is Unset, "dir" (a directory in which the FAIL file  *)
(* can be made) or "nodir" (any other place); vscode says that the messages  *)
(* go to an editor; all are the detectors there are; filter and exclude are  *)
(* sets of detectors; formats and path describe the reports; config is the   *)
(* configuration file's contents.                                            *)
input == <<opts>>
found == <<messages, judged, verdicts, crates, findings, stdout>>
output == <<todo, reports>>

vars == <<input, pc, fail, detectors, found, output, exit>>

At(step) == pc = step /\ exit = "running"

Proceed(step) == pc' = step /\ UNCHANGED exit

Finish(how) == exit' = how /\ UNCHANGED pc

\* The step at hand may go wrong: run_scout returns the error.
MayFail(step) == step \in Faults /\ Finish("error")

-----------------------------------------------------------------------------
(* prepare_scout_input *)

Validate ==
  /\ At("validate")
  /\ Proceed("create_fail") \/ MayFail("validate")
  /\ UNCHANGED <<input, fail, detectors, found, output>>

\* An error of File::create is ignored: no file is made at "nodir".
CreateFail ==
  /\ At("create_fail")
  /\ fail' = (fail \/ opts.cicd = "dir")
  /\ Proceed("metadata")
  /\ UNCHANGED <<input, detectors, found, output>>

\* Cargo's metadata, the blockchain and the toolchain are read from the project.
ReadProject ==
  /\ At("metadata")
  /\ \/ opts.mode \in {"src_hash", "toolchain"} /\ Finish("ok")
     \/ opts.mode \notin {"src_hash", "toolchain"} /\ Proceed("config")
     \/ opts.mode # "src_hash" /\ MayFail("metadata")
  /\ UNCHANGED <<input, fail, detectors, found, output>>

Excluded == IF opts.config = Unset THEN {} ELSE opts.config.exclude

Formats == IF opts.config = Unset THEN opts.formats ELSE opts.config.formats

\* Telemetry and the update check fail silently.  The configuration file must
\* not exclude a detector that does not exist; its formats replace the others.
LoadConfig ==
  /\ At("config")
  /\ \/ /\ Excluded \subseteq opts.all
        /\ detectors' = opts.all \ Excluded
        /\ IF opts.mode = "list" THEN Finish("ok") ELSE Proceed("select")
     \/ /\ ~(Excluded \subseteq opts.all) \/ "config" \in Faults
        /\ Finish("error") /\ UNCHANGED detectors
  /\ UNCHANGED <<input, fail, found, output>>

\* --filter and --exclude, which the command line does not take together.
ChosenFromAll == IF opts.filter # Unset THEN opts.filter
                 ELSE IF opts.exclude # Unset THEN opts.all \ opts.exclude ELSE detectors

Chosen == IF opts.filter # Unset THEN opts.filter
          ELSE IF opts.exclude # Unset THEN detectors \ opts.exclude ELSE detectors

Known == opts.filter # Unset => opts.filter \subseteq detectors

\* --filter fails on a detector that is not available, --exclude ignores it.
Select ==
  /\ At("select")
  /\ \/ Known /\ detectors' = Chosen /\ Proceed("build")
     \/ ~Known /\ Finish("error") /\ UNCHANGED detectors
  /\ UNCHANGED <<input, fail, found, output>>

\* The detectors are built, and described by a helper process.
Build ==
  /\ At("build")
  /\ \/ IF opts.mode = "metadata" THEN Finish("ok") ELSE Proceed("dylint")
     \/ MayFail("build")
  /\ UNCHANGED <<input, fail, detectors, found, output>>

-----------------------------------------------------------------------------
(* run_scout *)

\* The compiler runs with the detectors that were selected.
Emit(m) ==
  /\ At("dylint") /\ Len(messages) < MaxMessages
  /\ m.code \in opts.all => m.code \in detectors
  /\ messages' = Append(messages, m)
  /\ UNCHANGED <<input, pc, fail, detectors, judged, verdicts,
                 crates, findings, stdout, output, exit>>

\* Whether the compilation succeeded is not looked at.
RunDylint ==
  /\ At("dylint")
  /\ Proceed("read") \/ MayFail("dylint")
  /\ UNCHANGED <<input, fail, detectors, found, output>>

\* Everything printed is read as JSON, line by line: a line that is not is a panic.
ReadOutput ==
  /\ At("read")
  /\ Proceed("judge") \/ ("parse" \in Faults /\ Finish("died"))
  /\ UNCHANGED <<input, fail, detectors, found, output>>

\* A message from outside the project needs the dependency graph, which may fail.
JudgeMessage ==
  /\ At("judge") /\ judged < Len(messages)
  /\ LET m == messages[judged + 1]
     IN  \/ /\ verdicts' = IF IsCompilerMessage(m) THEN Judge(verdicts, m) ELSE verdicts
            /\ judged' = judged + 1
            /\ Proceed("judge")
         \/ /\ IsCompilerMessage(m) /\ m.id \notin OwnIds
            /\ MayFail("graph")
            /\ UNCHANGED <<judged, verdicts>>
  /\ UNCHANGED <<input, fail, detectors, messages, crates, findings, stdout, output>>

Detected == {i \in DOMAIN messages : IsScoutFinding(messages[i], detectors)}

GetCrates ==
  /\ At("judge") /\ judged = Len(messages)
  /\ crates' \in Crates(verdicts)
  /\ findings' = SplitFindings(messages, Detected, crates')
  /\ Proceed("post")
  /\ UNCHANGED <<input, fail, detectors, messages, judged, verdicts, stdout, output>>

\* The unnecessary_lint_allow detector makes findings and messages filtered.
PostProcessing ==
  /\ At("post")
  /\ \/ /\ AllowLint \in detectors
        /\ findings' = PostProcess(messages, findings, findings)
        /\ stdout' = IF opts.vscode
                   THEN PostProcess(messages, DOMAIN messages, findings) ELSE {}
     \/ /\ AllowLint \notin detectors
        /\ stdout' = DOMAIN messages
        /\ UNCHANGED findings
  /\ Proceed("output")
  /\ UNCHANGED <<input, fail, detectors, messages, judged, verdicts, crates, output>>

Reported == {messages[i] : i \in findings}

\* An editor gets the messages.  Otherwise the report is made, which needs the
\* source under each finding's span.
Output ==
  /\ At("output")
  /\ LET spanless == ~opts.vscode /\ \E f \in Reported : f.span = NoSpan
     IN  \/ /\ ~spanless
            /\ todo' = IF opts.vscode THEN <<>> ELSE Formats
            /\ Proceed("report")
         \/ /\ spanless \/ "output" \in Faults
            /\ Finish("error") /\ UNCHANGED todo
  /\ UNCHANGED <<input, fail, detectors, found, reports>>

\* html, json and the two markdowns are written aside and renamed.
InPlace == {"raw-json", "raw-single-json", "unfiltered-json", "sarif", "pdf"}

RawJson == {"raw-json", "raw-single-json", "unfiltered-json"}

\* Written by calls of Write::write whose count is dropped: the raw reports, and
\* the page that the pdf is made from.
WrittenOnce == RawJson \cup {"pdf"}

PathOf(format) == CASE opts.path # Unset -> opts.path
                    [] opts.path = Unset /\ format \in RawJson -> "raw-report"
                    [] opts.path = Unset /\ format \notin RawJson -> format

Put(format, whole) ==
  LET path == PathOf(format)
  IN  reports' = [p \in DOMAIN reports \cup {path} |->
                    IF p = path THEN [format |-> format, whole |-> whole] ELSE reports[p]]

\* A format written in place: the file is emptied first.
OpenReport ==
  /\ At("report") /\ todo # <<>> /\ Head(todo) \in InPlace
  /\ Put(Head(todo), FALSE)
  /\ Proceed("write")
  /\ UNCHANGED <<input, fail, detectors, found, todo>>

Written == todo' = Tail(todo)

WriteFailsQuietly == "report" \in Faults /\ Proceed("report") /\ Written /\ UNCHANGED reports

WriteFails == MayFail("report") /\ UNCHANGED <<todo, reports>>

WriteShort == /\ "short" \in Faults /\ Head(todo) \in WrittenOnce
              /\ Put(Head(todo), FALSE) /\ Written /\ Proceed("report")

\* A short write is no error: the rest of the report is missing.
WriteReport ==
  /\ exit = "running" /\ todo # <<>>
  /\ pc = IF Head(todo) \in InPlace THEN "write" ELSE "report"
  /\ \/ Put(Head(todo), TRUE) /\ Written /\ Proceed("report")
     \/ WriteShort
     \/ WriteFails
  /\ UNCHANGED <<input, fail, detectors, found>>

Finished == opts.cicd = "dir"

Clean == opts.cicd = "dir" /\ findings = {}

\* The FAIL file goes when there is nothing to report; an error of remove_file
\* is ignored.
RemoveFail ==
  /\ At("report") /\ todo = <<>>
  /\ fail' = (fail /\ ~Clean) \/ ("remove" \in Faults /\ UNCHANGED fail)
  /\ Proceed("return")
  /\ UNCHANGED <<input, detectors, found, output>>

Return ==
  /\ At("return")
  /\ Finish("ok")
  /\ UNCHANGED <<input, fail, detectors, found, output>>

\* The process is killed between two steps.
Kill ==
  /\ exit = "running" /\ "kill" \in Faults
  /\ Finish("died")
  /\ UNCHANGED <<input, fail, detectors, found, output>>

Init == /\ opts \in Requests
        /\ pc = "validate"
        /\ fail \in BOOLEAN
        /\ detectors = {}
        /\ messages = <<>> /\ judged = 0
        /\ verdicts = [n \in {} |-> TRUE] /\ crates = [k \in {} |-> TRUE]
        /\ findings = {} /\ stdout = {}
        /\ todo = <<>> /\ reports = <<>>
        /\ exit = "running"

Step == \/ Validate \/ CreateFail \/ ReadProject \/ LoadConfig \/ Select \/ Build
        \/ RunDylint \/ ReadOutput \/ JudgeMessage \/ GetCrates \/ PostProcessing
        \/ Output \/ OpenReport \/ WriteReport \/ RemoveFail \/ Return

Next == Step \/ Kill \/ \E m \in Alphabet : Emit(m)

Spec == Init /\ [][Next]_vars /\ WF_vars(Step)

-----------------------------------------------------------------------------
Steps == {"validate", "create_fail", "metadata", "config", "select", "build", "dylint",
          "read", "judge", "post", "output", "report", "write", "return"}

\* The steps at which the findings are final.
Settled == {"output", "report", "write", "return"}

\* Every variable keeps its type through every step, failure and kill of run_scout.
TypeOK == /\ opts \in Requests
          /\ pc \in Steps
          /\ fail \in BOOLEAN
          /\ detectors \subseteq opts.all
          /\ messages \in Seq(Alphabet)
          /\ judged \in 0 .. Len(messages)
          /\ verdicts \in [DOMAIN verdicts -> BOOLEAN]
          /\ crates \in [DOMAIN crates -> BOOLEAN]
          /\ findings \subseteq DOMAIN messages
          /\ stdout \subseteq DOMAIN messages
          /\ exit \in {"running", "ok", "error", "died"}

\* With --cicd, from the moment FAIL is made its absence means that this run
\* went through to the end with every report written and nothing to report:
\* whatever fails or kills the process, before or after, leaves FAIL there.
FailFileHonest ==
  opts.cicd = "dir" /\ pc \notin {"validate", "create_fail"} /\ ~fail
    => pc = "return" /\ findings = {} /\ todo = <<>> /\ exit # "error"

\* A finding that is reported comes from a detector that neither the
\* configuration file nor the command line took out (config/mod.rs,
\* util/detectors.rs): the two are combined, not one instead of the other.
OnlyAsked ==
  \A f \in Reported :
    /\ opts.config # Unset => f.code \notin opts.config.exclude
    /\ opts.filter # Unset => f.code \in opts.filter
    /\ opts.exclude # Unset => f.code \notin opts.exclude

\* After a run that ends well, the file of the last format asked for holds that
\* format, and no report is half-written, whatever was interrupted or replaced on
\* the way, but for the formats whose writes are not looked at: a raw json or a
\* pdf may be cut short without an error.
ReportsTold ==
  exit = "ok" /\ pc = "return" /\ ~opts.vscode
    => /\ \A path \in DOMAIN reports :
            reports[path].whole \/ reports[path].format \in WrittenOnce
       /\ Formats # <<>> =>
            LET path == PathOf(Last(Formats))
            IN  path \in DOMAIN reports /\ reports[path].format = Last(Formats)

-----------------------------------------------------------------------------
\* The names that some message says something about.
Names == UNION {Affected(messages[i]) :
                  i \in {i \in DOMAIN messages : IsCompilerMessage(messages[i])}}

Accused(n) == \E i \in DOMAIN messages :
                IsCompilerError(messages[i]) /\ n \in Affected(messages[i])

\* get_crates says that a crate failed only if an error was printed under one of
\* its names, and that it did not fail only if some name it goes by got no error
\* (or none was printed): one error is enough, and no later message takes it back.
VerdictsRight ==
  \A k \in DOMAIN crates :
    IF crates[k]
    THEN \/ \A n \in Names : Underscored(n) # k
         \/ \E n \in Names : Underscored(n) = k /\ ~Accused(n)
    ELSE \E n \in Names : Underscored(n) = k /\ Accused(n)

\* A finding of a selected detector is missing from the report only because its
\* crate printed an error, because an allow of a crate that compiled covers it
\* (or it is itself an allow that covers something), or because it points nowhere
\* or names no crate.
NoFindingLost ==
  pc \in Settled =>
    \A i \in Detected \ findings :
      LET f == messages[i]
      IN  \/ \E n \in Names : Underscored(n) = Underscored(f.target) /\ Accused(n)
          \/ Nameless(f)
          \/ /\ AllowLint \in detectors
             /\ \/ ~Parsable(f)
                \/ \E j \in Detected : Covers(f, messages[j]) \/ Covers(messages[j], f)

\* scout_allow works both ways or not at all: when an allow covers a finding,
\* and both crates compiled, neither of the two is reported.
SuppressedTogether ==
  pc \in Settled /\ AllowLint \in detectors =>
    LET compiled == SplitFindings(messages, Detected, crates)
    IN  \A i, j \in compiled :
          Covers(messages[i], messages[j]) => {i, j} \cap (findings \cup stdout) = {}

-----------------------------------------------------------------------------
(* What the documentation says and the code does not do.                     *)

Audited == exit = "ok" /\ pc = "return"

\* console/lib.rs:48: the report says that it is incomplete when some crate failed
\* to compile, which it knows from the verdicts.
IncompleteTold ==
  Audited /\ (\E m \in Range(messages) : IsCompilerError(m) /\ m.id \in OwnIds)
    => \E k \in DOMAIN crates : ~crates[k]
=============================================================================
