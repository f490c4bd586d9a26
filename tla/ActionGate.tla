----------------------------- MODULE ActionGate -----------------------------
(* The "Run Scout" step of the GitHub action (action.yml): one scout run per *)
(* contract of the list, one report each, and whether the step fails.        *)
EXTENDS Integers, Sequences

CONSTANTS Lists,        \* the lists of contracts the step may be given
          Formats,      \* the report formats asked for
          Thresholds,   \* the values of fail-on-severity
          Outcomes,     \* what one scout run can come to
          Leftovers     \* the report directory before the step: name -> file

(* A contract is [dir, name, manifest, asks]: where it is, the last part of  *)
(* that path, whether there is a Cargo.toml, and the format that the         *)
(* project's own configuration file asks for: "none" when it names none, and *)
(* "action" when there is no such file and the action's counts.  An outcome  *)
(* is [ok, wrote, report]: the exit code, whether a report was written, and  *)
(* the report: [failed, count], the crates that did not compile in it and    *)
(* the findings of each severity.  A file is a report in some format.        *)
Severities == {"critical", "medium", "minor", "enhancement"}

Contracts == [dir : STRING, name : STRING, manifest : BOOLEAN, asks : STRING]

Reports == [failed : BOOLEAN, count : [Severities -> Nat]]

Files == [format : STRING, report : Reports]

ASSUME ListsAssumption == Lists \subseteq Seq(Contracts)
ASSUME FormatsAssumption == Formats \subseteq STRING
ASSUME ThresholdsAssumption == Thresholds \subseteq Severities \cup {"any", "none"}
ASSUME OutcomesAssumption == Outcomes \subseteq [ok : BOOLEAN, wrote : BOOLEAN, report : Reports]
ASSUME LeftoversAssumption == \A d \in Leftovers : \A n \in DOMAIN d : d[n] \in Files

VARIABLES format, severity, onFindings, \* the step's inputs
          jq,           \* the runner has a jq that works
          todo,         \* the contracts still to be scanned
          pc,           \* "next", "grep", "gate" or "done"
          disk,         \* the report directory: name -> file
          incomplete,   \* contracts that did not analyse cleanly
          gated,        \* findings at or above the threshold
          exit,         \* the step's exit code, or -1
          history       \* for the properties: contract and outcome of each run

inputs == <<format, severity, onFindings, jq>>
vars == <<inputs, todo, pc, disk, incomplete, gated, exit, history>>

-----------------------------------------------------------------------------
\* fail-on-findings is an alias of "any", when no severity is given.
Threshold == IF severity = "none" /\ onFindings THEN "any" ELSE severity

CountedAbove(threshold) ==
  CASE threshold = "critical" -> {"critical", "medium"}
    [] threshold = "medium" -> {"critical", "medium", "minor"}
    [] OTHER -> Severities

CountedNamed(threshold) == IF threshold = "any" THEN Severities \ {"enhancement"} ELSE Severities

\* The severities that count for a threshold: the jq program.
Counted(threshold) ==
  {"critical"} \cup (IF threshold = "critical" THEN {} ELSE {"medium"})
               \cup (IF threshold \in {"critical", "medium"} THEN {} ELSE {"minor"})
               \cup (IF threshold \in {"critical", "medium", "minor"} THEN {} ELSE {"enhancement"})

Total(report, severities) ==
  LET of(s) == IF s \in severities THEN report.count[s] ELSE 0
  IN  of("critical") + of("medium") + of("minor") + of("enhancement")

Contract == Head(todo)

\* The configuration file's format replaces the one on the command line
\* (config/mod.rs), not the path: of several, the last one is found there.
FormatOf(contract) == IF contract.asks = "action" THEN format ELSE contract.asks

Skip ==
  /\ pc = "next" /\ todo # <<>> /\ ~Contract.manifest
  /\ todo' = Tail(todo)
  /\ UNCHANGED <<inputs, pc, disk, incomplete, gated, exit, history>>

AddWhenOk(outcome) == incomplete' = IF outcome.ok THEN 0 ELSE incomplete + 1

Add(outcome) == incomplete' = incomplete + IF outcome.ok THEN 0 ELSE 1

\* A run that fails may have written its report, or leave the file of that name
\* as it was.
RunScout ==
  /\ pc = "next" /\ todo # <<>> /\ Contract.manifest
  /\ \E o \in Outcomes :
       /\ IF FormatOf(Contract) = "none" THEN ~o.wrote ELSE o.ok => o.wrote
       /\ disk' = IF ~o.wrote THEN disk
                  ELSE [n \in DOMAIN disk \cup {Contract.name} |->
                          IF n = Contract.name
                          THEN [format |-> FormatOf(Contract), report |-> o.report]
                          ELSE disk[n]]
       /\ Add(o)
       /\ history' = Append(history, [contract |-> Contract, outcome |-> o])
  /\ pc' = "grep"
  /\ UNCHANGED <<inputs, todo, gated, exit>>

\* The formats that have the words searched for, in their tables.
Telling == {"html", "json", "md", "md-gh"}

Grep ==
  /\ pc = "grep"
  /\ incomplete' = IF /\ Contract.name \in DOMAIN disk
                      /\ disk[Contract.name].format \in Telling
                      /\ disk[Contract.name].report.failed
                   THEN incomplete + 1 ELSE incomplete
  /\ pc' = "gate"
  /\ UNCHANGED <<inputs, todo, disk, gated, exit, history>>

\* What jq cannot read, or finds no summary in, counts as no finding, and so does
\* everything when there is no jq: its errors are dropped, `|| echo 0`.
CountIn(file) ==
  IF jq /\ file.format = "json" THEN Total(file.report, Counted(Threshold)) ELSE 0

Gate ==
  /\ pc = "gate"
  /\ gated' = IF Threshold # "none" /\ Contract.name \in DOMAIN disk /\ format = "json"
              THEN gated + CountIn(disk[Contract.name]) ELSE gated
  /\ pc' = "next" /\ todo' = Tail(todo)
  /\ UNCHANGED <<inputs, disk, incomplete, exit, history>>

ExitCode == IF \/ incomplete > 0
               \/ Threshold # "none" /\ format = "json" /\ gated > 0
            THEN 1 ELSE 0

Finish ==
  /\ pc = "next" /\ todo = <<>>
  /\ exit' = ExitCode
  /\ pc' = "done"
  /\ UNCHANGED <<inputs, todo, disk, incomplete, gated, history>>

Init == /\ format \in Formats /\ severity \in Thresholds /\ onFindings \in BOOLEAN
        /\ jq \in BOOLEAN
        /\ todo \in Lists
        /\ pc = "next"
        /\ disk \in Leftovers
        /\ incomplete = 0 /\ gated = 0 /\ exit = -1 /\ history = <<>>

Next == Skip \/ RunScout \/ Grep \/ Gate \/ Finish

Spec == Init /\ [][Next]_vars

-----------------------------------------------------------------------------
Runs == {history[i] : i \in DOMAIN history}

Rank == [critical |-> 4, medium |-> 3, minor |-> 2, enhancement |-> 1, any |-> 0]

\* A report with a finding as bad as the inputs ask for, or worse.
Bad(report) ==
  LET asked == IF severity = "none" /\ onFindings THEN "any" ELSE severity
  IN  asked # "none" /\ \E s \in Severities : report.count[s] > 0 /\ Rank[s] >= Rank[asked]

\* Every variable of the step keeps its type, and the counts are counts.
TypeOK == /\ format \in Formats /\ severity \in Thresholds /\ onFindings \in BOOLEAN
          /\ jq \in BOOLEAN
          /\ pc \in {"next", "grep", "gate", "done"}
          /\ incomplete \in Nat /\ gated \in Nat /\ exit \in {-1, 0, 1}
          /\ todo \in Seq(Contracts)
          /\ \A n \in DOMAIN disk : disk[n] \in Files
          /\ history \in Seq([contract : Contracts, outcome : Outcomes])

\* A step that passes has seen no failure: no run of any contract failed, first
\* or last, and where the report's format can show it, none left a crate uncompiled.
\* However many clean contracts follow, a failure is not forgotten.
PassMeansAnalyzed ==
  exit = 0 => \A r \in Runs :
                /\ r.outcome.ok
                /\ r.outcome.wrote /\ FormatOf(r.contract) \in Telling
                     => ~r.outcome.report.failed

\* With json reports, a step that passes reported no finding as bad as the
\* inputs ask for, in any contract: also in a report that was overwritten since.
\* The gate is open, whatever the reports say, only where jq does not work, and for
\* a contract whose own configuration file replaces the format.
PassMeansBelow ==
  exit = 0 /\ format = "json" =>
    \A r \in Runs : r.outcome.wrote /\ Bad(r.outcome.report)
                      => ~jq \/ FormatOf(r.contract) # "json"

\* A step that fails has a reason of its own: a run of it that failed, a crate
\* that did not compile, or a finding at or above the threshold.  What an earlier
\* job left in the directory fails nothing while each run writes its report.
FailHasReason ==
  exit = 1 /\ (\A r \in Runs : r.outcome.ok => r.outcome.wrote) =>
    \E r \in Runs : \/ ~r.outcome.ok
                    \/ r.outcome.report.failed
                    \/ Bad(r.outcome.report)

=============================================================================
