-------------------------- MODULE ActionGateProofs --------------------------
(* The verdict of the action's step, for every list of contracts, every set  *)
(* of inputs and whatever the scout runs come to.                            *)
EXTENDS ActionGate, TLAPS

\* A report with a finding as bad as a threshold, or worse.
Worse(threshold, report) ==
  threshold # "none" /\ \E s \in Severities : report.count[s] > 0 /\ Rank[s] >= Rank[threshold]

AllWrote == \A i \in DOMAIN history : history[i].outcome.ok => history[i].outcome.wrote

Gated == Threshold # "none" /\ format = "json"

\* The run whose report is still to be searched, or to be counted.
Latest == history[Len(history)]
Searched == DOMAIN history \ IF pc = "grep" THEN {Len(history)} ELSE {}
Summed == DOMAIN history \ IF pc \in {"grep", "gate"} THEN {Len(history)} ELSE {}

\* The file that a run which writes its report leaves.
FileOf(run) == [format |-> FormatOf(run.contract), report |-> run.outcome.report]

Current == pc \in {"grep", "gate"} =>
             /\ todo # <<>> /\ history # <<>>
             /\ Latest.outcome.wrote => /\ Contract.name \in DOMAIN disk
                                        /\ disk[Contract.name] = FileOf(Latest)
             /\ Latest.contract = Contract

\* What counts of zero mean, and why a count is not zero.
CleanRuns ==
  incomplete = 0 => /\ \A i \in DOMAIN history : history[i].outcome.ok
                    /\ \A i \in Searched :
                         history[i].outcome.wrote /\ FormatOf(history[i].contract) \in Telling
                           => ~history[i].outcome.report.failed
BelowRuns ==
  Gated /\ gated = 0 =>
    \A i \in Summed : /\ history[i].outcome.wrote /\ jq
                       /\ FormatOf(history[i].contract) = "json"
                         => ~Worse(Threshold, history[i].outcome.report)
Reasons ==
  AllWrote /\ (incomplete > 0 \/ gated > 0) =>
    \E i \in DOMAIN history : \/ ~history[i].outcome.ok
                              \/ history[i].outcome.report.failed
                              \/ Worse(Threshold, history[i].outcome.report)
Verdict == exit = IF pc = "done" THEN ExitCode ELSE -1

IInv == TypeOK /\ Current /\ CleanRuns /\ BelowRuns /\ Reasons /\ Verdict

-----------------------------------------------------------------------------
\* The total of the severities that count for a threshold is positive exactly
\* when a finding is that bad: each of the nested conditions of the jq program
\* draws its line at the right place.
LEMMA TotalIsBad ==
  ASSUME NEW report \in Reports, Threshold \in Severities \cup {"any"}
  PROVE  /\ Total(report, Counted(Threshold)) \in Nat
         /\ Total(report, Counted(Threshold)) > 0 <=> Worse(Threshold, report)
<1> DEFINE n(s) == report.count[s]
<1>1. \A s \in Severities : n(s) \in Nat
  BY DEF Reports
<1>s. n("critical") \in Nat /\ n("medium") \in Nat /\ n("minor") \in Nat /\ n("enhancement") \in Nat
  BY <1>1 DEF Severities
<1> DEFINE bad == Worse(Threshold, report)
<1>2. bad <=> \E s \in Severities : n(s) > 0 /\ Rank[s] >= Rank[Threshold]
  BY DEF Worse, Severities
<1>r. /\ Rank["critical"] = 4 /\ Rank["medium"] = 3 /\ Rank["minor"] = 2
      /\ Rank["enhancement"] = 1 /\ Rank["any"] = 0
  BY DEF Rank
<1>q. Rank[Threshold] \in 0..4
  BY <1>r DEF Severities
<1>b. bad <=> \/ n("critical") > 0 /\ 4 >= Rank[Threshold]
              \/ n("medium") > 0 /\ 3 >= Rank[Threshold]
              \/ n("minor") > 0 /\ 2 >= Rank[Threshold]
              \/ n("enhancement") > 0 /\ 1 >= Rank[Threshold]
  <2> HIDE DEF bad
  <2>1. bad <=> \/ n("critical") > 0 /\ Rank["critical"] >= Rank[Threshold]
                \/ n("medium") > 0 /\ Rank["medium"] >= Rank[Threshold]
                \/ n("minor") > 0 /\ Rank["minor"] >= Rank[Threshold]
                \/ n("enhancement") > 0 /\ Rank["enhancement"] >= Rank[Threshold]
    BY <1>2, Zenon DEF Severities
  <2> HIDE DEF n
  <2> QED BY <1>r, <1>s, <1>q, <2>1
<1> HIDE DEF n
<1>3. CASE Threshold = "critical"
  <2>1. Total(report, Counted(Threshold)) = n("critical")
    BY <1>3, <1>s DEF Total, Counted, n
  <2>2. Rank[Threshold] = 4
    BY <1>r, <1>3
  <2> QED BY <1>s, <1>b, <2>1, <2>2
<1>4. CASE Threshold = "medium"
  <2>1. Total(report, Counted(Threshold)) = n("critical") + n("medium")
    BY <1>4, <1>s DEF Total, Counted, n
  <2>2. Rank[Threshold] = 3
    BY <1>r, <1>4
  <2> QED BY <1>s, <1>b, <2>1, <2>2
<1>5. CASE Threshold = "minor"
  <2>1. Total(report, Counted(Threshold)) = n("critical") + n("medium") + n("minor")
    BY <1>5, <1>s DEF Total, Counted, n
  <2>2. Rank[Threshold] = 2
    BY <1>r, <1>5
  <2> QED BY <1>s, <1>b, <2>1, <2>2
<1>6. CASE Threshold = "enhancement"
  <2>1. Total(report, Counted(Threshold)) = n("critical") + n("medium") + n("minor") + n("enhancement")
    BY <1>6, <1>s DEF Total, Counted, n
  <2>2. Rank[Threshold] = 1
    BY <1>r, <1>6
  <2> QED BY <1>s, <1>b, <2>1, <2>2
<1>7. CASE Threshold = "any"
  <2>1. Total(report, Counted(Threshold)) = n("critical") + n("medium") + n("minor") + n("enhancement")
    BY <1>7, <1>s DEF Total, Counted, n
  <2>2. Rank[Threshold] = 0
    BY <1>r, <1>7
  <2> QED BY <1>s, <1>b, <2>1, <2>2
<1> QED BY <1>3, <1>4, <1>5, <1>6, <1>7 DEF Severities

LEMMA InitInv == Init => IInv
<1> SUFFICES ASSUME Init PROVE IInv
  OBVIOUS
<1>1. TypeOK
  BY ListsAssumption, LeftoversAssumption DEF Init, TypeOK
<1> QED BY <1>1 DEF Init, IInv, Current, CleanRuns, BelowRuns, Reasons, Verdict, Searched, Summed

LEMMA HistoryFacts ==
  ASSUME TypeOK
  PROVE  /\ Len(history) \in Nat /\ DOMAIN history = 1..Len(history)
         /\ \A i \in DOMAIN history : history[i] \in [contract : Contracts, outcome : Outcomes]
         /\ history # <<>> => Len(history) \in DOMAIN history
<1> DEFINE S == [contract : Contracts, outcome : Outcomes]
<1>1. history \in Seq(S)
  BY DEF TypeOK
<1> HIDE DEF S
<1>2. /\ Len(history) \in Nat /\ DOMAIN history = 1..Len(history)
      /\ \A i \in DOMAIN history : history[i] \in S
      /\ history # <<>> => Len(history) \in DOMAIN history
  BY <1>1
<1> QED BY <1>2 DEF S

\* One step per action: the run in hand is judged by the last two steps of the
\* loop, and every other run stays judged.
LEMMA NextInv == IInv /\ [Next]_vars => IInv'
<1> SUFFICES ASSUME IInv, [Next]_vars PROVE IInv'
  OBVIOUS
<1>i. TypeOK /\ Current /\ CleanRuns /\ BelowRuns /\ Reasons /\ Verdict
  BY DEF IInv
<1>t. /\ Threshold' = Threshold /\ format' = format /\ jq' = jq /\ (Gated' <=> Gated)
      /\ \A c : FormatOf(c)' = FormatOf(c)
  BY DEF Next, Skip, RunScout, Grep, Gate, Finish, inputs, vars, Threshold, Gated, FormatOf
<1>h. /\ Len(history) \in Nat /\ DOMAIN history = 1..Len(history)
      /\ \A i \in DOMAIN history : history[i] \in [contract : Contracts, outcome : Outcomes]
      /\ history # <<>> => Len(history) \in DOMAIN history
  BY <1>i, HistoryFacts
<1>m. Outcomes \subseteq [ok : BOOLEAN, wrote : BOOLEAN, report : Reports]
  BY OutcomesAssumption
<1>n. incomplete \in Nat /\ gated \in Nat
  BY <1>i DEF TypeOK
<1> HIDE DEF Gated, Threshold
<1>1. CASE Skip
  <2> USE <1>1, <1>i, <1>t DEF Skip
  <2>1. TypeOK' /\ Current' /\ Verdict'
    BY DEF TypeOK, Current, Verdict, inputs
  <2>2. CleanRuns'
    BY DEF CleanRuns, Searched
  <2>3. BelowRuns'
    BY DEF BelowRuns, Summed
  <2>4. Reasons'
    BY DEF Reasons, AllWrote
  <2> QED BY <2>1, <2>2, <2>3, <2>4 DEF IInv
<1>2. CASE RunScout
  <2>1. PICK o \in Outcomes :
          /\ disk' = IF ~o.wrote THEN disk
                     ELSE [x \in DOMAIN disk \cup {Contract.name} |->
                             IF x = Contract.name
                             THEN [format |-> FormatOf(Contract), report |-> o.report]
                             ELSE disk[x]]
          /\ incomplete' = incomplete + IF o.ok THEN 0 ELSE 1
          /\ history' = Append(history, [contract |-> Contract, outcome |-> o])
    BY <1>2 DEF RunScout, Add
  <2>2. Contract \in Contracts
    BY <1>2, <1>i DEF RunScout, TypeOK, Contract
  <2>3. /\ Len(history') = Len(history) + 1 /\ history'[Len(history')].outcome = o
        /\ history'[Len(history')].contract = Contract
        /\ DOMAIN history' = DOMAIN history \cup {Len(history')} /\ history' # <<>>
        /\ \A i \in DOMAIN history : history'[i] = history[i] /\ i # Len(history')
    BY <2>1, <1>h
  <2>4. TypeOK'
    <3>1. [format |-> FormatOf(Contract), report |-> o.report] \in Files
      BY <1>i, <1>m, <2>2, FormatsAssumption DEF TypeOK, Contracts, Files, FormatOf
    <3>2. \A x \in DOMAIN disk' : disk'[x] \in Files
      BY <1>i, <2>1, <3>1 DEF TypeOK
    <3>3. history' \in Seq([contract : Contracts, outcome : Outcomes]) /\ incomplete' \in Nat
      BY <1>i, <2>1, <2>2 DEF TypeOK
    <3> QED BY <1>2, <1>i, <3>2, <3>3 DEF TypeOK, RunScout, inputs
  <2>5. Current' /\ Verdict'
    <3>1. Verdict'
      BY <1>2, <1>i DEF Verdict, RunScout
    <3>2. /\ Contract' = Contract /\ todo' # <<>> /\ Latest'.outcome = o
          /\ Latest'.contract = Contract
      BY <1>2, <2>3 DEF RunScout, Contract, Latest
    <3>3. FormatOf(Latest.contract)' = FormatOf(Contract)
      BY <1>2, <3>2 DEF FormatOf, RunScout, inputs
    <3> HIDE DEF Contract, Latest, FormatOf
    <3>4. o.wrote => /\ Contract.name \in DOMAIN disk'
                     /\ disk'[Contract.name] = [format |-> FormatOf(Contract), report |-> o.report]
      BY <2>1
    <3> QED BY <2>3, <3>1, <3>2, <3>3, <3>4 DEF Current, FileOf
  <2>6. Searched' = DOMAIN history /\ Summed' = DOMAIN history /\ Searched = DOMAIN history /\ Summed = DOMAIN history
    BY <1>2, <2>3 DEF RunScout, Searched, Summed
  <2>7. CleanRuns'
    <3>1. incomplete' = 0 => incomplete = 0 /\ o.ok
      BY <1>n, <2>1
    <3> QED BY <1>i, <1>t, <2>3, <2>6, <3>1 DEF CleanRuns
  <2>8. BelowRuns'
    BY <1>2, <1>i, <1>t, <2>3, <2>6 DEF BelowRuns, RunScout
  <2>9. Reasons'
    <3>1. CASE o.ok
      <4>1. incomplete' = incomplete /\ gated' = gated
        BY <1>2, <1>n, <2>1, <3>1 DEF RunScout
      <4> QED BY <1>i, <1>t, <2>3, <4>1 DEF Reasons, AllWrote
    <3>2. CASE ~o.ok
      BY <2>3, <3>2 DEF Reasons
    <3> QED BY <3>1, <3>2
  <2> QED BY <2>4, <2>5, <2>7, <2>8, <2>9 DEF IInv
\* When all the runs that went well wrote a report, the report in the directory
\* is that of the run in hand, or that run did not go well.
<1>w. pc \in {"grep", "gate"} /\ AllWrote /\ Latest.outcome.ok =>
        Contract.name \in DOMAIN disk /\ disk[Contract.name] = FileOf(Latest)
  BY <1>i, <1>h DEF Current, AllWrote, Latest
<1>3. CASE Grep
  <2>1. TypeOK' /\ Current' /\ Verdict'
    <3>1. TypeOK' /\ Verdict'
      BY <1>3, <1>i DEF Grep, inputs, TypeOK, Verdict
    <3>2. Contract' = Contract /\ Latest' = Latest /\ FileOf(Latest)' = FileOf(Latest)
      BY <1>3 DEF Grep, inputs, Latest, Contract, FileOf, FormatOf
    <3> HIDE DEF Contract, Latest, FileOf
    <3>3. Current'
      BY <1>3, <1>i, <3>2 DEF Grep, Current
    <3> QED BY <3>1, <3>3
  <2>2. CleanRuns'
    <3> SUFFICES ASSUME incomplete' = 0 PROVE CleanRuns'
      BY DEF CleanRuns
    <3>1. incomplete = 0 /\ ~(/\ Contract.name \in DOMAIN disk
                              /\ disk[Contract.name].format \in Telling
                              /\ disk[Contract.name].report.failed)
      BY <1>3, <1>n DEF Grep
    <3>2. Latest.outcome.wrote /\ FormatOf(Latest.contract) \in Telling
            => ~Latest.outcome.report.failed
      BY <1>3, <1>i, <3>1 DEF Current, Grep, FileOf
    <3> QED BY <1>3, <1>i, <1>t, <3>1, <3>2 DEF CleanRuns, Searched, Latest, Grep
  <2>3. BelowRuns'
    BY <1>3, <1>i, <1>t DEF BelowRuns, Summed, Grep
  <2>4. Reasons'
    <3>1. CASE incomplete' = incomplete
      BY <1>3, <1>i, <1>t, <3>1 DEF Reasons, AllWrote, Grep
    <3>2. CASE incomplete' # incomplete
      <4>1. disk[Contract.name].report.failed /\ Len(history) \in DOMAIN history
        BY <1>3, <1>i, <1>h, <3>2 DEF Grep, Current
      <4> QED BY <1>3, <1>w, <4>1 DEF Reasons, AllWrote, Latest, Grep, FileOf
    <3> QED BY <3>1, <3>2
  <2> QED BY <2>1, <2>2, <2>3, <2>4 DEF IInv
<1>4. CASE Gate
  <2>a. Threshold \in Severities \cup {"any", "none"}
    BY <1>i, ThresholdsAssumption DEF TypeOK, Threshold
  <2> DEFINE file == disk[Contract.name]
             total == CountIn(file)
             worse == Worse(Threshold, file.report)
             read == jq /\ file.format = "json"
  <2>b. Contract.name \in DOMAIN disk /\ Gated => total \in Nat /\ (total > 0 <=> read /\ worse)
    <3>1. Contract.name \in DOMAIN disk => file.report \in Reports
      BY <1>i DEF TypeOK, Files
    <3> HIDE DEF file
    <3>2. Contract.name \in DOMAIN disk /\ Gated =>
            /\ Total(file.report, Counted(Threshold)) \in Nat
            /\ Total(file.report, Counted(Threshold)) > 0 <=> worse
      BY <2>a, <3>1, TotalIsBad DEF Gated
    <3> QED BY <3>2 DEF CountIn
  <2>c. gated' = IF Contract.name \in DOMAIN disk /\ Gated THEN gated + total ELSE gated
    BY <1>4 DEF Gate, Gated
  <2> HIDE DEF total, worse, read, file
  <2>1. gated' \in Nat
    BY <1>n, <2>b, <2>c
  <2>2. TypeOK'
    <3>1. todo # <<>> => Tail(todo) \in Seq(Contracts)
      BY <1>i DEF TypeOK
    <3> QED BY <1>4, <1>i, <2>1, <3>1 DEF Gate, inputs, TypeOK, Current
  <2>3. Current' /\ Verdict'
    BY <1>4, <1>i DEF Gate, Current, Verdict
  <2>4. CleanRuns'
    BY <1>4, <1>i, <1>t DEF CleanRuns, Searched, Gate
  <2>5. BelowRuns'
    <3> SUFFICES ASSUME Gated, gated' = 0 PROVE BelowRuns'
      BY <1>t DEF BelowRuns
    <3>1. gated = 0 /\ (Contract.name \in DOMAIN disk => ~(read /\ worse))
      BY <1>n, <2>b, <2>c
    <3>2. Latest.outcome.wrote /\ jq /\ FormatOf(Latest.contract) = "json"
            => ~Worse(Threshold, Latest.outcome.report)
      BY <1>4, <1>i, <3>1 DEF Current, Gate, worse, read, file, FileOf
    <3> QED BY <1>4, <1>i, <1>t, <3>1, <3>2 DEF BelowRuns, Summed, Latest, Gate
  <2>6. Reasons'
    <3>1. CASE gated' = gated
      BY <1>4, <1>i, <1>t, <3>1 DEF Reasons, AllWrote, Gate
    <3>2. CASE gated' # gated
      <4>1. worse /\ Len(history) \in DOMAIN history
        BY <1>4, <1>i, <1>h, <1>n, <2>b, <2>c, <3>2 DEF Gate, Current
      <4> QED BY <1>4, <1>w, <1>t, <4>1 DEF Reasons, AllWrote, Latest, Gate, worse, file, FileOf
    <3> QED BY <3>1, <3>2
  <2> QED BY <2>2, <2>3, <2>4, <2>5, <2>6 DEF IInv
<1>5. CASE Finish
  <2> USE <1>5, <1>i, <1>t DEF Finish
  <2>1. TypeOK' /\ Current' /\ Verdict'
    BY DEF TypeOK, Current, Verdict, ExitCode, inputs
  <2>2. CleanRuns'
    BY DEF CleanRuns, Searched
  <2>3. BelowRuns'
    BY DEF BelowRuns, Summed
  <2>4. Reasons'
    BY DEF Reasons, AllWrote
  <2> QED BY <2>1, <2>2, <2>3, <2>4 DEF IInv
<1>6. CASE UNCHANGED vars
  BY <1>6, <1>i, <1>t DEF vars, inputs, IInv, TypeOK, Current, CleanRuns, BelowRuns, Reasons, Verdict, ExitCode,
     Searched, Summed, AllWrote, Latest, Contract, FileOf
<1> QED BY <1>1, <1>2, <1>3, <1>4, <1>5, <1>6 DEF Next

THEOREM Invariance == Spec => []IInv
BY InitInv, NextInv, PTL DEF Spec

\* Every variable of the step keeps its type.
THEOREM TypeCorrect == Spec => []TypeOK
<1>1. IInv => TypeOK
  BY DEF IInv
<1> QED BY Invariance, <1>1, PTL

LEMMA BadIsWorse == ASSUME NEW report PROVE Bad(report) <=> Worse(Threshold, report)
BY DEF Bad, Worse, Threshold

\* The step passes only when it has seen every run go well.
THEOREM PassMeansAnalyzedAlways == Spec => []PassMeansAnalyzed
<1>1. IInv => PassMeansAnalyzed
  BY DEF IInv, TypeOK, CleanRuns, Searched, Verdict, ExitCode, PassMeansAnalyzed, Runs
<1> QED BY Invariance, <1>1, PTL

\* With json reports, and a jq that works, it passes only when nothing reached the
\* threshold in a report that is json: one in another format is not counted.
THEOREM PassMeansBelowAlways == Spec => []PassMeansBelow
<1>1. IInv => PassMeansBelow
  <2> SUFFICES ASSUME IInv, exit = 0, format = "json", NEW i \in DOMAIN history,
                      history[i].outcome.wrote, Bad(history[i].outcome.report),
                      jq, FormatOf(history[i].contract) = "json"
               PROVE  FALSE
    BY DEF PassMeansBelow, Runs
  <2>1. pc = "done" /\ ExitCode = 0
    BY DEF IInv, Verdict
  <2>2. Worse(Threshold, history[i].outcome.report)
    BY BadIsWorse
  <2>3. Gated /\ gated = 0
    BY <2>1, <2>2 DEF IInv, TypeOK, ExitCode, Gated, Worse
  <2> QED BY <2>1, <2>2, <2>3 DEF IInv, BelowRuns, Summed
<1> QED BY Invariance, <1>1, PTL

\* When every run that goes well writes its report, the step fails for a reason
\* of its own.
THEOREM FailHasReasonAlways == Spec => []FailHasReason
<1>1. IInv => FailHasReason
  <2> SUFFICES ASSUME IInv, exit = 1, AllWrote
               PROVE  \E i \in DOMAIN history : \/ ~history[i].outcome.ok
                                                \/ history[i].outcome.report.failed
                                                \/ Bad(history[i].outcome.report)
    BY DEF FailHasReason, Runs, AllWrote
  <2>1. incomplete > 0 \/ gated > 0
    BY DEF IInv, Verdict, ExitCode
  <2> QED BY <2>1, BadIsWorse DEF IInv, Reasons
<1> QED BY Invariance, <1>1, PTL
=============================================================================
