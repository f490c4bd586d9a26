--------------------------- MODULE ScoutRunProofs ---------------------------
(* What holds of every run of scout: for any project, any command lines and  *)
(* configuration files, any messages of the compiler and any set of faults.  *)
EXTENDS ScoutRun, TLAPS

\* The steps up to and including the given one have been done.
PastConfig == pc \in {"select", "build", "dylint", "read", "judge", "post"} \cup Settled
PastSelect == pc \in {"build", "dylint", "read", "judge", "post"} \cup Settled

Compiled == SplitFindings(messages, Detected, crates)

\* What the detectors and the findings are at each step.
Flow == /\ PastConfig => detectors \cap Excluded = {}
        /\ PastSelect => /\ opts.filter # Unset => detectors \subseteq opts.filter
                         /\ opts.exclude # Unset => detectors \cap opts.exclude = {}
        /\ pc \notin {"post"} \cup Settled => findings = {} /\ stdout = {}
        /\ pc = "post" => findings = Compiled /\ stdout = {}
        /\ pc \in Settled /\ AllowLint \in detectors =>
             /\ findings = PostProcess(messages, Compiled, Compiled)
             /\ stdout \in {{}, PostProcess(messages, DOMAIN messages, Compiled)}
        /\ pc \in Settled /\ AllowLint \notin detectors => findings = Compiled

IInv == TypeOK /\ Flow

-----------------------------------------------------------------------------
LEMMA InitInv == Init => IInv
BY DEF Init, IInv, TypeOK, Flow, Steps, PastConfig, PastSelect, Settled

\* One step per action; only three of them touch the findings.
LEMMA NextType == TypeOK /\ [Next]_vars => TypeOK'
<1> SUFFICES ASSUME TypeOK, [Next]_vars PROVE TypeOK'
  OBVIOUS
<1> USE DEF TypeOK, Steps, At, Proceed, Finish, MayFail, input, found, output
<1>1. CASE Validate
  BY <1>1 DEF Validate
<1>2. CASE CreateFail
  BY <1>2 DEF CreateFail
<1>3. CASE ReadProject
  BY <1>3 DEF ReadProject
<1>4. CASE LoadConfig
  BY <1>4 DEF LoadConfig
<1>5. CASE Select
  BY <1>5 DEF Select, Known, Chosen
<1>6. CASE Build
  BY <1>6 DEF Build
<1>7. ASSUME NEW m \in Alphabet, Emit(m) PROVE TypeOK'
  <2>1. messages' \in Seq(Alphabet) /\ DOMAIN messages \subseteq DOMAIN messages'
    BY <1>7 DEF Emit
  <2> QED BY <1>7, <2>1 DEF Emit
<1>8. CASE RunDylint
  BY <1>8 DEF RunDylint
<1>a. CASE ReadOutput
  BY <1>a DEF ReadOutput
<1>b. CASE JudgeMessage
  <2>1. ASSUME NEW m PROVE Judge(verdicts, m) \in [DOMAIN Judge(verdicts, m) -> BOOLEAN]
    BY DEF Judge, IsCompilerError, IsCompilerMessage
  <2> QED BY <1>b, <2>1 DEF JudgeMessage
<1>9. CASE GetCrates
  <2>2. crates' \in [DOMAIN crates' -> BOOLEAN]
    BY <1>9 DEF GetCrates, Crates
  <2>1. SplitFindings(messages, Detected, crates') \subseteq DOMAIN messages
    BY DEF SplitFindings, Detected
  <2> QED BY <1>9, <2>1, <2>2 DEF GetCrates
<1>10. CASE PostProcessing
  <2>1. /\ PostProcess(messages, findings, findings) \subseteq findings
        /\ PostProcess(messages, DOMAIN messages, findings) \subseteq DOMAIN messages
    BY DEF PostProcess
  <2> QED BY <1>10, <2>1 DEF PostProcessing
<1>11. CASE Output
  BY <1>11 DEF Output
<1>12. CASE OpenReport
  BY <1>12 DEF OpenReport
<1>13. CASE WriteReport
  BY <1>13 DEF WriteReport, WriteShort, WriteFails
<1>14. CASE RemoveFail
  BY <1>14 DEF RemoveFail
<1>15. CASE Return
  BY <1>15 DEF Return
<1>16. CASE Kill
  BY <1>16 DEF Kill
<1>17. CASE UNCHANGED vars
  BY <1>17 DEF vars
<1> QED BY <1>1, <1>2, <1>3, <1>4, <1>5, <1>6, <1>7, <1>8, <1>a, <1>b, <1>9, <1>10, <1>11, <1>12,
           <1>13, <1>14, <1>15, <1>16, <1>17 DEF Next, Step

\* A step that keeps everything the findings are made from keeps Flow, when it
\* stays on the same side of the steps Flow tells apart.
LEMMA FlowKept ==
  ASSUME Flow, UNCHANGED <<opts, detectors, messages, crates, findings, stdout>>,
         \/ pc' = pc
         \/ ~PastConfig /\ ~PastConfig'
         \/ {pc, pc'} \subseteq {"build", "dylint", "read", "judge"}
         \/ {pc, pc'} \subseteq Settled
  PROVE  Flow'
<1>1. Compiled' = Compiled /\ Excluded' = Excluded
  BY DEF Compiled, Detected, SplitFindings, Excluded
<1>2. ASSUME NEW S PROVE PostProcess(messages', S, Compiled') = PostProcess(messages, S, Compiled)
  BY <1>1
<1> HIDE DEF Compiled, Excluded, PostProcess
<1> QED BY <1>1, <1>2 DEF Flow, PastConfig, PastSelect, Settled

LEMMA NextFlow == IInv /\ [Next]_vars => Flow'
<1> SUFFICES ASSUME IInv, [Next]_vars PROVE Flow'
  OBVIOUS
<1>i. Flow /\ TypeOK
  BY DEF IInv
<1> USE DEF At, Proceed, Finish, MayFail, input, found, output
<1>1. CASE Validate
  BY <1>1, <1>i, FlowKept DEF Validate, PastConfig, Settled
<1>2. CASE CreateFail
  BY <1>2, <1>i, FlowKept DEF CreateFail, PastConfig, Settled
<1>3. CASE ReadProject
  BY <1>3, <1>i, FlowKept DEF ReadProject, PastConfig, Settled
<1>4. CASE LoadConfig
  <2>1. Excluded' = Excluded
    BY <1>4 DEF LoadConfig, Excluded
  <2>2. CASE pc' = "select"
    BY <1>4, <1>i, <2>1, <2>2 DEF LoadConfig, Flow, PastConfig, PastSelect, Settled
  <2>3. CASE pc' = "config"
    BY <1>4, <1>i, <2>1, <2>3 DEF LoadConfig, Flow, PastConfig, PastSelect, Settled
  <2> QED BY <1>4, <2>2, <2>3 DEF LoadConfig
<1>5. CASE Select
  <2>1. Excluded' = Excluded /\ PastConfig /\ pc = "select"
    BY <1>5 DEF Select, Excluded, PastConfig
  <2>2. CASE pc' = "select"
    BY <1>5, <1>i, <2>1, <2>2, FlowKept DEF Select
  <2>3. CASE pc' = "build"
    <3>1. Known /\ detectors' = Chosen /\ opts' = opts
      BY <1>5, <2>1, <2>3 DEF Select
    <3>2. opts \in Requests /\ (opts.filter # Unset => opts.exclude = Unset)
      BY <1>i, RequestsAssumption DEF TypeOK
    <3>3. detectors \cap Excluded = {} /\ findings = {} /\ stdout = {}
      BY <1>i, <2>1 DEF Flow, Settled
    <3>4. detectors' \cap Excluded' = {}
      BY <2>1, <3>1, <3>3 DEF Known, Chosen
    <3>5. /\ opts'.filter # Unset => detectors' \subseteq opts'.filter
          /\ opts'.exclude # Unset => detectors' \cap opts'.exclude = {}
      BY <3>1, <3>2 DEF Chosen
    <3>6. findings' = {} /\ stdout' = {}
      BY <1>5, <3>3 DEF Select
    <3> QED BY <2>3, <3>4, <3>5, <3>6 DEF Flow, PastConfig, PastSelect, Settled
  <2> QED BY <1>5, <2>1, <2>2, <2>3 DEF Select
<1>6. CASE Build
  BY <1>6, <1>i, FlowKept DEF Build
<1>7. ASSUME NEW m \in Alphabet, Emit(m) PROVE Flow'
  <2>1. Excluded' = Excluded
    BY <1>7 DEF Emit, Excluded
  <2> QED BY <1>7, <1>i, <2>1 DEF Emit, Flow, PastConfig, PastSelect, Settled
<1>8. CASE RunDylint
  BY <1>8, <1>i, FlowKept DEF RunDylint
<1>a. CASE ReadOutput
  BY <1>a, <1>i, FlowKept DEF ReadOutput
<1>b. CASE JudgeMessage
  BY <1>b, <1>i, FlowKept DEF JudgeMessage
<1>9. CASE GetCrates
  <2>1. Excluded' = Excluded /\ Compiled' = SplitFindings(messages, Detected, crates')
    BY <1>9 DEF GetCrates, Excluded, Compiled, Detected
  <2>2. CASE pc' = "post"
    BY <1>9, <1>i, <2>1, <2>2 DEF GetCrates, Flow, PastConfig, PastSelect, Settled
  <2>3. CASE pc' = "judge"
    BY <1>9, <1>i, <2>1, <2>3, FlowKept DEF GetCrates
  <2> QED BY <1>9, <2>2, <2>3 DEF GetCrates
<1>10. CASE PostProcessing
  <2>1. Excluded' = Excluded /\ Compiled' = Compiled /\ findings = Compiled
    BY <1>10, <1>i DEF PostProcessing, Excluded, Compiled, Detected, Flow
  <2>2. /\ pc = "post" /\ pc' = "output"
        /\ opts' = opts /\ detectors' = detectors /\ messages' = messages
    BY <1>10 DEF PostProcessing
  <2>3. /\ AllowLint \in detectors => 
             /\ findings' = PostProcess(messages, Compiled, Compiled)
             /\ stdout' \in {{}, PostProcess(messages, DOMAIN messages, Compiled)}
        /\ AllowLint \notin detectors => findings' = Compiled
    BY <1>10, <2>1 DEF PostProcessing
  <2> HIDE DEF Compiled, Excluded
  <2> QED BY <1>i, <2>1, <2>2, <2>3 DEF Flow, PastConfig, PastSelect, Settled
<1>11. CASE Output
  BY <1>11, <1>i, FlowKept DEF Output, Settled
<1>12. CASE OpenReport
  BY <1>12, <1>i, FlowKept DEF OpenReport, Settled
<1>13. CASE WriteReport
  BY <1>13, <1>i, FlowKept DEF WriteReport, WriteShort, WriteFails, Settled
<1>14. CASE RemoveFail
  BY <1>14, <1>i, FlowKept DEF RemoveFail, Settled
<1>15. CASE Return
  BY <1>15, <1>i, FlowKept DEF Return
<1>16. CASE Kill
  BY <1>16, <1>i, FlowKept DEF Kill
<1>17. CASE UNCHANGED vars
  BY <1>17, <1>i, FlowKept DEF vars
<1> QED BY <1>1, <1>2, <1>3, <1>4, <1>5, <1>6, <1>7, <1>8, <1>a, <1>b, <1>9, <1>10, <1>11, <1>12,
           <1>13, <1>14, <1>15, <1>16, <1>17 DEF Next, Step

LEMMA Invariance == Spec => []IInv
<1>1. IInv /\ [Next]_vars => IInv'
  BY NextType, NextFlow DEF IInv
<1> QED BY InitInv, <1>1, PTL DEF Spec

\* TypeOK: every variable of a run keeps its type.
THEOREM TypeCorrect == Spec => []TypeOK
BY Invariance, PTL DEF IInv

\* OnlyAsked: however the configuration file and the command line restrict the
\* detectors, nothing that a detector they took out has found is reported.
THEOREM OnlyAskedAlways == Spec => []OnlyAsked
<1>1. IInv => OnlyAsked
  <2> SUFFICES ASSUME IInv, NEW i \in findings
               PROVE  /\ opts.config # Unset => messages[i].code \notin opts.config.exclude
                      /\ opts.filter # Unset => messages[i].code \in opts.filter
                      /\ opts.exclude # Unset => messages[i].code \notin opts.exclude
    BY DEF OnlyAsked, Reported
  <2>1. PastConfig /\ PastSelect
    BY DEF IInv, Flow, PastConfig, PastSelect
  <2>2. findings \subseteq Compiled
    BY DEF IInv, TypeOK, Flow, PostProcess, Settled
  <2>3. messages[i].code \in detectors
    BY <2>2 DEF Compiled, SplitFindings, Detected, IsScoutFinding
  <2> QED BY <2>1, <2>3 DEF IInv, Flow, Excluded
<1> QED BY Invariance, <1>1, PTL

\* SuppressedTogether: with unnecessary_lint_allow selected, an allow and the
\* finding it covers, when both their crates compiled, are both left out of the
\* report and of what an editor is given.
THEOREM SuppressedTogetherAlways == Spec => []SuppressedTogether
<1>1. IInv => SuppressedTogether
  <2> SUFFICES ASSUME IInv, pc \in Settled, AllowLint \in detectors,
                      NEW i \in Compiled, NEW j \in Compiled,
                      Covers(messages[i], messages[j])
               PROVE  {i, j} \cap (findings \cup stdout) = {}
    BY DEF SuppressedTogether, Compiled
  <2> DEFINE cache == {messages[k] : k \in Compiled}
  <2>1. messages[i] \in cache /\ messages[j] \in cache
    OBVIOUS
  <2>2. IsAllow(messages[i]) /\ ~IsAllow(messages[j])
    BY DEF Covers
  <2>3. ~ShouldInclude(messages[i], cache) /\ ~ShouldInclude(messages[j], cache)
    BY <2>1, <2>2 DEF ShouldInclude
  <2>4. ASSUME NEW S PROVE i \notin PostProcess(messages, S, Compiled) /\
                           j \notin PostProcess(messages, S, Compiled)
    BY <2>3 DEF PostProcess
  <2>5. /\ findings = PostProcess(messages, Compiled, Compiled)
        /\ stdout \in {{}, PostProcess(messages, DOMAIN messages, Compiled)}
    BY DEF IInv, Flow
  <2> HIDE DEF cache
  <2> QED BY <2>4, <2>5
<1> QED BY Invariance, <1>1, PTL

-----------------------------------------------------------------------------
\* FailFileHonest is inductive as it stands: while it holds and FAIL is absent,
\* the only step left is the return.
\* FailFileHonest: with --cicd, no failure or kill at any step makes the absence
\* of FAIL mean anything but a complete run with nothing to report.
THEOREM FailFileHonestAlways == Spec => []FailFileHonest
<1>1. Init => FailFileHonest
  BY DEF Init, FailFileHonest
<1>2. FailFileHonest /\ [Next]_vars => FailFileHonest'
  <2> SUFFICES ASSUME FailFileHonest, [Next]_vars PROVE FailFileHonest'
    OBVIOUS
  <2> USE DEF FailFileHonest, At, Proceed, Finish, MayFail, input, found, output
  <2>1. CASE Validate
    BY <2>1 DEF Validate
  <2>2. CASE CreateFail
    BY <2>2 DEF CreateFail
  <2>3. CASE ReadProject \/ LoadConfig \/ Select \/ Build
    BY <2>3 DEF ReadProject, LoadConfig, Select, Build
  <2>4. ASSUME NEW m \in Alphabet, Emit(m) PROVE FailFileHonest'
    BY <2>4 DEF Emit
  <2>5. CASE RunDylint \/ ReadOutput \/ JudgeMessage \/ GetCrates \/ PostProcessing
    BY <2>5 DEF RunDylint, ReadOutput, JudgeMessage, GetCrates, PostProcessing
  <2>6. CASE Output \/ OpenReport \/ WriteReport
    BY <2>6 DEF Output, OpenReport, WriteReport, WriteShort, WriteFails
  <2>7. CASE RemoveFail
    BY <2>7 DEF RemoveFail, Clean
  <2>8. CASE Return \/ Kill
    BY <2>8 DEF Return, Kill
  <2>9. CASE UNCHANGED vars
    BY <2>9 DEF vars
  <2> QED BY <2>1, <2>2, <2>3, <2>4, <2>5, <2>6, <2>7, <2>8, <2>9 DEF Next, Step
<1> QED BY <1>1, <1>2, PTL DEF Spec

-----------------------------------------------------------------------------
(* The verdicts.                                                             *)

NamesUpTo(k) == UNION {Affected(messages[i]) : i \in {i \in 1 .. k : IsCompilerMessage(messages[i])}}

AccusedUpTo(n, k) == \E i \in 1 .. k : IsCompilerError(messages[i]) /\ n \in Affected(messages[i])

\* The verdicts sum up the messages judged so far.
Judging == /\ pc \notin {"judge", "post"} \cup Settled => judged = 0
           /\ pc \notin {"post"} \cup Settled => DOMAIN crates = {}
           /\ pc \in {"post"} \cup Settled => judged = Len(messages) /\ crates \in Crates(verdicts)
           /\ DOMAIN verdicts = NamesUpTo(judged)
           /\ \A n \in DOMAIN verdicts : verdicts[n] = ~AccusedUpTo(n, judged)

\* One more message: exactly the names it affects are judged, and only an error
\* changes a verdict for the worse.
LEMMA JudgeOne ==
  ASSUME TypeOK, Judging, judged < Len(messages),
         IsCompilerMessage(messages[judged + 1])
  PROVE  LET after == Judge(verdicts, messages[judged + 1])
         IN  /\ DOMAIN after = NamesUpTo(judged + 1)
             /\ \A n \in DOMAIN after : after[n] = ~AccusedUpTo(n, judged + 1)
<1> DEFINE m == messages[judged + 1]
           after == Judge(verdicts, m)
<1>1. judged \in Nat /\ 1 .. (judged + 1) = (1 .. judged) \cup {judged + 1}
  BY DEF TypeOK
<1>2. NamesUpTo(judged + 1) = NamesUpTo(judged) \cup Affected(m)
  BY <1>1 DEF NamesUpTo
<1>3. DOMAIN after = NamesUpTo(judged + 1)
  BY <1>2 DEF Judge, Judging
<1>4. ASSUME NEW n PROVE AccusedUpTo(n, judged + 1) <=>
                           AccusedUpTo(n, judged) \/ (IsCompilerError(m) /\ n \in Affected(m))
  BY <1>1 DEF AccusedUpTo
<1>5. ASSUME NEW n \in DOMAIN after PROVE after[n] = ~AccusedUpTo(n, judged + 1)
  <2>1. after[n] = IF n \notin Affected(m) \/ (n \in DOMAIN verdicts /\ ~verdicts[n])
                   THEN verdicts[n] ELSE ~IsCompilerError(m)
    BY <1>5 DEF Judge
  <2>2. n \in DOMAIN verdicts \/ n \in Affected(m)
    BY <1>5 DEF Judge
  <2>3. n \in DOMAIN verdicts => verdicts[n] = ~AccusedUpTo(n, judged)
    BY DEF Judging
  <2>4. n \notin DOMAIN verdicts => ~AccusedUpTo(n, judged)
    BY DEF Judging, NamesUpTo, AccusedUpTo, IsCompilerError
  <2> HIDE DEF after, m
  <2>5. IsCompilerError(m) \in BOOLEAN /\ AccusedUpTo(n, judged) \in BOOLEAN
    BY DEF IsCompilerError, AccusedUpTo, IsCompilerMessage
  <2>6. AccusedUpTo(n, judged + 1) = (AccusedUpTo(n, judged) \/ (IsCompilerError(m) /\ n \in Affected(m)))
    BY <1>4 DEF AccusedUpTo
  <2>7. CASE n \notin Affected(m)
    BY <2>1, <2>2, <2>3, <2>6, <2>7
  <2>8. CASE n \in Affected(m) /\ n \in DOMAIN verdicts /\ ~verdicts[n]
    BY <2>1, <2>3, <2>5, <2>6, <2>8
  <2>9. CASE n \in Affected(m) /\ ~(n \in DOMAIN verdicts /\ ~verdicts[n])
    BY <2>1, <2>3, <2>4, <2>5, <2>6, <2>9
  <2> QED BY <2>7, <2>8, <2>9
<1> QED BY <1>3, <1>5

\* Steps that keep the messages and the verdicts, on one side of get_crates.
LEMMA JudgingKept ==
  ASSUME Judging, UNCHANGED <<messages, judged, verdicts, crates>>,
         \/ pc' = pc
         \/ {pc, pc'} \cap ({"judge", "post"} \cup Settled) = {}
         \/ {pc, pc'} \subseteq {"post"} \cup Settled
  PROVE  Judging'
BY DEF Judging, NamesUpTo, AccusedUpTo, Settled

LEMMA NextJudging == TypeOK /\ Judging /\ [Next]_vars => Judging'
<1> SUFFICES ASSUME TypeOK, Judging, [Next]_vars PROVE Judging'
  OBVIOUS
<1> USE DEF At, Proceed, Finish, MayFail, input, found, output
<1>1. CASE Validate \/ CreateFail \/ ReadProject
  BY <1>1, JudgingKept DEF Validate, CreateFail, ReadProject, Settled
<1>2. CASE LoadConfig \/ Select \/ Build \/ RunDylint
  BY <1>2, JudgingKept DEF LoadConfig, Select, Build, RunDylint, Settled
<1>3. ASSUME NEW m \in Alphabet, Emit(m) PROVE Judging'
  <2>1. judged = 0 /\ judged' = 0 /\ pc' = pc /\ pc = "dylint"
    BY <1>3 DEF Emit, Judging, Settled
  <2>2. 1 .. 0 = {}
    OBVIOUS
  <2>3. NamesUpTo(0) = {} /\ NamesUpTo(0)' = {}
    BY <2>2 DEF NamesUpTo
  <2>4. verdicts' = verdicts /\ crates' = crates
    BY <1>3 DEF Emit
  <2> QED BY <2>1, <2>3, <2>4 DEF Judging, Settled
<1>4. CASE ReadOutput
  <2>1. UNCHANGED <<messages, judged, verdicts, crates>> /\ pc = "read" /\ pc' \in {"read", "judge"}
    BY <1>4 DEF ReadOutput
  <2> QED BY <2>1 DEF Judging, NamesUpTo, AccusedUpTo, Settled
<1>5. CASE JudgeMessage
  <2>1. CASE UNCHANGED <<judged, verdicts>>
    BY <1>5, <2>1, JudgingKept DEF JudgeMessage
  <2>2. CASE /\ verdicts' = IF IsCompilerMessage(messages[judged + 1])
                            THEN Judge(verdicts, messages[judged + 1]) ELSE verdicts
             /\ judged' = judged + 1
    <3>1. UNCHANGED <<messages, crates>> /\ pc = "judge" /\ pc' = "judge" /\ judged < Len(messages)
      BY <1>5, <2>2 DEF JudgeMessage
    <3>2. /\ DOMAIN verdicts' = NamesUpTo(judged + 1)
          /\ \A n \in DOMAIN verdicts' : verdicts'[n] = ~AccusedUpTo(n, judged + 1)
      <4>1. CASE IsCompilerMessage(messages[judged + 1])
        BY <2>2, <3>1, <4>1, JudgeOne
      <4>2. CASE ~IsCompilerMessage(messages[judged + 1])
        <5>1. 1 .. (judged + 1) = (1 .. judged) \cup {judged + 1}
          BY DEF TypeOK
        <5>2. NamesUpTo(judged + 1) = NamesUpTo(judged)
          BY <4>2, <5>1 DEF NamesUpTo
        <5>3. \A n : AccusedUpTo(n, judged + 1) = AccusedUpTo(n, judged)
          BY <4>2, <5>1 DEF AccusedUpTo, IsCompilerError
        <5> QED BY <2>2, <4>2, <5>2, <5>3 DEF Judging
      <4> QED BY <4>1, <4>2
    <3>3. /\ NamesUpTo(judged)' = NamesUpTo(judged + 1)
          /\ \A n : AccusedUpTo(n, judged)' = AccusedUpTo(n, judged + 1)
      BY <2>2, <3>1 DEF NamesUpTo, AccusedUpTo
    <3> QED BY <3>1, <3>2, <3>3 DEF Judging, Settled
  <2> QED BY <1>5, <2>1, <2>2 DEF JudgeMessage
<1>6. CASE GetCrates
  <2>1. /\ UNCHANGED <<messages, judged, verdicts>> /\ pc' = "post"
        /\ judged = Len(messages) /\ crates' \in Crates(verdicts)
    BY <1>6 DEF GetCrates
  <2> QED BY <2>1 DEF Judging, NamesUpTo, AccusedUpTo, Settled
<1>7. CASE PostProcessing \/ Output
  BY <1>7, JudgingKept DEF PostProcessing, Output, Settled
<1>8. CASE OpenReport \/ WriteReport \/ RemoveFail \/ Return
  BY <1>8, JudgingKept DEF OpenReport, WriteReport, WriteShort, WriteFails, RemoveFail, Return, Settled
<1>9. CASE Kill \/ UNCHANGED vars
  BY <1>9, JudgingKept DEF Kill, vars
<1> QED BY <1>1, <1>2, <1>3, <1>4, <1>5, <1>6, <1>7, <1>8, <1>9 DEF Next, Step

LEMMA JudgingInvariance == Spec => []Judging
<1>1. Init => Judging
  BY DEF Init, Judging, NamesUpTo, AccusedUpTo, Settled
<1>2. TypeOK /\ Judging /\ [Next]_vars => Judging'
  BY NextJudging
<1> QED BY <1>1, <1>2, TypeCorrect, PTL DEF Spec

\* Once every message is judged, the verdicts speak of all of them.
LEMMA AllJudged ==
  ASSUME TypeOK, Judging, judged = Len(messages)
  PROVE  /\ DOMAIN verdicts = Names
         /\ \A n \in Names : verdicts[n] = ~Accused(n)
<1>1. DOMAIN messages = 1 .. judged
  BY DEF TypeOK
<1>2. NamesUpTo(judged) = Names /\ \A n : AccusedUpTo(n, judged) = Accused(n)
  BY <1>1 DEF NamesUpTo, AccusedUpTo, Names, Accused
<1> QED BY <1>2 DEF Judging

LEMMA VerdictsFollow == TypeOK /\ Judging => VerdictsRight
<1> SUFFICES ASSUME TypeOK, Judging, NEW k \in DOMAIN crates
             PROVE  IF crates[k]
                    THEN \/ \A n \in Names : Underscored(n) # k
                         \/ \E n \in Names : Underscored(n) = k /\ ~Accused(n)
                    ELSE \E n \in Names : Underscored(n) = k /\ Accused(n)
  BY DEF VerdictsRight
<1>1. judged = Len(messages) /\ crates \in Crates(verdicts)
  BY DEF Judging
<1>2. DOMAIN verdicts = Names /\ \A n \in Names : verdicts[n] = ~Accused(n)
  BY <1>1, AllJudged
<1> DEFINE said == {verdicts[n] : n \in {n \in DOMAIN verdicts : Underscored(n) = k}}
<1>3. crates[k] \in IF said = {} THEN {TRUE} ELSE said
  BY <1>1 DEF Crates
<1>4. CASE said = {}
  BY <1>2, <1>3, <1>4
<1>5. CASE said # {}
  <2>1. PICK n \in DOMAIN verdicts : Underscored(n) = k /\ crates[k] = verdicts[n]
    BY <1>3, <1>5
  <2> QED BY <1>2, <2>1
<1> QED BY <1>4, <1>5

\* VerdictsRight: for any number of messages in any order, a crate counts as
\* failed exactly because of errors printed under its names, up to the choice
\* between two names of one crate.
THEOREM VerdictsRightAlways == Spec => []VerdictsRight
BY TypeCorrect, JudgingInvariance, VerdictsFollow, PTL

-----------------------------------------------------------------------------
\* The dashed name of a target is a key of the verdicts only when the target's
\* name has no separator at all.
LEMMA DashedKey ==
  ASSUME NEW t \in Name, NEW q \in Name, Dashed(t) = Underscored(q)
  PROVE  Underscored(t) = Dashed(t)
<1>1. Underscored(q).sep # "-"
  BY DEF Name, Underscored
<1>2. CASE t.sep = "_"
  BY <1>1, <1>2 DEF Name, Dashed
<1>3. CASE t.sep = "-"
  BY <1>1, <1>3 DEF Name, Dashed
<1>4. CASE t.sep = ""
  BY <1>4 DEF Name, Dashed, Underscored
<1> QED BY <1>2, <1>3, <1>4 DEF Name

LEMMA NothingLost == IInv /\ Judging => NoFindingLost
<1> SUFFICES ASSUME IInv, Judging, pc \in Settled, NEW i \in Detected \ findings
             PROVE  \/ \E n \in Names : /\ Underscored(n) = Underscored(messages[i].target)
                                         /\ Accused(n)
                    \/ Nameless(messages[i])
                    \/ /\ AllowLint \in detectors
                       /\ \/ ~Parsable(messages[i])
                          \/ \E j \in Detected : \/ Covers(messages[i], messages[j])
                                                \/ Covers(messages[j], messages[i])
  BY DEF NoFindingLost
<1> DEFINE f == messages[i]
           k == Dashed(f.target)
<1>1. CASE i \in Compiled
  <2>1. AllowLint \in detectors /\ i \notin PostProcess(messages, Compiled, Compiled)
    BY <1>1 DEF IInv, Flow
  <2>2. ~ShouldInclude(f, {messages[j] : j \in Compiled})
    BY <1>1, <2>1 DEF PostProcess
  <2>3. Compiled \subseteq Detected
    BY DEF Compiled, SplitFindings
  <2> QED BY <2>1, <2>2, <2>3 DEF ShouldInclude
<1>3. CASE Nameless(f)
  BY <1>3
<1>2. CASE i \notin Compiled /\ ~Nameless(f)
  <2>1. k \in DOMAIN crates /\ ~crates[k]
    BY <1>2 DEF Compiled, SplitFindings, Successful
  <2>2. PICK n \in Names : Underscored(n) = k /\ Accused(n)
    BY <2>1, VerdictsFollow DEF VerdictsRight, IInv
  <2>3. crates \in Crates(verdicts)
    BY DEF Judging
  <2>4. PICK p \in Packages : k = Underscored(p.name)
    BY <2>1, <2>3 DEF Crates
  <2>5. f.target \in Name /\ p.name \in Name
    BY AlphabetAssumption, NamesAssumption DEF IInv, TypeOK, Detected
  <2>6. Underscored(f.target) = k
    BY <2>4, <2>5, DashedKey
  <2> QED BY <2>2, <2>6
<1> QED BY <1>1, <1>2, <1>3

\* NoFindingLost: a finding of a selected detector is left out only for an error
\* of its crate, an allow, or want of a place or a name: whatever the targets.
THEOREM NoFindingLostAlways == Spec => []NoFindingLost
BY Invariance, JudgingInvariance, NothingLost, PTL

-----------------------------------------------------------------------------
LastThere ==
  LET path == PathOf(Last(Formats))
  IN  path \in DOMAIN reports /\ reports[path].format = Last(Formats)

\* What is still to be written ends with the last format, and the only file that
\* may be half-written is the one at hand.
Writing ==
  /\ pc \in {"report", "write"} => /\ todo \in Seq(STRING)
                                   /\ todo # <<>> => Last(todo) = Last(Formats)
  /\ pc = "write" => todo # <<>>
  /\ pc = "return" => todo = <<>>
  /\ pc \notin {"report", "write", "return"} => DOMAIN reports = {}
  /\ \A p \in DOMAIN reports :
       \/ reports[p].whole \/ reports[p].format \in WrittenOnce
       \/ pc = "write" /\ p = PathOf(Head(todo))
  /\ pc \in {"report", "return"} /\ todo = <<>> /\ ~opts.vscode /\ Formats # <<>> => LastThere

LEMMA FormatsType == opts \in Requests => Formats \in Seq(STRING)
BY FormatsAssumption DEF Formats

\* Writing the first of the formats left, to its end or as far as the code looks,
\* keeps what is known of them.
LEMMA WriteOne == ASSUME TypeOK, Writing, todo # <<>>, pc \in {"report", "write"},
                         NEW whole, whole = TRUE \/ Head(todo) \in WrittenOnce,
                         Put(Head(todo), whole), Written, pc' = "report", UNCHANGED opts
                  PROVE  Writing'
<1> DEFINE path == PathOf(Head(todo))
<1>1. /\ todo \in Seq(STRING) /\ Len(todo) \in Nat \ {0}
      /\ Last(todo) = Last(Formats)
  BY DEF Writing
<1>2. /\ todo' \in Seq(STRING)
      /\ todo' # <<>> => Last(todo') = Last(todo)
      /\ todo' = <<>> => Head(todo) = Last(todo)
  <2> DEFINE rest == Tail(todo)
  <2>1. /\ rest \in Seq(STRING) /\ Len(rest) = Len(todo) - 1
        /\ \A i \in 1 .. Len(rest) : rest[i] = todo[i + 1]
    BY <1>1
  <2>2. rest # <<>> => Len(rest) \in 1 .. Len(rest)
    BY <1>1, <2>1
  <2>3. rest # <<>> => rest[Len(rest)] = todo[Len(todo)]
    BY <1>1, <2>1, <2>2
  <2>4. rest = <<>> => Len(todo) = 1
    <3> HIDE DEF rest
    <3>1. rest = <<>> => Len(rest) = 0
      OBVIOUS
    <3> QED BY <1>1, <2>1, <3>1
  <2>5. rest = <<>> => Head(todo) = todo[Len(todo)]
    <3>1. Head(todo) = todo[1]
      BY <1>1
    <3> QED BY <2>4, <3>1
  <2> HIDE DEF rest
  <2>6. todo' = rest
    BY DEF Written, rest
  <2> QED BY <2>1, <2>3, <2>5, <2>6 DEF Last
<1>3. /\ DOMAIN reports' = DOMAIN reports \cup {path}
      /\ reports'[path] = [format |-> Head(todo), whole |-> whole]
      /\ \A p \in DOMAIN reports : p # path => reports'[p] = reports[p]
  BY DEF Put
<1>4. Formats' = Formats /\ \A f : PathOf(f)' = PathOf(f)
  BY DEF Formats, PathOf
<1>5. todo' # <<>> => Last(todo') = Last(Formats')
  BY <1>1, <1>2, <1>4
<1>6. \A p \in DOMAIN reports' : reports'[p].whole \/ reports'[p].format \in WrittenOnce
  <2> SUFFICES ASSUME NEW p \in DOMAIN reports'
               PROVE  reports'[p].whole \/ reports'[p].format \in WrittenOnce
    OBVIOUS
  <2>1. CASE p = path
    BY <1>3, <2>1
  <2>2. CASE p # path
    <3>1. p \in DOMAIN reports /\ reports'[p] = reports[p]
      BY <1>3, <2>2
    <3>2. \/ reports[p].whole \/ reports[p].format \in WrittenOnce
          \/ pc = "write" /\ p = path
      BY <3>1 DEF Writing
    <3> QED BY <2>2, <3>1, <3>2
  <2> QED BY <2>1, <2>2
<1>7. todo' = <<>> => LastThere'
  <2> SUFFICES ASSUME todo' = <<>> PROVE LastThere'
    OBVIOUS
  <2>1. Head(todo) = Last(Formats)
    BY <1>1, <1>2
  <2> QED BY <1>3, <1>4, <2>1 DEF LastThere
<1> QED BY <1>2, <1>5, <1>6, <1>7 DEF Writing

LEMMA NextWriting == IInv /\ Writing /\ [Next]_vars => Writing'
<1> SUFFICES ASSUME IInv, Writing, [Next]_vars PROVE Writing'
  OBVIOUS
<1>0. TypeOK /\ opts \in Requests
  BY DEF IInv, TypeOK
<1>1. UNCHANGED opts
  BY DEF vars, input, Next, Step, Validate, CreateFail, ReadProject, LoadConfig, Select, Build,
         RunDylint, ReadOutput, JudgeMessage, GetCrates, PostProcessing, Output, OpenReport,
         WriteReport, RemoveFail, Return, Kill, Emit
<1>2. Formats' = Formats /\ \A f : PathOf(f)' = PathOf(f)
  BY <1>1 DEF Formats, PathOf
<1>3. ASSUME UNCHANGED <<todo, reports, pc>> PROVE Writing'
  BY <1>1, <1>2, <1>3 DEF Writing, LastThere
<1>4. CASE Output
  <2>1. CASE exit' = "error"
    BY <1>1, <1>2, <1>4, <2>1 DEF Output, At, Proceed, Finish, MayFail, Writing
  <2>2. CASE exit' # "error"
    <3>1. /\ pc = "output" /\ pc' = "report" /\ UNCHANGED reports
          /\ todo' = IF opts.vscode THEN <<>> ELSE Formats
      BY <1>4, <2>2 DEF Output, At, Proceed, Finish, MayFail
    <3>2. todo' \in Seq(STRING) /\ (todo' # <<>> => todo' = Formats)
      <4>1. todo' = <<>> \/ todo' = Formats
        BY <3>1
      <4>2. <<>> \in Seq(STRING)
        OBVIOUS
      <4> QED BY <1>0, <4>1, <4>2, FormatsType
    <3> QED BY <1>1, <1>2, <3>1, <3>2 DEF Writing
  <2> QED BY <2>1, <2>2
<1>5. CASE OpenReport
  <2> DEFINE path == PathOf(Head(todo))
  <2>1. pc = "report" /\ pc' = "write" /\ UNCHANGED todo /\ todo # <<>>
    BY <1>5 DEF OpenReport, At, Proceed
  <2>2. /\ DOMAIN reports' = DOMAIN reports \cup {path}
        /\ \A p \in DOMAIN reports : p # path => reports'[p] = reports[p]
    BY <1>5 DEF OpenReport, Put
  <2>3. \A p \in DOMAIN reports' :
          reports'[p].whole \/ reports'[p].format \in WrittenOnce \/ p = path
    <3> SUFFICES ASSUME NEW p \in DOMAIN reports', p # path
                 PROVE  reports'[p].whole \/ reports'[p].format \in WrittenOnce
      OBVIOUS
    <3>1. p \in DOMAIN reports /\ reports'[p] = reports[p]
      BY <2>2
    <3> QED BY <2>1, <3>1 DEF Writing
  <2> HIDE DEF path
  <2>4. \A p \in DOMAIN reports' :
          \/ reports'[p].whole \/ reports'[p].format \in WrittenOnce
          \/ p = PathOf(Head(todo))'
    BY <1>2, <2>1, <2>3 DEF path
  <2> QED BY <1>1, <1>2, <2>1, <2>4 DEF Writing
<1>6. CASE WriteReport
  <2>1. todo # <<>> /\ pc \in {"report", "write"}
    BY <1>6 DEF WriteReport
  <2>2. CASE Put(Head(todo), TRUE) /\ Written /\ Proceed("report")
    BY <1>0, <1>1, <2>1, <2>2, WriteOne DEF Proceed
  <2>3. CASE WriteFails
    BY <1>3, <2>3 DEF WriteFails, MayFail, Finish
  <2>4. CASE WriteShort
    BY <1>0, <1>1, <2>1, <2>4, WriteOne DEF WriteShort, Proceed
  <2> QED BY <1>6, <2>2, <2>3, <2>4 DEF WriteReport
<1>7. CASE RemoveFail
  <2>1. pc = "report" /\ pc' = "return" /\ todo = <<>> /\ UNCHANGED <<todo, reports>>
    BY <1>7 DEF RemoveFail, At, Proceed, output
  <2> QED BY <1>1, <1>2, <2>1 DEF Writing, LastThere
<1>8. ASSUME /\ pc \notin {"report", "write", "return"}
             /\ pc' \notin {"report", "write", "return"}
             /\ UNCHANGED <<todo, reports>>
      PROVE  Writing'
  BY <1>8 DEF Writing
<1>9. CASE Validate \/ CreateFail \/ ReadProject \/ LoadConfig \/ Select \/ Build
  BY <1>8, <1>9 DEF Validate, CreateFail, ReadProject, LoadConfig, Select, Build, At, Proceed,
                    Finish, MayFail, output
<1>10. CASE RunDylint \/ ReadOutput \/ JudgeMessage \/ GetCrates \/ PostProcessing
  BY <1>8, <1>10 DEF RunDylint, ReadOutput, JudgeMessage, GetCrates, PostProcessing, At, Proceed,
                     Finish, MayFail, output
<1>11. CASE Return \/ Kill
  BY <1>3, <1>11 DEF Return, Kill, Finish, output
<1>12. ASSUME NEW m \in Alphabet, Emit(m) PROVE Writing'
  BY <1>3, <1>12 DEF Emit, output
<1>13. CASE UNCHANGED vars
  BY <1>3, <1>13 DEF vars, output
<1> QED BY <1>4, <1>5, <1>6, <1>7, <1>9, <1>10, <1>11, <1>12, <1>13 DEF Next, Step

\* ReportsTold: whatever fails on the way, a run that ends well has put the last
\* format it was asked for in its file, and what is half-written is of a format
\* whose short writes the code does not see.
THEOREM ReportsAreTold == Spec => []ReportsTold
<1>1. Init => Writing
  BY DEF Init, Writing
<1>2. Writing => ReportsTold
  BY DEF Writing, ReportsTold, LastThere
<1>3. Spec => []IInv
  BY Invariance
<1> QED BY <1>1, <1>2, <1>3, NextWriting, PTL DEF Spec
=============================================================================
