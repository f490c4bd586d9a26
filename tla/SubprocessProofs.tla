-------------------------- MODULE SubprocessProofs --------------------------
(* Any number of scout processes at once: with any inputs and any names for   *)
(* the temporary files their calls do not mix; and what they do to the files  *)
(* of the user, and to the directories they build in, does not mislead the    *)
(* others, but for the races that the properties name.                       *)
EXTENDS Subprocess, RunPreparation, FiniteSetTheorems, TLAPS

Busy(c) == pc[c] \notin {"idle", "dead"}

\* What a caller and its subprocess know of each other.
Agreed(c) ==
  /\ pc[c] = "idle" => child[c].at \in {"none", "exited"}
  /\ pc[c] \in {"input", "output", "spawn"} => child[c] = NoChild
  /\ pc[c] = "wait" => child[c].at # "none"
  /\ pc[c] \in {"clean", "read", "return"} => child[c].at = "exited"
  /\ child[c].at \in {"run", "write"} => child[c].input = asked[c]
  /\ pc[c] = "return" => answer[c] = Answer[asked[c]]
  /\ reply[c] = Promise!Pending <=> Busy(c)

\* What is in the files in use: nothing of another call.
Held(c) ==
  /\ UsesInput(c) => input[c] \in Paths /\ files[input[c]] \in {Part(asked[c]), Whole(asked[c])}
  /\ UsesOutput(c) => /\ output[c] \in Paths /\ files[output[c]] # Absent
                      /\ files[output[c]].kind = "whole" => files[output[c]].data = Answer[asked[c]]
  /\ UsesInput(c) /\ UsesOutput(c) => input[c] # output[c]

Apart(c, d) == /\ UsesInput(c) /\ UsesInput(d) => input[c] # input[d]
               /\ UsesInput(c) /\ UsesOutput(d) => input[c] # output[d]
               /\ UsesOutput(c) /\ UsesOutput(d) => output[c] # output[d]

Separate == /\ \A c \in Callers : Agreed(c) /\ Held(c)
            /\ \A c, d \in Callers : c # d => Apart(c, d)

IInv == TypeOK /\ Separate

-----------------------------------------------------------------------------
\* What the actions put into the state has its type.
LEMMA Values ==
  /\ Promise!Pending \in Replies /\ Promise!Error \in Replies
  /\ Absent \in Contents /\ Empty \in Contents /\ NoChild \in Children
  /\ \A x \in Data : Promise!Ok(x) \in Replies /\ Part(x) \in Contents /\ Whole(x) \in Contents
  /\ \A f \in Contents : f.data \in Data
  /\ \A i \in Inputs : i \in Data /\ Answer[i] \in Data
<1>1. "none" \in Data /\ \A i \in Inputs : i \in Data /\ Answer[i] \in Data
  BY DEF Data
<1> QED BY <1>1, Zenon DEF Replies, Contents, Children, Promise!Pending, Promise!Error, Promise!Ok,
           Absent, Empty, Part, Whole, NoChild

LEMMA ChildValues ==
  ASSUME NEW k \in Children
  PROVE  /\ \A at \in {"start", "run", "write"} : [k EXCEPT !.at = at] \in Children
         /\ \A code \in {0, 1, 101, Signalled} : [k EXCEPT !.at = "exited", !.code = code] \in Children
         /\ \A i \in Inputs : [k EXCEPT !.at = "run", !.input = i] \in Children
BY DEF Children, Signalled

\* The state keeps its type, because what is read from a file in use has one.
LEMMA NextType == IInv /\ [Next]_vars => TypeOK'
<1> SUFFICES ASSUME IInv, [Next]_vars PROVE TypeOK'
  OBVIOUS
<1>i. TypeOK /\ Separate
  BY DEF IInv
<1>f. failures \in Nat /\ calls \in Nat => failures + 1 \in Nat /\ calls + 1 \in Nat
  OBVIOUS
<1>p. kept \in Nat => kept + 1 \in Nat
  OBVIOUS
<1>k. \A c \in Callers : child[c] \in Children
  BY <1>i DEF TypeOK
<1>v. \A c \in Callers, code \in {0, 1, 101, Signalled} :
        [child[c] EXCEPT !.at = "exited", !.code = code] \in Children
  BY <1>k, ChildValues
<1> USE <1>i, Values DEF TypeOK, At, Proceed, Fail, Put, CallerSteps, caller
<1>1. ASSUME NEW c \in Callers, NEW i \in Inputs, Call(c, i) PROVE TypeOK'
  BY <1>1, <1>f DEF Call
<1>2. ASSUME NEW c \in Callers, MakeInput(c) PROVE TypeOK'
  <2>1. ASSUME NEW path \in Paths, input' = [input EXCEPT ![c] = path],
               NEW contents \in Contents, Put(path, contents), Proceed(c, "output") \/ Fail(c)
        PROVE  TypeOK'
    <3>1. input' \in [Callers -> Paths \cup {NoPath}] /\ files' \in [Paths -> Contents]
      BY <2>1
    <3>2. pc' \in [Callers -> CallerSteps] /\ reply' \in [Callers -> Replies] /\ failures' \in Nat
      <4>1. CASE Proceed(c, "output")
        BY <1>2, <4>1 DEF MakeInput
      <4>2. CASE Fail(c)
        BY <1>2, <4>2, <1>f DEF MakeInput
      <4> QED BY <2>1, <4>1, <4>2
    <3>3. UNCHANGED <<asked, output, answer, child, calls, kept>>
      BY <1>2, <2>1 DEF MakeInput
    <3> QED BY <3>1, <3>2, <3>3
  <2>2. CASE Fail(c) /\ UNCHANGED <<input, files>>
    BY <1>2, <2>2, <1>f DEF MakeInput
  <2>3. asked[c] \in Data
    BY <1>2
  <2> HIDE DEF TypeOK, Proceed, Put, Fail
  <2> QED BY <1>2, <2>1, <2>2, <2>3 DEF MakeInput
<1>3. ASSUME NEW c \in Callers, MakeOutput(c) PROVE TypeOK'
  <2>1. ASSUME NEW path \in Paths, output' = [output EXCEPT ![c] = path], Put(path, Empty),
               Proceed(c, "spawn")
        PROVE  TypeOK'
    BY <1>3, <2>1 DEF MakeOutput
  <2>2. CASE Fail(c) /\ UNCHANGED <<output, files>>
    BY <1>3, <2>2, <1>f DEF MakeOutput
  <2> HIDE DEF TypeOK, Proceed, Put
  <2> QED BY <1>3, <2>1, <2>2 DEF MakeOutput
<1>4. ASSUME NEW c \in Callers, Spawn(c) PROVE TypeOK'
  <2>1. [child[c] EXCEPT !.at = "start"] \in Children
    BY <1>k, ChildValues
  <2>2. CASE child' = [child EXCEPT ![c].at = "start"] /\ Proceed(c, "wait")
    BY <1>4, <2>1, <2>2 DEF Spawn
  <2>3. CASE Fail(c) /\ UNCHANGED child
    BY <1>4, <2>3, <1>f DEF Spawn
  <2> QED BY <1>4, <2>2, <2>3 DEF Spawn
<1>5. ASSUME NEW c \in Callers, Wait(c) PROVE TypeOK'
  <2>1. CASE Proceed(c, "clean")
    BY <1>5, <2>1 DEF Wait
  <2>2. CASE Fail(c)
    BY <1>5, <1>f, <2>2 DEF Wait
  <2> QED BY <1>5, <2>1, <2>2 DEF Wait
<1>6. ASSUME NEW c \in Callers, RemoveInput(c) PROVE TypeOK'
  <2>1. CASE Remove(input[c])
    BY <1>6, <2>1 DEF RemoveInput, Remove
  <2>2. CASE kept' = kept + 1 /\ UNCHANGED files
    BY <1>6, <1>p, <2>2 DEF RemoveInput
  <2> QED BY <1>6, <2>1, <2>2 DEF RemoveInput, TryRemove
<1>7. ASSUME NEW c \in Callers, ReadOutput(c) PROVE TypeOK'
  <2>1. output[c] \in Paths
    BY <1>7 DEF ReadOutput, Separate, Held, UsesOutput
  <2>2. files[output[c]].data \in Data
    BY <2>1
  <2> QED BY <1>7, <2>2, <1>f DEF ReadOutput
<1>8. ASSUME NEW c \in Callers, Return(c) PROVE TypeOK'
  <2>1. CASE Remove(output[c])
    BY <1>8, <2>1 DEF Return, Remove
  <2>2. CASE kept' = kept + 1 /\ UNCHANGED files
    BY <1>8, <1>p, <2>2 DEF Return
  <2> QED BY <1>8, <2>1, <2>2 DEF Return, TryRemove
<1>9. ASSUME NEW c \in Callers, Kill(c) PROVE TypeOK'
  BY <1>9, <1>f DEF Kill
<1>e. ASSUME NEW c \in Callers, NEW code \in {0, 1, 101, Signalled}, Exit(c, code)
      PROVE  child' \in [Callers -> Children]
  <2>1. [child[c] EXCEPT !.at = "exited", !.code = code] \in Children
    BY <1>v
  <2> QED BY <1>e, <2>1 DEF Exit
<1>10. ASSUME NEW c \in Callers, ChildRead(c) PROVE TypeOK'
  <2>1. files[input[c]].kind = "whole" => files[input[c]].data \in Inputs
    BY <1>10 DEF ChildRead, Separate, Held, UsesInput, Part, Whole
  <2>2. CASE files[input[c]].kind = "whole"
    <3>1. [child[c] EXCEPT !.at = "run", !.input = files[input[c]].data] \in Children
      BY <1>k, <2>1, <2>2, ChildValues
    <3> QED BY <1>10, <2>2, <3>1 DEF ChildRead
  <2>3. CASE files[input[c]].kind # "whole"
    BY <1>10, <2>3, <1>e DEF ChildRead
  <2> QED BY <2>2, <2>3
<1>11. ASSUME NEW c \in Callers, ChildRun(c) PROVE TypeOK'
  <2>1. [child[c] EXCEPT !.at = "write"] \in Children
    BY <1>k, ChildValues
  <2>2. child' \in [Callers -> Children]
    BY <1>11, <2>1, <1>e DEF ChildRun
  <2> QED BY <1>11, <2>2 DEF ChildRun
<1>12. ASSUME NEW c \in Callers, ChildWrite(c) PROVE TypeOK'
  <2>1. child[c].input \in Inputs /\ Answer[child[c].input] \in Data
    BY <1>12 DEF ChildWrite, Separate, Agreed
  <2> QED BY <1>12, <2>1, <1>e DEF ChildWrite
<1>13. ASSUME NEW c \in Callers, ChildKilled(c) PROVE TypeOK'
  BY <1>13, <1>e DEF ChildKilled
<1>14. CASE UNCHANGED vars
  BY <1>14 DEF vars
<1> HIDE DEF TypeOK
<1> QED BY <1>1, <1>2, <1>3, <1>4, <1>5, <1>6, <1>7, <1>8, <1>9, <1>10, <1>11, <1>12, <1>13, <1>14
        DEF Next, CallerStep, ChildStep
-----------------------------------------------------------------------------
\* A step of caller c: the other calls are as they were, and the only files that
\* change are those c uses and those nobody has.
Touch(c) ==
  /\ \A d \in Callers \ {c} :
       /\ pc'[d] = pc[d] /\ asked'[d] = asked[d] /\ reply'[d] = reply[d] /\ input'[d] = input[d]
       /\ output'[d] = output[d] /\ answer'[d] = answer[d] /\ child'[d] = child[d]
  /\ UsesInput(c)' => \/ UsesInput(c) /\ input'[c] = input[c]
                      \/ files[input'[c]] = Absent
  /\ UsesOutput(c)' => \/ UsesOutput(c) /\ output'[c] = output[c]
                       \/ files[output'[c]] = Absent
  /\ \A p \in Paths : \/ files'[p] = files[p] \/ files[p] = Absent
                      \/ UsesInput(c) /\ p = input[c]
                      \/ UsesOutput(c) /\ p = output[c]

\* Such a step keeps the calls separate when it keeps c right.
LEMMA TouchKeeps ==
  ASSUME Separate, NEW c \in Callers, Touch(c), Agreed(c)', Held(c)'
  PROVE  Separate'
<1>a. /\ \A d \in Callers : Agreed(d) /\ Held(d)
      /\ \A d, e \in Callers : d # e => Apart(d, e)
  BY DEF Separate
<1>n. \A x : Part(x) # Absent /\ Whole(x) # Absent
  BY DEF Part, Whole, Absent
<1>u. \A d \in Callers \ {c} : (UsesInput(d)' <=> UsesInput(d)) /\ (UsesOutput(d)' <=> UsesOutput(d))
  BY DEF Touch, UsesInput, UsesOutput
<1>h. \A d \in Callers : /\ UsesInput(d) => input[d] \in Paths /\ files[input[d]] # Absent
                         /\ UsesOutput(d) => output[d] \in Paths /\ files[output[d]] # Absent
  BY <1>a, <1>n DEF Held
<1>1. ASSUME NEW d \in Callers \ {c} PROVE Agreed(d)' /\ Held(d)'
  <2>1. Agreed(d)'
    BY <1>a DEF Agreed, Touch, Busy
  <2>2. UsesInput(d) => files'[input[d]] = files[input[d]]
    BY <1>a, <1>h DEF Touch, Apart
  <2>3. UsesOutput(d) => files'[output[d]] = files[output[d]]
    BY <1>a, <1>h DEF Touch, Apart
  <2> QED BY <1>a, <1>u, <2>1, <2>2, <2>3 DEF Held, Touch
<1>f. /\ UsesInput(c)' => \A d \in Callers \ {c} : /\ UsesInput(d) => input'[c] # input[d]
                                                   /\ UsesOutput(d) => input'[c] # output[d]
      /\ UsesOutput(c)' => \A d \in Callers \ {c} : /\ UsesInput(d) => output'[c] # input[d]
                                                    /\ UsesOutput(d) => output'[c] # output[d]
  BY <1>a, <1>h DEF Touch, Apart
<1>s. \A d \in Callers \ {c} : input'[d] = input[d] /\ output'[d] = output[d]
  BY DEF Touch
<1>2. ASSUME NEW d \in Callers, NEW e \in Callers, d # e PROVE Apart(d, e)'
  <2>1. CASE d # c /\ e # c
    BY <1>a, <1>u, <1>s, <1>2, <2>1 DEF Apart
  <2>2. CASE d = c
    BY <1>f, <1>u, <1>s, <1>2, <2>2 DEF Apart
  <2>3. CASE e = c
    BY <1>f, <1>u, <1>s, <1>2, <2>3 DEF Apart
  <2> QED BY <2>1, <2>2, <2>3
<1> QED BY <1>1, <1>2 DEF Separate
\* Every step touches one call only, and keeps that call right.
LEMMA NextSeparate == IInv /\ [Next]_vars => Separate'
<1> SUFFICES ASSUME IInv, [Next]_vars PROVE Separate'
  OBVIOUS
<1>t. TypeOK /\ Separate
  BY DEF IInv
<1>a. \A c \in Callers : Agreed(c) /\ Held(c)
  BY <1>t DEF Separate
<1>n. /\ \A x : Part(x) # Absent /\ Whole(x) # Absent /\ Whole(x).data = x /\ Part(x).kind = "part"
      /\ Empty # Absent /\ Empty.kind # "whole" /\ Absent.kind # "whole"
  BY DEF Part, Whole, Absent, Empty
<1>r. /\ Promise!Error # Promise!Pending
      /\ \A x : Promise!Ok(x) # Promise!Pending
  BY DEF Promise!Error, Promise!Ok, Promise!Pending
<1>k. \A c \in Callers : child[c] = [at |-> child[c].at, input |-> child[c].input, code |-> child[c].code]
  BY <1>t DEF TypeOK, Children
<1> USE <1>a, <1>n, <1>r DEF At, Proceed, Fail, Put, caller, Touch, Agreed, Held, UsesInput, UsesOutput, Busy
<1>1. ASSUME NEW c \in Callers, NEW i \in Inputs, Call(c, i) PROVE Separate'
  <2>1. Touch(c) /\ Agreed(c)' /\ Held(c)'
    BY <1>1, <1>t DEF Call, TypeOK, NoChild
  <2> QED BY <1>t, <2>1, TouchKeeps
<1>2. ASSUME NEW c \in Callers, MakeInput(c) PROVE Separate'
  <2>1. Touch(c) /\ Agreed(c)' /\ Held(c)'
    BY <1>2, <1>t DEF MakeInput, NewTemp, TypeOK, NoChild
  <2> QED BY <1>t, <2>1, TouchKeeps
<1>3. ASSUME NEW c \in Callers, MakeOutput(c) PROVE Separate'
  <2>1. Touch(c) /\ Agreed(c)' /\ Held(c)'
    BY <1>3, <1>t DEF MakeOutput, NewTemp, TypeOK, NoChild
  <2> QED BY <1>t, <2>1, TouchKeeps
<1>4. ASSUME NEW c \in Callers, Spawn(c) PROVE Separate'
  <2>1. Touch(c) /\ Agreed(c)' /\ Held(c)'
    BY <1>4, <1>t DEF Spawn, TypeOK, NoChild
  <2> QED BY <1>t, <2>1, TouchKeeps
<1>5. ASSUME NEW c \in Callers, Wait(c) PROVE Separate'
  <2>1. Touch(c) /\ Agreed(c)' /\ Held(c)'
    BY <1>5, <1>t DEF Wait, Exited, TypeOK
  <2> QED BY <1>t, <2>1, TouchKeeps
<1>6. ASSUME NEW c \in Callers, RemoveInput(c) PROVE Separate'
  <2>1. Touch(c) /\ Agreed(c)' /\ Held(c)'
    BY <1>6, <1>t DEF RemoveInput, TryRemove, Remove, TypeOK
  <2> QED BY <1>t, <2>1, TouchKeeps
<1>7. ASSUME NEW c \in Callers, ReadOutput(c) PROVE Separate'
  <2>1. Touch(c) /\ Agreed(c)' /\ Held(c)'
    BY <1>7, <1>t DEF ReadOutput, TypeOK
  <2> QED BY <1>t, <2>1, TouchKeeps
<1>8. ASSUME NEW c \in Callers, Return(c) PROVE Separate'
  <2>1. Touch(c) /\ Agreed(c)' /\ Held(c)'
    BY <1>8, <1>t DEF Return, TryRemove, Remove, TypeOK
  <2> QED BY <1>t, <2>1, TouchKeeps
<1>9. ASSUME NEW c \in Callers, Kill(c) PROVE Separate'
  <2>1. Touch(c) /\ Agreed(c)' /\ Held(c)'
    BY <1>9, <1>t DEF Kill, TypeOK
  <2> QED BY <1>t, <2>1, TouchKeeps
<1>x. ASSUME NEW c \in Callers, NEW code, Exit(c, code)
      PROVE  /\ child'[c].at = "exited"
             /\ \A d \in Callers \ {c} : child'[d] = child[d]
  BY <1>x, <1>k, <1>t DEF Exit, TypeOK
<1>10. ASSUME NEW c \in Callers, ChildRead(c) PROVE Separate'
  <2>1. CASE files[input[c]].kind = "whole"
    <3>1. /\ child'[c].at = "run" /\ child'[c].input = files[input[c]].data
          /\ \A d \in Callers \ {c} : child'[d] = child[d]
      <4> DEFINE data == files[input[c]].data
      <4>1. child' = [child EXCEPT ![c] = [@ EXCEPT !.at = "run", !.input = data]]
        BY <1>10, <2>1 DEF ChildRead
      <4> HIDE DEF data
      <4> QED BY <4>1, <1>k, <1>t DEF TypeOK, data
    <3>2. Touch(c) /\ Agreed(c)' /\ Held(c)'
      BY <1>10, <2>1, <3>1 DEF ChildRead, NoChild
    <3> QED BY <1>t, <3>2, TouchKeeps
  <2>2. CASE files[input[c]].kind # "whole"
    <3>1. Touch(c) /\ Agreed(c)' /\ Held(c)'
      BY <1>10, <2>2, <1>x DEF ChildRead, NoChild
    <3> QED BY <1>t, <3>1, TouchKeeps
  <2> QED BY <2>1, <2>2
<1>11. ASSUME NEW c \in Callers, ChildRun(c) PROVE Separate'
  <2>1. ASSUME child' = [child EXCEPT ![c].at = "write"], Put(output[c], Empty) PROVE Separate'
    <3>1. /\ child'[c].at = "write" /\ child'[c].input = child[c].input
          /\ \A d \in Callers \ {c} : child'[d] = child[d]
      BY <2>1, <1>k, <1>t DEF TypeOK
    <3>2. Touch(c) /\ Agreed(c)' /\ Held(c)'
      BY <1>11, <2>1, <3>1, <1>t DEF ChildRun, TypeOK, NoChild
    <3> QED BY <1>t, <3>2, TouchKeeps
  <2>2. ASSUME NEW code, Exit(c, code), UNCHANGED files PROVE Separate'
    <3>1. Touch(c) /\ Agreed(c)' /\ Held(c)'
      BY <1>11, <2>2, <1>x DEF ChildRun, NoChild
    <3> QED BY <1>t, <3>1, TouchKeeps
  <2> HIDE DEF Separate, Put
  <2> QED BY <1>11, <2>1, <2>2 DEF ChildRun
<1>12. ASSUME NEW c \in Callers, ChildWrite(c) PROVE Separate'
  <2>1. PICK code : Exit(c, code)
    BY <1>12 DEF ChildWrite
  <2>2. child[c].input = asked[c]
    BY <1>12 DEF ChildWrite
  <2>3. Touch(c) /\ Agreed(c)' /\ Held(c)'
    BY <1>12, <2>1, <2>2, <1>x, <1>t DEF ChildWrite, TypeOK, NoChild
  <2> QED BY <1>t, <2>3, TouchKeeps
<1>13. ASSUME NEW c \in Callers, ChildKilled(c) PROVE Separate'
  <2>1. Touch(c) /\ Agreed(c)' /\ Held(c)'
    BY <1>13, <1>x DEF ChildKilled, NoChild
  <2> QED BY <1>t, <2>1, TouchKeeps
<1>14. CASE UNCHANGED vars
  BY <1>14, <1>t DEF vars, Separate, Apart
<1> HIDE DEF Separate
<1> QED BY <1>1, <1>2, <1>3, <1>4, <1>5, <1>6, <1>7, <1>8, <1>9, <1>10, <1>11, <1>12, <1>13, <1>14
        DEF Next, CallerStep, ChildStep

LEMMA InitInv == Init => IInv
<1> SUFFICES ASSUME Init PROVE IInv
  OBVIOUS
<1>1. TypeOK
  <2>1. "none" \in Data /\ Promise!Quiet \in Replies
    BY DEF Data, Replies, Promise!Quiet
  <2> QED BY <2>1, Values DEF Init, TypeOK, CallerSteps
<1>2. Separate
  BY DEF Init, Separate, Agreed, Held, Apart, UsesInput, UsesOutput, Busy, NoChild,
         Promise!Quiet, Promise!Pending
<1> QED BY <1>1, <1>2 DEF IInv

THEOREM Invariance == Spec => []IInv
<1>1. IInv /\ [Next]_vars => IInv'
  BY NextType, NextSeparate DEF IInv
<1> QED BY InitInv, <1>1, PTL DEF Spec

\* The state keeps its type, with any number of scout processes and of calls.
THEOREM TypeCorrect == Spec => []TypeOK
<1>1. IInv => TypeOK
  BY DEF IInv
<1> QED BY Invariance, <1>1, PTL

\* Calls made at once share no temporary file and none is taken from a call, or
\* from a subprocess that outlived its caller, while it is in use.
THEOREM PathsApartAlways == Spec => []PathsApart
<1>1. IInv => PathsApart
  <2>1. \A x : Part(x) # Absent /\ Whole(x) # Absent
    BY DEF Part, Whole, Absent
  <2> QED BY <2>1 DEF IInv, Separate, Held, Apart, PathsApart
<1> QED BY Invariance, <1>1, PTL

\* run_subprocess implements RemoteCall: every call is answered for its own input
\* or with an error.
THEOREM CallsAnsweredAlways == Spec => CallsAnswered
<1>1. Init => Promise!Init
  BY DEF Init, Promise!Init
<1>2. IInv /\ [Next]_vars => [Promise!Next]_<<asked, reply>>
  <2> SUFFICES ASSUME IInv, Next PROVE Promise!Next \/ UNCHANGED <<asked, reply>>
    BY DEF vars, caller
  <2>i. \A c \in Callers : Agreed(c)
    BY DEF IInv, Separate
  <2> USE DEF Agreed, Busy, At, Proceed, Fail, caller
  <2>f. ASSUME NEW c \in Callers, pc[c] \notin {"idle", "dead"}, Fail(c) PROVE Promise!Next
    BY <2>f, <2>i DEF Promise!Next, Promise!Fail
  <2>1. ASSUME NEW c \in Callers, NEW i \in Inputs, Call(c, i) PROVE Promise!Next
    BY <2>1, <2>i DEF Call, Promise!Next, Promise!Ask
  <2>2. ASSUME NEW c \in Callers, Return(c) PROVE Promise!Next
    BY <2>2, <2>i DEF Return, Promise!Next, Promise!Return
  <2>3. ASSUME NEW c \in Callers, Kill(c) PROVE Promise!Next
    BY <2>3, <2>i DEF Kill, Promise!Next, Promise!Fail
  <2>4. ASSUME NEW c \in Callers,
               MakeInput(c) \/ MakeOutput(c) \/ Spawn(c) \/ Wait(c) \/ RemoveInput(c) \/ ReadOutput(c)
        PROVE  Promise!Next \/ UNCHANGED <<asked, reply>>
    BY <2>4, <2>f DEF MakeInput, MakeOutput, Spawn, Wait, RemoveInput, ReadOutput
  <2>5. ASSUME NEW c \in Callers, ChildStep(c) \/ ChildKilled(c) PROVE UNCHANGED <<asked, reply>>
    BY <2>5 DEF ChildStep, ChildRead, ChildRun, ChildWrite, ChildKilled
  <2> QED BY <2>1, <2>2, <2>3, <2>4, <2>5 DEF Next, CallerStep
<1> QED BY Invariance, <1>1, <1>2, PTL DEF Spec, CallsAnswered, Promise!Spec

-----------------------------------------------------------------------------
\* The files of the callers that go on, and the ones that are nobody's: those
\* that a subprocess still uses after its caller died are counted as lost.
InHand(c) == (IF pc[c] \in {"output", "spawn", "wait", "clean"} THEN {input[c]} ELSE {})
             \cup (IF pc[c] \in {"spawn", "wait", "clean", "read", "return"} THEN {output[c]} ELSE {})

Lost == {path \in Paths : files[path] # Absent /\ \A c \in Callers : path \notin InHand(c)}

LostBound == IsFiniteSet(Lost) /\ Cardinality(Lost) <= 2 * failures + kept

\* A step loses nothing, or fails and loses the two files of one call, or cannot
\* remove one file and loses it.
LEMMA LostStep ==
  ASSUME IInv, Next
  PROVE  \/ Lost' \subseteq Lost /\ failures' = failures /\ kept' = kept
         \/ /\ \E p, q : Lost' \subseteq Lost \cup {p, q}
            /\ failures' = failures + 1 /\ kept' = kept
         \/ /\ \E p : Lost' \subseteq Lost \cup {p}
            /\ failures' = failures /\ kept' = kept + 1
<1>t. TypeOK /\ \A c \in Callers : Agreed(c) /\ Held(c)
  BY DEF IInv, Separate
<1>1. ASSUME NEW c \in Callers,
             \A d \in Callers \ {c} : InHand(d)' = InHand(d),
             \A p \in Paths : files'[p] = Absent \/ files[p] # Absent \/ p \in InHand(c)',
             \A p \in InHand(c) : p \in InHand(c)' \/ files'[p] = Absent
      PROVE  Lost' \subseteq Lost
  BY <1>1 DEF Lost
<1>2. ASSUME NEW c \in Callers, NEW p, NEW q,
             \A d \in Callers \ {c} : InHand(d)' = InHand(d),
             \A x \in Paths : files'[x] = Absent \/ files[x] # Absent \/ x \in {p, q},
             InHand(c) \subseteq {p, q}
      PROVE  Lost' \subseteq Lost \cup {p, q}
  BY <1>2 DEF Lost
<1> DEFINE Keeps == Lost' \subseteq Lost /\ failures' = failures /\ kept' = kept
           Loses == /\ \E p, q : Lost' \subseteq Lost \cup {p, q}
                    /\ failures' = failures + 1 /\ kept' = kept
           Drops == /\ \E p : Lost' \subseteq Lost \cup {p}
                    /\ failures' = failures /\ kept' = kept + 1
<1> HIDE DEF Lost
<1> USE <1>t DEF At, Proceed, Fail, Put, caller, TypeOK
<1>3. ASSUME NEW c \in Callers, NEW i \in Inputs, Call(c, i) PROVE Keeps
  <2>1. InHand(c) = {} /\ \A d \in Callers \ {c} : InHand(d)' = InHand(d)
    BY <1>3 DEF Call, InHand
  <2> QED BY <1>1, <1>3, <2>1 DEF Call
<1>4. ASSUME NEW c \in Callers, MakeInput(c) PROVE Keeps \/ Loses
  <2>1. InHand(c) = {} /\ \A d \in Callers \ {c} : InHand(d)' = InHand(d)
    BY <1>4 DEF MakeInput, InHand
  <2>2. ASSUME NEW path \in Paths, input' = [input EXCEPT ![c] = path], NEW contents, Put(path, contents),
               Proceed(c, "output"), kept' = kept
        PROVE  Keeps
    <3>1. path \in InHand(c)'
      BY <2>2 DEF InHand
    <3> QED BY <1>1, <2>1, <2>2, <3>1
  <2>3. ASSUME NEW path \in Paths, NEW contents, Put(path, contents), Fail(c), kept' = kept PROVE Loses
    <3>1. Lost' \subseteq Lost \cup {path, path}
      BY <1>2, <2>1, <2>3
    <3> QED BY <2>3, <3>1
  <2>4. ASSUME Fail(c), UNCHANGED <<input, files, kept>> PROVE Loses
    <3>1. Lost' \subseteq Lost \cup {input[c], input[c]}
      BY <1>2, <2>1, <2>4
    <3> QED BY <2>4, <3>1
  <2> HIDE DEF Put, Proceed, Fail, Keeps, Loses
  <2> QED BY <1>4, <2>2, <2>3, <2>4 DEF MakeInput
<1>5. ASSUME NEW c \in Callers, MakeOutput(c) PROVE Keeps \/ Loses
  <2>1. InHand(c) = {input[c]} /\ \A d \in Callers \ {c} : InHand(d)' = InHand(d)
    BY <1>5 DEF MakeOutput, InHand
  <2>2. ASSUME NEW path \in Paths, output' = [output EXCEPT ![c] = path], NEW contents, Put(path, contents),
               Proceed(c, "spawn"), kept' = kept
        PROVE  Keeps
    <3>1. path \in InHand(c)' /\ input[c] \in InHand(c)'
      BY <1>5, <2>2 DEF InHand, MakeOutput
    <3> QED BY <1>1, <2>1, <2>2, <3>1
  <2>3. ASSUME Fail(c), UNCHANGED <<output, files, kept>> PROVE Loses
    <3>1. Lost' \subseteq Lost \cup {input[c], input[c]}
      BY <1>2, <2>1, <2>3
    <3> QED BY <2>3, <3>1
  <2> HIDE DEF Put, Proceed, Fail, Keeps, Loses
  <2> QED BY <1>5, <2>2, <2>3 DEF MakeOutput
\* A step that fails and changes no file loses what the call had in hand.
<1>6. ASSUME NEW c \in Callers, failures' = failures + 1, UNCHANGED <<input, output, files, kept>>,
             \A d \in Callers \ {c} : pc'[d] = pc[d]
      PROVE  Loses
  <2>1. InHand(c) \subseteq {input[c], output[c]} /\ \A d \in Callers \ {c} : InHand(d)' = InHand(d)
    BY <1>6 DEF InHand
  <2>2. Lost' \subseteq Lost \cup {input[c], output[c]}
    BY <1>2, <1>6, <2>1
  <2> QED BY <1>6, <2>2
\* A step that changes no file and lets go of none loses nothing.
<1>7. ASSUME NEW c \in Callers, failures' = failures, UNCHANGED <<input, output, files, kept>>,
             \A d \in Callers \ {c} : pc'[d] = pc[d], InHand(c) \subseteq InHand(c)'
      PROVE  Keeps
  <2>1. \A d \in Callers \ {c} : InHand(d)' = InHand(d)
    BY <1>7 DEF InHand
  <2> QED BY <1>1, <1>7, <2>1
<1>8. ASSUME NEW c \in Callers, Spawn(c) PROVE Keeps \/ Loses
  <2>1. CASE Proceed(c, "wait")
    <3>1. InHand(c) \subseteq InHand(c)'
      BY <1>8, <2>1 DEF InHand, Spawn
    <3> QED BY <1>7, <1>8, <2>1, <3>1 DEF Spawn
  <2>2. CASE Fail(c)
    BY <1>6, <1>8, <2>2 DEF Spawn
  <2> QED BY <1>8, <2>1, <2>2 DEF Spawn
<1>9. ASSUME NEW c \in Callers, Wait(c) PROVE Keeps \/ Loses
  <2>1. CASE Proceed(c, "clean")
    <3>1. InHand(c) \subseteq InHand(c)'
      BY <1>9, <2>1 DEF InHand, Wait
    <3> QED BY <1>7, <1>9, <2>1, <3>1 DEF Wait
  <2>2. CASE Fail(c)
    BY <1>6, <1>9, <2>2 DEF Wait
  <2> QED BY <1>9, <2>1, <2>2 DEF Wait
\* A step that changes no file and lets go of one loses it.
<1>d. ASSUME NEW c \in Callers, NEW p, UNCHANGED <<input, output, files, failures>>, kept' = kept + 1,
             \A d \in Callers \ {c} : pc'[d] = pc[d], InHand(c) \subseteq InHand(c)' \cup {p}
      PROVE  Drops
  <2>1. \A d \in Callers \ {c} : InHand(d)' = InHand(d)
    BY <1>d DEF InHand
  <2>2. Lost' \subseteq Lost \cup {p}
    BY <1>d, <2>1 DEF Lost
  <2> QED BY <1>d, <2>2
<1>10. ASSUME NEW c \in Callers, RemoveInput(c) PROVE Keeps \/ Drops
  <2>1. /\ InHand(c) = {input[c], output[c]} /\ InHand(c)' = {output[c]}
        /\ \A d \in Callers \ {c} : InHand(d)' = InHand(d)
    BY <1>10 DEF RemoveInput, InHand
  <2>2. input[c] \in Paths
    BY <1>10 DEF RemoveInput, Held, UsesInput
  <2>3. CASE Remove(input[c])
    BY <1>1, <1>10, <2>1, <2>2, <2>3 DEF RemoveInput, Remove
  <2>4. CASE kept' = kept + 1 /\ UNCHANGED files
    BY <1>d, <1>10, <2>1, <2>4 DEF RemoveInput
  <2> QED BY <1>10, <2>3, <2>4 DEF RemoveInput, TryRemove
<1>11. ASSUME NEW c \in Callers, ReadOutput(c) PROVE Keeps \/ Loses
  <2>1. CASE Proceed(c, "return")
    <3>1. InHand(c) \subseteq InHand(c)'
      BY <1>11, <2>1 DEF InHand, ReadOutput
    <3> QED BY <1>7, <1>11, <2>1, <3>1 DEF ReadOutput
  <2>2. CASE Fail(c)
    BY <1>6, <1>11, <2>2 DEF ReadOutput
  <2> QED BY <1>11, <2>1, <2>2 DEF ReadOutput
<1>12. ASSUME NEW c \in Callers, Return(c) PROVE Keeps \/ Drops
  <2>1. InHand(c) = {output[c]} /\ \A d \in Callers \ {c} : InHand(d)' = InHand(d)
    BY <1>12 DEF Return, InHand
  <2>2. output[c] \in Paths
    BY <1>12 DEF Return, Held, UsesOutput
  <2>3. CASE Remove(output[c])
    BY <1>1, <1>12, <2>1, <2>2, <2>3 DEF Return, Remove
  <2>4. CASE kept' = kept + 1 /\ UNCHANGED files
    BY <1>d, <1>12, <2>1, <2>4 DEF Return
  <2> QED BY <1>12, <2>3, <2>4 DEF Return, TryRemove
<1>13. ASSUME NEW c \in Callers, Kill(c) PROVE Loses
  BY <1>6, <1>13 DEF Kill
<1>14. ASSUME NEW c \in Callers, ChildStep(c) \/ ChildKilled(c) PROVE Keeps
  <2>1. \A d \in Callers : InHand(d)' = InHand(d)
    BY <1>14 DEF ChildStep, ChildRead, ChildRun, ChildWrite, ChildKilled, InHand
  <2>2. \A p \in Paths : files[p] = Absent => files'[p] = Absent
    <3>1. child[c].at \in {"run", "write"} => files[output[c]] # Absent
      BY <1>t DEF Held, UsesOutput
    <3> QED BY <1>14, <3>1 DEF ChildStep, ChildRead, ChildRun, ChildWrite, ChildKilled
  <2>3. failures' = failures /\ kept' = kept
    BY <1>14 DEF ChildStep, ChildRead, ChildRun, ChildWrite, ChildKilled
  <2> QED BY <1>1, <2>1, <2>2, <2>3
<1> HIDE DEF Keeps, Loses, Drops
<1>q. Keeps \/ Loses \/ Drops
  BY <1>3, <1>4, <1>5, <1>8, <1>9, <1>10, <1>11, <1>12, <1>13, <1>14 DEF Next, CallerStep
<1> QED BY <1>q DEF Keeps, Loses, Drops

LEMMA LostNext == IInv /\ LostBound /\ [Next]_vars => LostBound'
<1> SUFFICES ASSUME IInv, LostBound, [Next]_vars PROVE LostBound'
  OBVIOUS
<1>t. failures \in Nat /\ kept \in Nat
  BY DEF IInv, TypeOK
<1>l. IsFiniteSet(Lost) /\ Cardinality(Lost) \in Nat /\ Cardinality(Lost) <= 2 * failures + kept
  BY FS_CardinalityType DEF LostBound
<1>a. ASSUME NEW p
      PROVE  /\ IsFiniteSet(Lost \cup {p}) /\ Cardinality(Lost \cup {p}) \in Nat
             /\ Cardinality(Lost \cup {p}) <= Cardinality(Lost) + 1
  <2>1. /\ IsFiniteSet(Lost \cup {p})
        /\ Cardinality(Lost \cup {p}) = IF p \in Lost THEN Cardinality(Lost) ELSE Cardinality(Lost) + 1
    BY <1>l, FS_AddElement
  <2> QED BY <1>l, <2>1
<1>1. CASE Lost' \subseteq Lost /\ failures' = failures /\ kept' = kept
  <2>1. IsFiniteSet(Lost') /\ Cardinality(Lost') <= Cardinality(Lost)
    BY <1>1, <1>l, FS_Subset
  <2>2. Cardinality(Lost') \in Nat
    BY <2>1, FS_CardinalityType
  <2> QED BY <1>1, <1>l, <1>t, <2>1, <2>2 DEF LostBound
<1>2. ASSUME NEW p, NEW q, Lost' \subseteq Lost \cup {p, q}, failures' = failures + 1, kept' = kept
      PROVE  LostBound'
  <2>1. /\ IsFiniteSet(Lost \cup {p}) /\ Cardinality(Lost \cup {p}) \in Nat
        /\ Cardinality(Lost \cup {p}) <= Cardinality(Lost) + 1
    BY <1>a
  <2>2. /\ IsFiniteSet((Lost \cup {p}) \cup {q})
        /\ Cardinality((Lost \cup {p}) \cup {q}) <= Cardinality(Lost \cup {p}) + 1
    BY <2>1, FS_AddElement
  <2>3. Cardinality((Lost \cup {p}) \cup {q}) \in Nat
    BY <2>2, FS_CardinalityType
  <2>4. Lost' \subseteq (Lost \cup {p}) \cup {q}
    BY <1>2
  <2>5. IsFiniteSet(Lost') /\ Cardinality(Lost') <= Cardinality((Lost \cup {p}) \cup {q})
    BY <2>2, <2>4, FS_Subset
  <2>6. Cardinality(Lost') \in Nat
    BY <2>5, FS_CardinalityType
  <2> QED BY <1>2, <1>l, <1>t, <2>1, <2>2, <2>3, <2>5, <2>6 DEF LostBound
<1>d. ASSUME NEW p, Lost' \subseteq Lost \cup {p}, failures' = failures, kept' = kept + 1 PROVE LostBound'
  <2>1. /\ IsFiniteSet(Lost \cup {p}) /\ Cardinality(Lost \cup {p}) \in Nat
        /\ Cardinality(Lost \cup {p}) <= Cardinality(Lost) + 1
    BY <1>a
  <2>2. IsFiniteSet(Lost') /\ Cardinality(Lost') <= Cardinality(Lost \cup {p})
    BY <1>d, <2>1, FS_Subset
  <2>3. Cardinality(Lost') \in Nat
    BY <2>2, FS_CardinalityType
  <2> QED BY <1>d, <1>l, <1>t, <2>1, <2>2, <2>3 DEF LostBound
<1>3. CASE UNCHANGED vars
  <2>1. Lost' = Lost /\ failures' = failures /\ kept' = kept
    BY <1>3 DEF vars, Lost, InHand
  <2> QED BY <1>1, <2>1
<1> QED BY <1>1, <1>2, <1>d, <1>3, LostStep

\* A call that succeeds leaves nothing behind but what could not be removed, and
\* one that fails at most two files besides.
THEOREM LeakBounded == Spec => []LeakBound
<1>1. Init => LostBound
  <2> SUFFICES ASSUME Init PROVE LostBound
    OBVIOUS
  <2>1. Lost = {} /\ failures = 0 /\ kept = 0
    BY DEF Init, Lost
  <2> QED BY <2>1, FS_EmptySet DEF LostBound
<1>2. IInv /\ LostBound => LeakBound
  <2> SUFFICES ASSUME IInv, LostBound PROVE LeakBound
    OBVIOUS
  <2> DEFINE used == {input[c] : c \in {c \in Callers : UsesInput(c)}}
                     \cup {output[c] : c \in {c \in Callers : UsesOutput(c)}}
             left == {path \in Paths : files[path] # Absent} \ used
  <2>1. \A c \in Callers : InHand(c) \subseteq used
    BY DEF InHand, UsesInput, UsesOutput
  <2>2. left \subseteq Lost
    BY <2>1 DEF Lost
  <2>3. IsFiniteSet(left) /\ Cardinality(left) <= Cardinality(Lost)
    BY <2>2, FS_Subset DEF LostBound
  <2>4. Cardinality(left) \in Nat /\ Cardinality(Lost) \in Nat /\ failures \in Nat /\ kept \in Nat
    BY <2>3, FS_CardinalityType DEF LostBound, IInv, TypeOK
  <2>5. Cardinality(left) <= 2 * failures + kept
    BY <2>3, <2>4 DEF LostBound
  <2> QED BY <2>5 DEF LeakBound
<1> QED BY Invariance, <1>1, <1>2, LostNext, PTL DEF Spec

-----------------------------------------------------------------------------
(* The files of the user: the identifier.                                     *)

\* The steps of a run.
Phases == {"identity", "ask", "create", "fill", "send", "version", "latest", "save",
           "write_version", "names", "names_chain", "select", "build", "build_chain", "hand",
           "helper", "build_helper", "run_helper", "driver", "build_driver", "run_driver",
           "ready", "failed", "killed"}

\* Those between reading the file and writing it.
Asking == {"ask", "create", "fill"}

OptingType ==
  /\ phase \in [Runs -> Phases] /\ user_id \in IdFile /\ id \in [Runs -> IdFile]
  /\ \A s \in sent : s[1] \in Runs /\ phase[s[1]] # "identity"

\* The user has opted out, while nobody was asking for an identifier.
Settled == opted_out /\ asking = {}

\* Then the file says so, and the runs that read it from then on do not send.
Silence ==
  /\ user_id = DoNotTrack
  /\ \A r \in Runs : phase[r] \notin Asking
  /\ \A r \in Runs \ before : phase[r] # "identity" => id[r] = DoNotTrack
  /\ \A s \in sent : s[1] \in before

OptingOut == OptingType /\ (Settled => Silence)

\* A step that leaves the identifiers alone, and goes on to others.
LEMMA OptingOutKept ==
  ASSUME OptingOut, NEW r \in Runs, NEW step \in Phases \ ({"identity"} \cup Asking),
         ~StandsAt(r, "identity"), MoveOn(r, step), UNCHANGED identity
  PROVE  OptingOut'
<1>1. /\ OptingType /\ phase[r] # "identity" /\ phase' = [phase EXCEPT ![r] = step]
      /\ UNCHANGED <<user_id, id, sent, opted_out, before, asking>>
  BY DEF OptingOut, StandsAt, MoveOn, identity
<1>2. /\ phase' \in [Runs -> Phases] /\ phase'[r] = step
      /\ \A q \in Runs \ {r} : phase'[q] = phase[q]
  BY <1>1 DEF OptingType
<1>3. OptingType'
  BY <1>1, <1>2 DEF OptingType
<1>4. Settled' => Settled
  BY <1>1 DEF Settled
<1>5. Silence => Silence'
  BY <1>1, <1>2 DEF Silence
<1> QED BY <1>3, <1>4, <1>5 DEF OptingOut

LEMMA OptingOutStutters ==
  ASSUME OptingOut, UNCHANGED <<phase, identity>>
  PROVE  OptingOut'
<1>1. UNCHANGED <<phase, user_id, id, sent, opted_out, before, asking>>
  BY DEF identity
<1>2. OptingType' /\ (Settled' => Settled) /\ (Silence => Silence')
  BY <1>1 DEF OptingOut, OptingType, Settled, Silence
<1> QED BY <1>2 DEF OptingOut

LEMMA IdentityStep ==
  ASSUME OptingOut, NEW r \in Runs,
         ReadId(r) \/ AskId(r) \/ CreateId(r) \/ FillId(r) \/ SendReport(r)
  PROVE  OptingOut'
<1>1. OptingType
  BY DEF OptingOut
<1>2. UNCHANGED <<opted_out, before, asking>>
  BY DEF ReadId, AskId, CreateId, FillId, SendReport
<1>3. Settled' => Settled
  BY <1>2 DEF Settled
<1>0. \/ MoveOn(r, "ask") \/ MoveOn(r, "send") \/ MoveOn(r, "create")
      \/ MoveOn(r, "fill") \/ MoveOn(r, "version")
  BY DEF ReadId, AskId, CreateId, FillId, SendReport
<1>4. PICK step \in Phases \ {"identity"} : phase' = [phase EXCEPT ![r] = step]
  BY <1>0 DEF MoveOn, Phases
<1>5. /\ phase' \in [Runs -> Phases] /\ phase'[r] = step
      /\ \A q \in Runs \ {r} : phase'[q] = phase[q]
  BY <1>1, <1>4 DEF OptingType
<1>6. CASE ReadId(r)
  <2>1. UNCHANGED <<user_id, sent>>
    BY <1>6 DEF ReadId
  <2>2. id' = id \/ id' = [id EXCEPT ![r] = user_id]
    BY <1>6 DEF ReadId
  <2>3. OptingType'
    BY <1>1, <1>5, <2>1, <2>2 DEF OptingType
  <2>4. ASSUME Silence PROVE Silence'
    <3>1. user_id = DoNotTrack /\ HasLine(user_id)
      BY <2>4, DoNotTrackAssumption DEF Silence, HasLine
    <3>2. id' = [id EXCEPT ![r] = DoNotTrack] /\ phase' = [phase EXCEPT ![r] = "send"]
      BY <1>6, <3>1 DEF ReadId, MoveOn
    <3>3. id'[r] = DoNotTrack /\ \A q \in Runs \ {r} : id'[q] = id[q]
      BY <1>1, <3>2 DEF OptingType
    <3>4. phase'[r] = "send"
      BY <1>1, <3>2 DEF OptingType
    <3> QED BY <1>2, <1>5, <2>1, <2>4, <3>3, <3>4 DEF Silence, Asking
  <2> QED BY <1>3, <2>3, <2>4 DEF OptingOut
<1>7. CASE AskId(r) \/ CreateId(r) \/ FillId(r)
  <2>1. phase[r] \in Asking
    BY <1>7 DEF AskId, CreateId, FillId, Asking, StandsAt
  <2>2. ~Settled
    BY <2>1 DEF OptingOut, Silence
  <2>3. user_id' \in IdFile /\ id' \in [Runs -> IdFile] /\ sent' = sent
    BY <1>1, <1>7 DEF AskId, CreateId, FillId, IdFile, OptingType
  <2>4. OptingType'
    BY <1>1, <1>5, <2>3 DEF OptingType
  <2> QED BY <1>3, <2>2, <2>4 DEF OptingOut
<1>8. CASE SendReport(r)
  <2>1. /\ phase[r] = "send" /\ phase' = [phase EXCEPT ![r] = "version"]
        /\ sent' = IF id[r] = DoNotTrack THEN sent ELSE sent \cup {<<r, id[r]>>}
        /\ UNCHANGED <<user_id, id>>
    BY <1>8 DEF SendReport, StandsAt, MoveOn
  <2>2. \A s \in sent' : s \in sent \/ (s[1] = r /\ id[r] # DoNotTrack)
    BY <2>1
  <2>3. \A s \in sent' : s[1] \in Runs /\ phase'[s[1]] # "identity"
    BY <1>1, <1>5, <2>2 DEF OptingType
  <2>4. OptingType'
    BY <1>1, <1>5, <2>1, <2>3 DEF OptingType
  <2>5. ASSUME Silence PROVE Silence'
    <3>1. r \notin before => id[r] = DoNotTrack
      BY <2>1, <2>5 DEF Silence
    <3>2. \A s \in sent' : s[1] \in before
      BY <2>2, <2>5, <3>1 DEF Silence
    <3>3. phase'[r] = "version"
      BY <1>1, <2>1 DEF OptingType
    <3>4. \A q \in Runs : phase'[q] \notin Asking
      BY <1>5, <2>5, <3>3 DEF Silence, Asking
    <3>5. \A q \in Runs \ before : phase'[q] # "identity" => id[q] = DoNotTrack
      BY <1>5, <2>1, <2>5, <3>1 DEF Silence
    <3> QED BY <1>2, <2>1, <2>5, <3>2, <3>4, <3>5 DEF Silence
  <2> QED BY <1>3, <2>4, <2>5 DEF OptingOut
<1> QED BY <1>6, <1>7, <1>8

LEMMA OptOutStep ==
  ASSUME OptingOut, OptOut
  PROVE  OptingOut'
<1>1. /\ user_id' = DoNotTrack
      /\ before' = {r \in Runs : ~StandsAt(r, "identity")}
      /\ asking' = {r \in Runs : phase[r] \in Asking}
      /\ UNCHANGED <<phase, id, sent>>
  BY DEF OptOut, Asking
<1>2. OptingType'
  BY <1>1 DEF OptingOut, OptingType, IdFile
<1>3. ASSUME asking' = {} PROVE Silence'
  <2>1. \A q \in Runs : phase'[q] \notin Asking
    BY <1>1, <1>3
  <2>2. \A q \in Runs \ before' : phase'[q] = "identity"
    BY <1>1 DEF StandsAt
  <2>3. \A s \in sent' : s[1] \in before'
    BY <1>1 DEF OptingOut, OptingType, StandsAt
  <2> QED BY <1>1, <2>1, <2>2, <2>3 DEF Silence
<1> QED BY <1>2, <1>3 DEF OptingOut, Settled

\* The steps that have nothing to do with the identifier.
Onward == Phases \ ({"identity"} \cup Asking)

\* Those of the detectors and the programs.
Preparing == {"names_chain", "select", "build", "build_chain", "hand", "helper", "build_helper",
              "run_helper", "driver", "build_driver", "run_driver", "ready", "failed"}

LEMMA PreparingIsOnward == Preparing \subseteq Onward
BY DEF Preparing, Onward, Asking, Phases

\* The steps after the report was sent, and the end of a run, leave the identifiers alone.
LEMMA VersionStep ==
  ASSUME NEW r \in Runs,
         LoadVersion(r) \/ GetLatest(r) \/ SaveVersion(r) \/ WriteVersion(r) \/ KillRun(r)
  PROVE  /\ UNCHANGED identity /\ ~StandsAt(r, "identity")
         /\ \E step \in Onward : MoveOn(r, step)
<1>1. UNCHANGED identity
  BY DEF LoadVersion, GetLatest, SaveVersion, WriteVersion, KillRun, userfiles
<1>2. ~StandsAt(r, "identity")
  BY DEF LoadVersion, GetLatest, SaveVersion, WriteVersion, KillRun, StandsAt
<1>3. \/ MoveOn(r, "names") \/ MoveOn(r, "latest") \/ MoveOn(r, "save")
      \/ MoveOn(r, "write_version") \/ MoveOn(r, "killed")
  BY DEF LoadVersion, GetLatest, SaveVersion, WriteVersion, KillRun
<1>4. {"names", "latest", "save", "write_version", "killed"} \subseteq Onward
  BY DEF Onward, Asking, Phases
<1> QED BY <1>1, <1>2, <1>3, <1>4 DEF MoveOn

LEMMA BuildStep ==
  ASSUME NEW r \in Runs, BuildsStep(r)
  PROVE  /\ UNCHANGED userfiles /\ ~StandsAt(r, "identity")
         /\ \E step \in Preparing : MoveOn(r, step)
<1> DEFINE Elsewhere == UNCHANGED userfiles /\ ~StandsAt(r, "identity")
<1>1. CASE ReadLibraries(r)
  <2>1. Elsewhere
    BY <1>1 DEF ReadLibraries, ReadLibrary, StandsAt
  <2>2. \/ MoveOn(r, "names_chain") \/ MoveOn(r, "select")
        \/ MoveOn(r, "build_chain") \/ MoveOn(r, "hand")
    BY <1>1 DEF ReadLibraries, ReadLibrary
  <2>3. {"names_chain", "select", "build_chain", "hand"} \subseteq Preparing
    BY DEF Preparing
  <2> QED BY <2>1, <2>2, <2>3 DEF MoveOn
<1>2. CASE SelectNames(r) \/ HandLibraries(r)
  <2>1. Elsewhere
    BY <1>2 DEF SelectNames, HandLibraries, StandsAt
  <2>2. MoveOn(r, "build") \/ MoveOn(r, "helper") \/ MoveOn(r, "failed")
    BY <1>2 DEF SelectNames, HandLibraries
  <2>3. {"build", "helper", "failed"} \subseteq Preparing
    BY DEF Preparing
  <2> QED BY <2>1, <2>2, <2>3 DEF MoveOn
<1>3. ASSUME NEW p \in Programs, LookFor(r, p) \/ BuildPrograms(r, p) \/ RunProgram(r, p)
      PROVE  Elsewhere /\ \E step \in Preparing : MoveOn(r, step)
  <2>1. StandsAt(r, p) \/ StandsAt(r, Building(p)) \/ StandsAt(r, Running(p))
    BY <1>3 DEF LookFor, BuildPrograms, RunProgram
  <2>2. UNCHANGED userfiles
    BY <1>3 DEF LookFor, BuildPrograms, RunProgram
  <2>3. {p, Building(p), Running(p)} \subseteq Preparing /\ "identity" \notin {p, Building(p), Running(p)}
    BY DEF Programs, Building, Running, Preparing
  <2>4. \/ MoveOn(r, Building(p)) \/ MoveOn(r, Running(p)) \/ MoveOn(r, "failed")
        \/ MoveOn(r, "driver") \/ MoveOn(r, "ready")
    BY <1>3 DEF LookFor, BuildPrograms, RunProgram
  <2>5. {"failed", "driver", "ready"} \subseteq Preparing
    BY DEF Preparing
  <2>6. ~StandsAt(r, "identity")
    BY <2>1, <2>3 DEF StandsAt
  <2> QED BY <2>2, <2>3, <2>4, <2>5, <2>6 DEF MoveOn
<1> QED BY <1>1, <1>2, <1>3 DEF BuildsStep

\* Once a user has opted out, and nobody was asking, only runs from before send a report.
THEOREM OptOutIsKept == PreparationSpec => []OptOutKept
<1>1. PreparationInit => OptingOut
  <2> SUFFICES ASSUME PreparationInit PROVE OptingOut
    OBVIOUS
  <2>1. PICK s \in Starts : user_id = s[2]
    BY DEF PreparationInit
  <2>2. user_id \in IdFile
    BY <2>1, StartsAssumption DEF IdFile
  <2>3. OptingType
    BY <2>2 DEF PreparationInit, UserFilesInit, OptingType, IdFile, Phases
  <2>4. ~Settled
    BY DEF PreparationInit, UserFilesInit, Settled
  <2> QED BY <2>3, <2>4 DEF OptingOut
<1>2. OptingOut /\ [PreparationNext]_preparation => OptingOut'
  <2> SUFFICES ASSUME OptingOut, [PreparationNext]_preparation PROVE OptingOut'
    OBVIOUS
  <2>1. ASSUME NEW r \in Runs, UserFilesStep(r) PROVE OptingOut'
    <3>1. CASE LoadVersion(r) \/ GetLatest(r) \/ SaveVersion(r) \/ WriteVersion(r)
      BY <3>1, VersionStep, OptingOutKept DEF Onward
    <3> QED BY <2>1, <3>1, IdentityStep DEF UserFilesStep
  <2>2. ASSUME NEW r \in Runs, BuildsStep(r) PROVE OptingOut'
    <3>1. UNCHANGED identity
      BY <2>2, BuildStep DEF userfiles
    <3> QED BY <2>2, <3>1, BuildStep, PreparingIsOnward, OptingOutKept DEF Onward
  <2>3. ASSUME NEW r \in Runs, KillRun(r) PROVE OptingOut'
    BY <2>3, VersionStep, OptingOutKept DEF Onward
  <2>4. CASE UserFilesElse
    <3>1. CASE Tick \/ SetBack \/ Release
      BY <3>1, OptingOutStutters DEF Tick, SetBack, Release
    <3> QED BY <2>4, <3>1, OptOutStep DEF UserFilesElse
  <2>5. CASE Push
    BY <2>5, OptingOutStutters DEF Push, userfiles
  <2>6. CASE UNCHANGED preparation
    BY <2>6, OptingOutStutters DEF preparation, userfiles
  <2> QED BY <2>1, <2>2, <2>3, <2>4, <2>5, <2>6 DEF PreparationNext
<1>3. OptingOut => OptOutKept
  BY DEF OptingOut, Settled, Silence, OptOutKept
<1> QED BY <1>1, <1>2, <1>3, PTL DEF PreparationSpec

-----------------------------------------------------------------------------
(* The files of the user: the version that is known.                          *)

\* An answer that was right at the time: the next version came out later.
Fresh(x, rs, time) ==
  /\ x.of \in DOMAIN rs /\ x.told <= time
  /\ x.of + 1 \in DOMAIN rs => x.told <= rs[x.of + 1]

Saving == {"save", "write_version"}

Reply == [of : Nat, at : Int, told : Nat]

Worldly ==
  /\ now \in Nat /\ back \in Nat
  /\ \E n \in Nat \ {0} : releases \in [1 .. n -> 0 .. now]

Answers ==
  /\ phase \in [Runs -> Phases] /\ got \in [Runs -> Reply]
  /\ \A r \in Runs : phase[r] \in Saving => Fresh(got[r], releases, now)

Known == \/ version \in {NoVersion, Broken}
         \/ version \in Reply /\ Fresh(version, releases, now)

Relied == \A v \in relied : v.of \in DOMAIN releases /\ v.when \in 0 .. now

\* While the clock is right and nobody is held up, the time in the file is that of the answer,
\* and nobody relies on a version for longer than a day.
Timely ==
  /\ back = 0
  /\ \A r \in Runs : phase[r] = "write_version" => got[r].at = got[r].told
  /\ version \in {NoVersion, Broken} \/ version.at = version.told
  /\ \A v \in relied : v.of + 1 \in DOMAIN releases => v.when < releases[v.of + 1] + Day

Steady == ~turned_back /\ ~held

Knowing == Worldly /\ Answers /\ Known /\ Relied /\ (Steady => Timely)

LEMMA LatestIs ==
  ASSUME NEW n \in Nat \ {0}, NEW S, releases \in [1 .. n -> S]
  PROVE  Latest = n
<1>1. n \in 1 .. n /\ \A w \in 1 .. n : w <= n
  OBVIOUS
<1>2. \A v \in 1 .. n : (\A w \in 1 .. n : w <= v) => v = n
  BY <1>1
<1>3. DOMAIN releases = 1 .. n
  OBVIOUS
<1> QED BY <1>1, <1>2, <1>3 DEF Latest

\* A step that is about something else.
LEMMA KnowingKept ==
  ASSUME Knowing, NEW r \in Runs, NEW step \in Phases \ Saving, MoveOn(r, step),
         UNCHANGED <<world, known>>
  PROVE  Knowing'
<1>1. UNCHANGED <<now, back, releases, turned_back, version, got, relied, held>>
  BY DEF world, known
<1>2. phase \in [Runs -> Phases] /\ phase' = [phase EXCEPT ![r] = step]
  BY DEF Knowing, Answers, MoveOn
<1>3. /\ phase' \in [Runs -> Phases] /\ phase'[r] = step
      /\ \A q \in Runs \ {r} : phase'[q] = phase[q]
  BY <1>2
<1>4. Worldly' /\ Known' /\ Relied' /\ (Steady' => Steady)
  BY <1>1 DEF Knowing, Worldly, Known, Relied, Steady
<1>5. Answers'
  BY <1>1, <1>3 DEF Knowing, Answers
<1>6. Timely => Timely'
  BY <1>1, <1>3 DEF Timely, Saving
<1> QED BY <1>4, <1>5, <1>6 DEF Knowing

LEMMA KnowingStutters ==
  ASSUME Knowing, UNCHANGED <<phase, world, known>>
  PROVE  Knowing'
<1>1. UNCHANGED <<phase, now, back, releases, turned_back, version, got, relied, held>>
  BY DEF world, known
<1>2. /\ Worldly' /\ Answers' /\ Known' /\ Relied' /\ (Steady' => Steady) /\ (Timely => Timely')
  BY <1>1 DEF Knowing, Worldly, Answers, Known, Relied, Steady, Timely
<1> QED BY <1>2 DEF Knowing

\* Taking the version in the file for the latest.
LEMMA LoadStep ==
  ASSUME Knowing, NEW r \in Runs, LoadVersion(r)
  PROVE  Knowing'
<1>1. UNCHANGED <<now, back, releases, turned_back, version, got, held>>
  BY DEF LoadVersion, world
<1>2. phase \in [Runs -> Phases] /\ (MoveOn(r, "names") \/ MoveOn(r, "latest"))
  BY DEF Knowing, Answers, LoadVersion
<1>3. PICK step \in Phases \ Saving : phase' = [phase EXCEPT ![r] = step]
  BY <1>2 DEF MoveOn, Phases, Saving
<1>4. /\ phase' \in [Runs -> Phases] /\ phase'[r] = step
      /\ \A q \in Runs \ {r} : phase'[q] = phase[q]
  BY <1>2, <1>3
<1>5. Worldly' /\ Known' /\ (Steady' => Steady)
  BY <1>1 DEF Knowing, Worldly, Known, Steady
<1>6. Answers'
  BY <1>1, <1>4 DEF Knowing, Answers
<1>7. CASE relied' = relied
  <2>1. Relied' /\ (Timely => Timely')
    BY <1>1, <1>4, <1>7 DEF Knowing, Relied, Timely, Saving
  <2> QED BY <1>5, <1>6, <2>1 DEF Knowing
<1>8. CASE /\ version \notin {NoVersion, Broken} /\ Recent(version)
           /\ relied' = relied \cup {[of |-> version.of, when |-> now]}
  <2>1. version \in Reply /\ Fresh(version, releases, now)
    BY <1>8 DEF Knowing, Known
  <2>2. \A v \in relied' : v \in relied \/ (v.of = version.of /\ v.when = now)
    <3> DEFINE added == [of |-> version.of, when |-> now]
    <3>1. added.of = version.of /\ added.when = now
      OBVIOUS
    <3>2. relied' = relied \cup {added}
      BY <1>8
    <3>3. ASSUME NEW v \in relied', v \notin relied PROVE v.of = version.of /\ v.when = now
      <4>1. v = added
        BY <3>2, <3>3
      <4> HIDE DEF added
      <4> QED BY <3>1, <4>1
    <3> QED BY <3>3
  <2>3. Relied'
    BY <1>1, <2>1, <2>2 DEF Knowing, Worldly, Relied, Fresh
  <2>4. ASSUME Timely PROVE Timely'
    <3>1. now < version.told + Day
      <4>1. version.at = version.told /\ back = 0 /\ now - back - version.at < Day
        BY <1>8, <2>4 DEF Timely, Recent, Clock
      <4> QED BY <2>1, <4>1, TimeAssumption DEF Knowing, Worldly, Reply
    <3>2. ASSUME version.of + 1 \in DOMAIN releases PROVE now < releases[version.of + 1] + Day
      <4>1. version.told <= releases[version.of + 1]
        BY <2>1, <3>2 DEF Fresh
      <4>2. releases[version.of + 1] \in Nat
        BY <3>2 DEF Knowing, Worldly
      <4> QED BY <2>1, <3>1, <4>1, <4>2, TimeAssumption DEF Knowing, Worldly, Reply
    <3>3. \A v \in relied' : v.of + 1 \in DOMAIN releases => v.when < releases[v.of + 1] + Day
      BY <2>2, <2>4, <3>2 DEF Timely
    <3> QED BY <1>1, <1>4, <2>4, <3>3 DEF Timely, Saving
  <2> QED BY <1>5, <1>6, <2>3, <2>4 DEF Knowing
<1> QED BY <1>7, <1>8 DEF LoadVersion

\* Asking for the latest version, or giving the check up.
LEMMA AskStep ==
  ASSUME Knowing, NEW r \in Runs, GetLatest(r)
  PROVE  Knowing'
<1>1. UNCHANGED <<now, back, releases, turned_back, version, relied, held>>
  BY DEF GetLatest, world
<1>2. CASE MoveOn(r, "names") /\ UNCHANGED got
  <2>1. UNCHANGED <<world, known>>
    BY <1>1, <1>2 DEF world, known
  <2> QED BY <1>2, <2>1, KnowingKept DEF Phases, Saving
<1>3. CASE /\ got' = [got EXCEPT ![r] = [of |-> Latest, at |-> 0, told |-> now]]
           /\ MoveOn(r, "save")
  <2> DEFINE answered == [of |-> Latest, at |-> 0, told |-> now]
  <2>1. answered.of = Latest /\ answered.told = now /\ answered.at = 0
    OBVIOUS
  <2>2. PICK n \in Nat \ {0} : releases \in [1 .. n -> 0 .. now]
    BY DEF Knowing, Worldly
  <2>3. Latest = n
    BY <2>2, LatestIs
  <2>4. answered \in Reply
    BY <2>2, <2>3 DEF Reply, Knowing, Worldly
  <2>5. Fresh(answered, releases, now)
    <3>1. DOMAIN releases = 1 .. n /\ answered.of = n /\ answered.told = now /\ now \in Nat
      BY <2>1, <2>2, <2>3 DEF Knowing, Worldly
    <3> HIDE DEF answered
    <3> QED BY <3>1 DEF Fresh
  <2>6. got' = [got EXCEPT ![r] = answered]
    BY <1>3
  <2> HIDE DEF answered
  <2>7. /\ got' \in [Runs -> Reply] /\ got'[r] = answered
        /\ \A q \in Runs \ {r} : got'[q] = got[q]
    BY <2>4, <2>6 DEF Knowing, Answers
  <2>8. /\ phase' \in [Runs -> Phases] /\ phase'[r] = "save"
        /\ \A q \in Runs \ {r} : phase'[q] = phase[q]
    BY <1>3 DEF MoveOn, Knowing, Answers, Phases
  <2>9. Answers'
    BY <1>1, <2>5, <2>7, <2>8 DEF Knowing, Answers
  <2>10. Worldly' /\ Known' /\ Relied' /\ (Steady' => Steady)
    BY <1>1 DEF Knowing, Worldly, Known, Relied, Steady
  <2>11. Timely => Timely'
    BY <1>1, <2>7, <2>8 DEF Timely
  <2> QED BY <2>9, <2>10, <2>11 DEF Knowing
<1> QED BY <1>2, <1>3 DEF GetLatest

\* Emptying the file, with the time of writing taken before.
LEMMA SaveStep ==
  ASSUME Knowing, NEW r \in Runs, SaveVersion(r)
  PROVE  Knowing'
<1>1. /\ UNCHANGED <<now, back, releases, turned_back, relied>>
      /\ version' = Broken /\ phase[r] = "save" /\ phase' = [phase EXCEPT ![r] = "write_version"]
      /\ got' = [got EXCEPT ![r].at = Clock]
  BY DEF SaveVersion, world, StandsAt, MoveOn
<1>2. /\ phase' \in [Runs -> Phases] /\ phase'[r] = "write_version"
      /\ \A q \in Runs \ {r} : phase'[q] = phase[q]
  BY <1>1 DEF Knowing, Answers, Phases
<1>3. /\ got' \in [Runs -> Reply] /\ got'[r].at = Clock
      /\ got'[r].of = got[r].of /\ got'[r].told = got[r].told
      /\ \A q \in Runs \ {r} : got'[q] = got[q]
  <2> DEFINE stamped == [got[r] EXCEPT !.at = Clock]
  <2>1. got \in [Runs -> Reply] /\ got[r] \in Reply /\ Clock \in Int
    BY DEF Knowing, Answers, Worldly, Clock
  <2>2. /\ stamped \in Reply /\ stamped.at = Clock
        /\ stamped.of = got[r].of /\ stamped.told = got[r].told
    BY <2>1 DEF Reply
  <2>3. got' = [got EXCEPT ![r] = stamped]
    BY <1>1
  <2> HIDE DEF stamped
  <2> QED BY <2>1, <2>2, <2>3
<1>4. Fresh(got'[r], releases, now)
  BY <1>1, <1>3 DEF Knowing, Answers, Saving, Fresh
<1>5. Answers'
  BY <1>1, <1>2, <1>3, <1>4 DEF Knowing, Answers
<1>6. Worldly' /\ Known' /\ Relied'
  <2>1. Worldly' /\ Relied'
    BY <1>1 DEF Knowing, Worldly, Relied
  <2>2. Known'
    BY <1>1 DEF Known
  <2> QED BY <2>1, <2>2
<1>7. Steady' => Steady /\ got[r].told = now
  BY <1>1 DEF Steady, SaveVersion
<1>8. ASSUME Timely, got[r].told = now PROVE Timely'
  <2>1. Clock = now
    BY <1>8 DEF Clock, Timely, Knowing, Worldly
  <2> QED BY <1>1, <1>2, <1>3, <1>8, <2>1 DEF Timely
<1> QED BY <1>5, <1>6, <1>7, <1>8 DEF Knowing

LEMMA WriteStep ==
  ASSUME Knowing, NEW r \in Runs, WriteVersion(r)
  PROVE  Knowing'
<1>1. /\ UNCHANGED <<now, back, releases, turned_back, got, relied, held>>
      /\ version' \in {got[r], Broken} /\ phase[r] = "write_version"
      /\ phase' = [phase EXCEPT ![r] = "names"]
  BY DEF WriteVersion, world, StandsAt, MoveOn
<1>2. /\ phase' \in [Runs -> Phases] /\ phase'[r] = "names"
      /\ \A q \in Runs \ {r} : phase'[q] = phase[q]
  BY <1>1 DEF Knowing, Answers, Phases
<1>3. Answers'
  BY <1>1, <1>2 DEF Knowing, Answers, Saving
<1>4. Known'
  <2>1. CASE version' = got[r]
    <3>1. got[r] \in Reply /\ Fresh(got[r], releases, now)
      BY <1>1 DEF Knowing, Answers, Saving
    <3> QED BY <1>1, <2>1, <3>1 DEF Known
  <2>2. CASE version' = Broken
    BY <2>2 DEF Known
  <2> QED BY <1>1, <2>1, <2>2
<1>5. Worldly' /\ Relied' /\ (Steady' => Steady)
  BY <1>1 DEF Knowing, Worldly, Relied, Steady
<1>6. Timely => Timely'
  BY <1>1, <1>2 DEF Timely
<1> QED BY <1>3, <1>4, <1>5, <1>6 DEF Knowing

LEMMA TimeStep ==
  ASSUME Knowing, Tick \/ SetBack
  PROVE  Knowing'
<1>1. /\ UNCHANGED <<phase, releases, version, got, relied, held>>
      /\ now' \in {now, now + 1}
  BY DEF Tick, SetBack, known
<1>2. now \in Nat /\ now' \in Nat /\ now <= now'
  BY <1>1 DEF Knowing, Worldly
<1>3. Worldly'
  <2>1. back' \in Nat
    BY DEF Tick, SetBack, Knowing, Worldly
  <2>2. PICK n \in Nat \ {0} : releases \in [1 .. n -> 0 .. now]
    BY DEF Knowing, Worldly
  <2>3. releases \in [1 .. n -> 0 .. now']
    BY <1>2, <2>2
  <2> QED BY <1>1, <1>2, <2>1, <2>3 DEF Worldly
<1>4. \A x \in Reply : Fresh(x, releases, now) => Fresh(x, releases, now')
  BY <1>2 DEF Fresh, Reply
<1>5. Answers' /\ Known' /\ Relied'
  <2>1. Answers'
    BY <1>1, <1>4 DEF Knowing, Answers
  <2>2. Known'
    BY <1>1, <1>4 DEF Knowing, Known
  <2>3. Relied'
    BY <1>1, <1>2 DEF Knowing, Relied
  <2> QED BY <2>1, <2>2, <2>3
<1>6. CASE Tick
  <2>1. UNCHANGED <<back, turned_back>>
    BY <1>6 DEF Tick
  <2>2. (Steady' => Steady) /\ (Timely => Timely')
    BY <1>1, <2>1 DEF Steady, Timely
  <2> QED BY <1>3, <1>5, <2>2 DEF Knowing
<1>7. CASE SetBack
  <2>1. ~Steady'
    BY <1>7 DEF SetBack, Steady
  <2> QED BY <1>3, <1>5, <2>1 DEF Knowing
<1> QED BY <1>6, <1>7

\* A new version does not make an answer wrong that was given before.
LEMMA ReleaseStep ==
  ASSUME Knowing, Release
  PROVE  Knowing'
<1>1. UNCHANGED <<phase, now, back, turned_back, version, got, relied, held>>
  BY DEF Release, known
<1>2. PICK n \in Nat \ {0} : releases \in [1 .. n -> 0 .. now]
  BY DEF Knowing, Worldly
<1>3. Latest = n
  BY <1>2, LatestIs
<1>4. releases' = [v \in 1 .. n + 1 |-> IF v > n THEN now ELSE releases[v]]
  BY <1>3 DEF Release
<1>5. /\ DOMAIN releases = 1 .. n /\ DOMAIN releases' = 1 .. n + 1
      /\ \A v \in 1 .. n : releases'[v] = releases[v]
      /\ releases'[n + 1] = now
  BY <1>2, <1>4
<1>6. now \in Nat /\ releases' \in [1 .. n + 1 -> 0 .. now]
  BY <1>2, <1>4 DEF Knowing, Worldly
<1>7. Worldly'
  <2>1. n + 1 \in Nat \ {0}
    OBVIOUS
  <2> QED BY <1>1, <1>6, <2>1 DEF Knowing, Worldly
<1>8. \A x \in Reply : Fresh(x, releases, now) => Fresh(x, releases', now)
  <2> SUFFICES ASSUME NEW x \in Reply, Fresh(x, releases, now) PROVE Fresh(x, releases', now)
    OBVIOUS
  <2>1. x.of \in 1 .. n /\ x.told <= now
    BY <1>5 DEF Fresh
  <2>2. CASE x.of = n
    BY <1>5, <2>1, <2>2 DEF Fresh
  <2>3. CASE x.of # n
    <3>1. x.of + 1 \in 1 .. n
      BY <2>1, <2>3
    <3> QED BY <1>5, <2>1, <3>1 DEF Fresh
  <2> QED BY <2>2, <2>3
<1>9. Answers' /\ Known' /\ Relied'
  <2>1. Answers'
    BY <1>1, <1>8 DEF Knowing, Answers
  <2>2. Known'
    BY <1>1, <1>8 DEF Knowing, Known
  <2>3. Relied'
    BY <1>1, <1>5 DEF Knowing, Relied
  <2> QED BY <2>1, <2>2, <2>3
<1>10. ASSUME Timely PROVE Timely'
  <2>1. ASSUME NEW v \in relied, v.of + 1 \in DOMAIN releases'
        PROVE  v.when < releases'[v.of + 1] + Day
    <3>1. v.of \in 1 .. n /\ v.when \in 0 .. now
      BY <1>5 DEF Knowing, Relied
    <3>2. CASE v.of = n
      BY <1>5, <1>6, <3>1, <3>2, TimeAssumption
    <3>3. CASE v.of # n
      <4>1. v.of + 1 \in 1 .. n
        BY <3>1, <3>3
      <4> QED BY <1>5, <1>10, <4>1 DEF Timely
    <3> QED BY <3>2, <3>3
  <2> QED BY <1>1, <1>10, <2>1 DEF Timely
<1>11. Steady' => Steady
  BY <1>1 DEF Steady
<1> QED BY <1>7, <1>9, <1>10, <1>11 DEF Knowing

\* A version that has been out for a day is noticed, with the clock right and nobody held up.
THEOREM UpdateIsNoticed == PreparationSpec => []UpdateNoticed
<1>1. PreparationInit => Knowing
  <2> SUFFICES ASSUME PreparationInit PROVE Knowing
    OBVIOUS
  <2>1. /\ now = 0 /\ back = 0 /\ relied = {} /\ releases = [v \in {1} |-> 0]
        /\ got = [r \in Runs |-> NoVersion] /\ phase = [r \in Runs |-> "identity"]
    BY DEF PreparationInit, UserFilesInit
  <2>2. PICK s \in Starts : version = s[3]
    BY DEF PreparationInit
  <2>3. DOMAIN releases = {1} /\ releases[1] = 0 /\ releases \in [1 .. 1 -> 0 .. now]
    BY <2>1
  <2>4. Worldly
    BY <2>1, <2>3 DEF Worldly
  <2>5. Answers
    BY <2>1 DEF Answers, Phases, Saving, Reply, NoVersion
  <2>6. version = NoVersion \/ version = [of |-> 1, at |-> 0, told |-> 0]
    BY <2>2, StartsAssumption
  <2>7. Known /\ (version = NoVersion \/ version.at = version.told)
    <3>1. CASE version = [of |-> 1, at |-> 0, told |-> 0]
      <4>1. version \in Reply /\ version.of = 1 /\ version.at = 0 /\ version.told = 0
        BY <3>1 DEF Reply
      <4> QED BY <2>1, <2>3, <4>1 DEF Known, Fresh
    <3> QED BY <2>6, <3>1 DEF Known
  <2>8. Relied /\ Timely
    BY <2>1, <2>7 DEF Relied, Timely
  <2> QED BY <2>4, <2>5, <2>7, <2>8 DEF Knowing
<1>2. Knowing /\ [PreparationNext]_preparation => Knowing'
  <2> SUFFICES ASSUME Knowing, [PreparationNext]_preparation PROVE Knowing'
    OBVIOUS
  <2>1. ASSUME NEW r \in Runs, UserFilesStep(r) PROVE Knowing'
    <3>1. CASE ReadId(r) \/ AskId(r) \/ CreateId(r) \/ FillId(r) \/ SendReport(r)
      <4>1. UNCHANGED <<world, known>>
        BY <3>1 DEF ReadId, AskId, CreateId, FillId, SendReport
      <4>2. \/ MoveOn(r, "ask") \/ MoveOn(r, "send") \/ MoveOn(r, "create")
            \/ MoveOn(r, "fill") \/ MoveOn(r, "version")
        BY <3>1 DEF ReadId, AskId, CreateId, FillId, SendReport
      <4>3. {"ask", "send", "create", "fill", "version"} \subseteq Phases \ Saving
        BY DEF Phases, Saving
      <4> QED BY <4>1, <4>2, <4>3, KnowingKept
    <3> QED BY <2>1, <3>1, LoadStep, AskStep, SaveStep, WriteStep DEF UserFilesStep
  <2>2. ASSUME NEW r \in Runs, BuildsStep(r) PROVE Knowing'
    <3>1. UNCHANGED <<world, known>>
      BY <2>2, BuildStep DEF userfiles
    <3>2. Preparing \subseteq Phases \ Saving
      BY DEF Preparing, Phases, Saving
    <3> QED BY <2>2, <3>1, <3>2, BuildStep, KnowingKept
  <2>3. ASSUME NEW r \in Runs, KillRun(r) PROVE Knowing'
    <3>1. UNCHANGED <<world, known>> /\ MoveOn(r, "killed")
      BY <2>3 DEF KillRun, userfiles
    <3>2. "killed" \in Phases \ Saving
      BY DEF Phases, Saving
    <3> QED BY <3>1, <3>2, KnowingKept
  <2>4. CASE UserFilesElse
    <3>1. CASE OptOut
      BY <3>1, KnowingStutters DEF OptOut
    <3> QED BY <2>4, <3>1, TimeStep, ReleaseStep DEF UserFilesElse
  <2>5. CASE Push
    BY <2>5, KnowingStutters DEF Push, userfiles
  <2>6. CASE UNCHANGED preparation
    BY <2>6, KnowingStutters DEF preparation, userfiles
  <2> QED BY <2>1, <2>2, <2>3, <2>4, <2>5, <2>6 DEF PreparationNext
<1>3. Knowing => UpdateNoticed
  <2> SUFFICES ASSUME Knowing, ~turned_back, ~held, NEW v \in relied,
                      v.of + 1 \in DOMAIN releases, releases[v.of + 1] + Day <= v.when
               PROVE  FALSE
    BY DEF UpdateNoticed
  <2>1. v.when < releases[v.of + 1] + Day
    BY DEF Knowing, Steady, Timely
  <2>2. v.when \in Nat /\ releases[v.of + 1] \in Nat
    BY DEF Knowing, Worldly, Relied
  <2> QED BY <2>1, <2>2, TimeAssumption
<1> QED BY <1>1, <1>2, <1>3, PTL DEF PreparationSpec

-----------------------------------------------------------------------------
(* The detectors that a run hands over, and the programs that it runs.        *)

\* deduplicate_libraries, and what is made of it, as functions of the revisions read.
DeduplicatedOf(lib) ==
  {u \in UNION {Revisions[lib[kind]][kind] \X {kind} : kind \in Kinds} :
     u[2] = "rust" => \A d \in Revisions[lib[Chain]][Chain] : NameOf(d) # NameOf(u[1])}

NamesOf(lib) == {NameOf(u[1]) : u \in DeduplicatedOf(lib)}

HandOf(lib, names) ==
  {u \in DeduplicatedOf(lib) : HasPath(u[1]) /\ <<u[1].word, "-">> \in names}

LEMMA DeduplicatedIs ==
  ASSUME NEW r \in Runs
  PROVE  /\ Deduplicated(r) = DeduplicatedOf(libraries[r])
         /\ {NameOf(u[1]) : u \in Deduplicated(r)} = NamesOf(libraries[r])
         /\ {u \in Deduplicated(r) : HasPath(u[1]) /\ Matches(r, u[1])}
              = HandOf(libraries[r], selected[r])
<1>1. Deduplicated(r) = DeduplicatedOf(libraries[r])
  BY DEF Deduplicated, DeduplicatedOf, InLibrary
<1> QED BY <1>1 DEF NamesOf, HandOf, Matches

Program == [of : {0} \cup DOMAIN Revisions, toolchain : Toolchains \cup {"none"}]

BuildType ==
  /\ phase \in [Runs -> Phases]
  /\ head \in DOMAIN Revisions
  /\ options \in [Runs -> [local : BOOLEAN, toolchain : Toolchains]]
  /\ libraries \in [Runs -> [Kinds -> {0} \cup DOMAIN Revisions]]
  /\ DOMAIN selected = Runs /\ DOMAIN handed = Runs
  /\ directory \in [Runs -> Directories]
  /\ built \in [Directories -> [Programs -> Program]]
  /\ programs \in [Runs -> [Programs -> Program]]

\* The steps with the helper run; with the libraries handed over; with the names selected;
\* and those where a program is built or run.
Helped == {"driver", "build_driver", "run_driver", "ready"}

HandedOver == {"helper", "build_helper", "run_helper"} \cup Helped

Selected == {"build", "build_chain", "hand"} \cup HandedOver

Working == {"build_helper", "run_helper", "build_driver", "run_driver"}

\* While the branch stays where it is, a run reads the same revision each time.
Reading(r) ==
  /\ libraries[r]["rust"] = 0 => libraries[r][Chain] = 0
  /\ phase[r] \in {"names_chain", "select"} \cup Selected => libraries[r]["rust"] # 0
  /\ phase[r] \in {"select"} \cup Selected => libraries[r][Chain] # 0
  /\ r \notin moved /\ phase[r] \notin Prepared =>
       \A k \in Kinds : libraries[r][k] \in {0, head}

Choosing(r) ==
  /\ r \notin moved /\ phase[r] \in Selected => selected[r] \subseteq NamesOf(libraries[r])
  /\ phase[r] \in HandedOver => handed[r] = HandOf(libraries[r], selected[r])

Placed(r) ==
  phase[r] \in Working =>
    /\ options[r].local <=> directory[r] = Local
    /\ ~options[r].local /\ r \notin moved => directory[r] = libraries[r]["rust"]
    /\ \A p \in Programs : phase[r] = Running(p) => built[directory[r]][p] # Missing

Fits(r, p) ==
  /\ programs[r][p].toolchain # options[r].toolchain => OtherToolchain(r)
  /\ r \notin moved /\ ~options[r].local => programs[r][p].of = libraries[r]["rust"]

Ran(r) == /\ phase[r] \in Helped => Fits(r, "helper")
          /\ phase[r] = "ready" => Fits(r, "driver")

InOrder(r) == Reading(r) /\ Choosing(r) /\ Placed(r) /\ Ran(r)

\* Each program was built for somebody's toolchain; those of a commit are of this commit.
WellBuilt ==
  \A d \in Directories : \A p \in Programs :
    built[d][p] # Missing =>
      /\ d # Local => built[d][p].of = d
      /\ \E q \in Runs : built[d][p].toolchain = options[q].toolchain

Preparations == BuildType /\ WellBuilt /\ \A r \in Runs : InOrder(r)

\* What others do to a run: they build programs where there may have been none.
Untouched(q) ==
  /\ phase'[q] = phase[q] /\ libraries'[q] = libraries[q] /\ selected'[q] = selected[q]
  /\ handed'[q] = handed[q] /\ directory'[q] = directory[q] /\ programs'[q] = programs[q]

Grown == \A d \in Directories : \A p \in Programs :
           built[d][p] # Missing => built'[d][p] # Missing

LEMMA Undisturbed ==
  ASSUME BuildType, NEW q \in Runs, InOrder(q), Untouched(q), Grown,
         UNCHANGED <<head, moved, options>>
  PROVE  InOrder(q)'
<1>1. OtherToolchain(q)' <=> OtherToolchain(q)
  BY DEF OtherToolchain
<1>2. Reading(q)'
  BY DEF InOrder, Untouched, Reading
<1>3. Choosing(q)'
  BY DEF InOrder, Untouched, Choosing
<1>4. Placed(q)'
  BY DEF InOrder, Untouched, Placed, Grown, BuildType
<1>5. Ran(q)'
  BY <1>1 DEF InOrder, Untouched, Ran, Fits
<1> QED BY <1>2, <1>3, <1>4, <1>5 DEF InOrder

\* Neither of the steps before the detectors are read, nor of the end.
LEMMA EarlierStep ==
  ASSUME Preparations, NEW r \in Runs, NEW step \in Phases \ ({"names_chain", "select"} \cup Selected),
         step \in Prepared \/ phase[r] \notin Prepared,
         MoveOn(r, step), UNCHANGED builds
  PROVE  Preparations'
<1>1. UNCHANGED <<head, moved, options, libraries, selected, handed, directory, built, programs>>
  BY DEF builds, choice
<1>2. /\ phase' \in [Runs -> Phases] /\ phase'[r] = step
      /\ \A q \in Runs \ {r} : phase'[q] = phase[q]
  BY DEF Preparations, BuildType, MoveOn
<1>3. BuildType' /\ WellBuilt'
  BY <1>1, <1>2 DEF Preparations, BuildType, WellBuilt
<1>4. ASSUME NEW q \in Runs \ {r} PROVE InOrder(q)'
  BY <1>1, <1>2, Undisturbed DEF Preparations, Untouched, Grown
<1>5. InOrder(r)'
  <2>1. step \notin {"names_chain", "select"} \cup Selected \cup HandedOver \cup Working \cup Helped
    BY DEF Selected, HandedOver, Helped, Working
  <2>2. Reading(r)'
    BY <1>1, <1>2, <2>1 DEF Preparations, InOrder, Reading
  <2>3. Choosing(r)' /\ Placed(r)'
    BY <1>2, <2>1 DEF Choosing, Placed
  <2>4. Ran(r)'
    BY <1>2, <2>1 DEF Ran, Helped
  <2> QED BY <2>2, <2>3, <2>4 DEF InOrder
<1> QED BY <1>3, <1>4, <1>5 DEF Preparations

\* What is common to the steps of a run that reads, selects or hands over.
LEMMA ChoosingStep ==
  ASSUME Preparations, NEW r \in Runs, NEW step \in Phases, MoveOn(r, step),
         UNCHANGED <<head, moved, options, directory, built, programs>>,
         \A q \in Runs \ {r} : /\ libraries'[q] = libraries[q] /\ selected'[q] = selected[q]
                               /\ handed'[q] = handed[q]
  PROVE  /\ phase' \in [Runs -> Phases] /\ phase'[r] = step
         /\ WellBuilt' /\ \A q \in Runs \ {r} : InOrder(q)'
<1>1. /\ phase' \in [Runs -> Phases] /\ phase'[r] = step
      /\ \A q \in Runs \ {r} : phase'[q] = phase[q]
  BY DEF Preparations, BuildType, MoveOn
<1>2. WellBuilt'
  BY DEF Preparations, WellBuilt
<1>3. ASSUME NEW q \in Runs \ {r} PROVE InOrder(q)'
  BY <1>1, Undisturbed DEF Preparations, Untouched, Grown
<1> QED BY <1>1, <1>2, <1>3

\* Reading a library a second time changes nothing, unless the branch moved.
LEMMA ReadStep ==
  ASSUME Preparations, NEW r \in Runs, ReadLibraries(r)
  PROVE  Preparations'
<1>1. PICK kind \in Kinds, step \in {"names_chain", "select", "build_chain", "hand"} :
        /\ ReadLibrary(r, phase[r], kind, step)
        /\ \/ phase[r] = "names" /\ kind = "rust" /\ step = "names_chain"
           \/ phase[r] = "names_chain" /\ kind = Chain /\ step = "select"
           \/ phase[r] = "build" /\ kind = "rust" /\ step = "build_chain"
           \/ phase[r] = "build_chain" /\ kind = Chain /\ step = "hand"
  BY DEF ReadLibraries, ReadLibrary, StandsAt, Kinds
<1>2. /\ libraries' = [libraries EXCEPT ![r][kind] = head] /\ MoveOn(r, step)
      /\ UNCHANGED <<head, moved, options, selected, handed, directory, built, programs>>
  BY <1>1 DEF ReadLibrary
<1>3. step \in Phases /\ head \in DOMAIN Revisions /\ head # 0
  BY RevisionsAssumption DEF Phases, Preparations, BuildType
<1>4. /\ libraries' \in [Runs -> [Kinds -> {0} \cup DOMAIN Revisions]]
      /\ libraries'[r][kind] = head
      /\ \A k \in Kinds \ {kind} : libraries'[r][k] = libraries[r][k]
      /\ \A q \in Runs \ {r} : libraries'[q] = libraries[q]
  BY <1>2, <1>3 DEF Preparations, BuildType
<1>5. /\ phase' \in [Runs -> Phases] /\ phase'[r] = step
      /\ WellBuilt' /\ \A q \in Runs \ {r} : InOrder(q)'
  BY <1>2, <1>3, <1>4, ChoosingStep
<1>6. BuildType'
  BY <1>2, <1>4, <1>5 DEF Preparations, BuildType
<1>7. "rust" \in Kinds /\ Chain \in Kinds
  BY DEF Kinds
<1>8. Reading(r)'
  <2>1. phase[r] \notin Prepared
    BY <1>1 DEF Prepared
  <2>2. r \notin moved' => \A k \in Kinds : libraries'[r][k] \in {0, head'}
    BY <1>2, <1>4, <2>1 DEF Preparations, InOrder, Reading
  <2>3. libraries'[r]["rust"] # 0
    BY <1>1, <1>3, <1>4, <1>7 DEF Preparations, InOrder, Reading, Selected
  <2>4. step # "names_chain" => libraries'[r][Chain] # 0
    BY <1>1, <1>3, <1>4, <1>7 DEF Preparations, InOrder, Reading, Selected
  <2>5. step \in {"names_chain", "select", "build_chain", "hand"}
    OBVIOUS
  <2> QED BY <1>5, <2>2, <2>3, <2>4 DEF Reading, Selected, HandedOver, Helped
<1>9. Choosing(r)'
  <2>1. step \notin HandedOver
    BY DEF HandedOver, Helped
  <2>2. ASSUME r \notin moved, step \in Selected PROVE selected[r] \subseteq NamesOf(libraries'[r])
    <3>1. phase[r] \in {"build", "build_chain"}
      BY <1>1, <2>2 DEF Selected, HandedOver, Helped
    <3>2. /\ libraries[r]["rust"] # 0 /\ libraries[r][Chain] # 0
          /\ \A k \in Kinds : libraries[r][k] \in {0, head}
      BY <2>2, <3>1 DEF Preparations, InOrder, Reading, Selected, Prepared
    <3>3. libraries[r][kind] = head
      BY <1>7, <3>2 DEF Kinds
    <3>4. libraries'[r] = libraries[r]
      BY <1>4, <3>3 DEF Preparations, BuildType
    <3>5. selected[r] \subseteq NamesOf(libraries[r])
      BY <2>2, <3>1 DEF Preparations, InOrder, Choosing, Selected
    <3> QED BY <3>4, <3>5
  <2> QED BY <1>2, <1>5, <2>1, <2>2 DEF Choosing
<1>10. Placed(r)' /\ Ran(r)'
  <2>1. step \notin Working \cup Helped /\ step # "ready"
    BY DEF Working, Helped
  <2> QED BY <1>5, <2>1 DEF Placed, Ran
<1>11. InOrder(r)'
  BY <1>8, <1>9, <1>10 DEF InOrder
<1> QED BY <1>5, <1>6, <1>11 DEF Preparations

LEMMA SelectStep ==
  ASSUME Preparations, NEW r \in Runs, SelectNames(r)
  PROVE  Preparations'
<1>1. PICK excluded \in Exclusions :
        selected' = [selected EXCEPT ![r] = {NameOf(u[1]) : u \in Deduplicated(r)} \ excluded]
  BY DEF SelectNames
<1>2. /\ phase[r] = "select" /\ MoveOn(r, "build")
      /\ UNCHANGED <<head, moved, options, libraries, handed, directory, built, programs>>
  BY DEF SelectNames, StandsAt
<1>3. /\ DOMAIN selected' = Runs /\ selected'[r] \subseteq NamesOf(libraries[r])
      /\ \A q \in Runs \ {r} : selected'[q] = selected[q]
  BY <1>1, DeduplicatedIs DEF Preparations, BuildType
<1>4. "build" \in Phases
  BY DEF Phases
<1>5. /\ phase' \in [Runs -> Phases] /\ phase'[r] = "build"
      /\ WellBuilt' /\ \A q \in Runs \ {r} : InOrder(q)'
  BY <1>2, <1>3, <1>4, ChoosingStep
<1>6. BuildType'
  BY <1>2, <1>3, <1>5 DEF Preparations, BuildType
<1>7. Reading(r)'
  BY <1>2, <1>5 DEF Preparations, InOrder, Reading, Selected, Prepared
<1>8. Choosing(r)'
  BY <1>2, <1>3, <1>5 DEF Choosing, HandedOver, Helped
<1>9. Placed(r)' /\ Ran(r)'
  BY <1>5 DEF Placed, Ran, Working, Helped
<1>10. InOrder(r)'
  BY <1>7, <1>8, <1>9 DEF InOrder
<1> QED BY <1>5, <1>6, <1>10 DEF Preparations

LEMMA HandStep ==
  ASSUME Preparations, NEW r \in Runs, HandLibraries(r)
  PROVE  Preparations'
<1>1. /\ phase[r] = "hand"
      /\ UNCHANGED <<head, moved, options, libraries, selected, directory, built, programs>>
  BY DEF HandLibraries, StandsAt
<1>2. CASE MoveOn(r, "failed") /\ UNCHANGED handed
  <2>1. UNCHANGED builds
    BY <1>1, <1>2 DEF builds, choice
  <2>2. "failed" \in Phases \ ({"names_chain", "select"} \cup Selected) /\ "failed" \in Prepared
    BY DEF Phases, Selected, HandedOver, Helped, Prepared
  <2> QED BY <1>2, <2>1, <2>2, EarlierStep
<1>3. CASE /\ handed' = [handed EXCEPT ![r] =
                           {u \in Deduplicated(r) : HasPath(u[1]) /\ Matches(r, u[1])}]
           /\ MoveOn(r, "helper")
  <2>1. /\ DOMAIN handed' = Runs /\ handed'[r] = HandOf(libraries[r], selected[r])
        /\ \A q \in Runs \ {r} : handed'[q] = handed[q]
    BY <1>3, DeduplicatedIs DEF Preparations, BuildType
  <2>2. "helper" \in Phases
    BY DEF Phases
  <2>3. /\ phase' \in [Runs -> Phases] /\ phase'[r] = "helper"
        /\ WellBuilt' /\ \A q \in Runs \ {r} : InOrder(q)'
    BY <1>1, <1>3, <2>1, <2>2, ChoosingStep
  <2>4. BuildType'
    BY <1>1, <2>1, <2>3 DEF Preparations, BuildType
  <2>5. Reading(r)'
    BY <1>1, <2>3 DEF Preparations, InOrder, Reading, Selected, Prepared
  <2>6. Choosing(r)'
    BY <1>1, <2>1, <2>3 DEF Preparations, InOrder, Choosing, Selected
  <2>7. Placed(r)' /\ Ran(r)'
    BY <2>3 DEF Placed, Ran, Working, Helped
  <2>8. InOrder(r)'
    BY <2>5, <2>6, <2>7 DEF InOrder
  <2> QED BY <2>3, <2>4, <2>8 DEF Preparations
<1> QED BY <1>2, <1>3 DEF HandLibraries

\* What is common to the steps of a run that builds and runs its programs.
LEMMA ProgramStep ==
  ASSUME Preparations, NEW r \in Runs, phase[r] \in HandedOver \ Prepared,
         NEW step \in HandedOver \cup {"failed"}, MoveOn(r, step),
         UNCHANGED <<head, moved, options, choice>>, Grown,
         \A q \in Runs \ {r} : directory'[q] = directory[q] /\ programs'[q] = programs[q]
  PROVE  /\ phase' \in [Runs -> Phases] /\ phase'[r] = step
         /\ \A q \in Runs \ {r} : InOrder(q)'
         /\ Reading(r)' /\ Choosing(r)'
<1>1. /\ phase' \in [Runs -> Phases] /\ phase'[r] = step
      /\ \A q \in Runs \ {r} : phase'[q] = phase[q]
  BY DEF Preparations, BuildType, MoveOn, Phases, HandedOver, Helped
<1>2. UNCHANGED <<libraries, selected, handed>>
  BY DEF choice
<1>3. ASSUME NEW q \in Runs \ {r} PROVE InOrder(q)'
  BY <1>1, <1>2, Undisturbed DEF Preparations, Untouched
<1>4. phase[r] \in Selected
  BY DEF Selected
<1>5. Reading(r)'
  BY <1>1, <1>2, <1>4 DEF Preparations, InOrder, Reading
<1>6. Choosing(r)'
  BY <1>1, <1>2, <1>4 DEF Preparations, InOrder, Choosing, Selected, HandedOver, Helped
<1> QED BY <1>1, <1>3, <1>5, <1>6

LEMMA CheckoutIs ==
  ASSUME Preparations, NEW r \in Runs, phase[r] \in HandedOver \ Prepared
  PROVE  /\ Checkout(r) \in Directories /\ (options[r].local <=> Checkout(r) = Local)
         /\ ~options[r].local /\ r \notin moved => Checkout(r) = libraries[r]["rust"]
<1>1. head \in DOMAIN Revisions /\ head # 0
  BY RevisionsAssumption DEF Preparations, BuildType
<1>2. r \notin moved => libraries[r]["rust"] = head
  BY DEF Preparations, InOrder, Reading, Selected, Kinds
<1> QED BY <1>1, <1>2 DEF Checkout, Directories, Local

LEMMA LookStep ==
  ASSUME Preparations, NEW r \in Runs, NEW p \in Programs, LookFor(r, p)
  PROVE  Preparations'
<1>1. /\ phase[r] = p /\ directory' = [directory EXCEPT ![r] = Checkout(r)]
      /\ UNCHANGED <<head, moved, options, choice, built, programs>>
  BY DEF LookFor, StandsAt
<1>2. phase[r] \in HandedOver \ Prepared
  BY <1>1 DEF Programs, HandedOver, Helped, Prepared
<1>3. /\ directory' \in [Runs -> Directories] /\ directory'[r] = Checkout(r)
      /\ \A q \in Runs \ {r} : directory'[q] = directory[q]
  BY <1>1, <1>2, CheckoutIs DEF Preparations, BuildType
<1>4. PICK step \in {Building(p), Running(p)} :
        MoveOn(r, step) /\ (step = Running(p) => built[directory'[r]][p] # Missing)
  <2>1. Building(p) # Running(p)
    BY DEF Building, Running
  <2>2. CASE built[directory'[r]][p] = Missing
    BY <2>1, <2>2 DEF LookFor, MoveOn
  <2>3. CASE built[directory'[r]][p] # Missing
    BY <2>1, <2>3 DEF LookFor, MoveOn
  <2> QED BY <2>2, <2>3
<1>5. step \in HandedOver \cup {"failed"}
  BY DEF Programs, Building, Running, HandedOver, Helped
<1>6. Grown
  BY <1>1 DEF Grown
<1>7. /\ phase' \in [Runs -> Phases] /\ phase'[r] = step
      /\ \A q \in Runs \ {r} : InOrder(q)'
      /\ Reading(r)' /\ Choosing(r)'
  BY <1>1, <1>2, <1>3, <1>4, <1>5, <1>6, ProgramStep
<1>8. BuildType' /\ WellBuilt'
  BY <1>1, <1>3, <1>7 DEF Preparations, BuildType, WellBuilt, choice
<1>9. Placed(r)'
  <2>1. \A o \in Programs : step = Running(o) => built[directory'[r]][o] # Missing
    BY <1>4 DEF Programs, Building, Running
  <2> QED BY <1>1, <1>2, <1>3, <1>7, <2>1, CheckoutIs DEF Placed, choice
<1>10. Ran(r)'
  <2>1. (step \in Helped => phase[r] \in Helped) /\ step # "ready"
    BY <1>1 DEF Programs, Building, Running, Helped
  <2>2. OtherToolchain(r)' <=> OtherToolchain(r)
    BY <1>1 DEF OtherToolchain
  <2> QED BY <1>1, <1>7, <2>1, <2>2 DEF Preparations, InOrder, Ran, Fits, choice
<1>11. InOrder(r)'
  BY <1>7, <1>9, <1>10 DEF InOrder
<1> QED BY <1>7, <1>8, <1>11 DEF Preparations

LEMMA ResultIs ==
  ASSUME Preparations, NEW r \in Runs, phase[r] \in Working
  PROVE  /\ Result(r) \in Program /\ Result(r) # Missing
         /\ directory[r] # Local => Result(r).of = directory[r]
         /\ Result(r).toolchain = options[r].toolchain
<1>1. head \in DOMAIN Revisions /\ 0 \notin DOMAIN Revisions
  BY RevisionsAssumption DEF Preparations, BuildType
<1>2. /\ options[r].local <=> directory[r] = Local
      /\ directory[r] \in {Local} \cup DOMAIN Revisions
  BY DEF Preparations, InOrder, Placed, BuildType, Directories
<1>3. options[r].toolchain \in Toolchains
  BY DEF Preparations, BuildType
<1> DEFINE revision == IF options[r].local THEN head ELSE directory[r]
<1>4. revision \in DOMAIN Revisions /\ revision # 0 /\ (directory[r] # Local => revision = directory[r])
  BY <1>1, <1>2 DEF Local
<1>5. Result(r) = [of |-> revision, toolchain |-> options[r].toolchain]
  BY DEF Result
<1> HIDE DEF revision
<1> QED BY <1>3, <1>4, <1>5 DEF Program, Missing

\* A build leaves each program as it was, or as the run wants it: both when it succeeds.
LEMMA CargoStep ==
  ASSUME Preparations, NEW r \in Runs, NEW p \in Programs, BuildPrograms(r, p)
  PROVE  Preparations'
<1>1. phase[r] = Building(p) /\ UNCHANGED <<head, moved, options, choice, directory, programs>>
  BY DEF BuildPrograms, StandsAt
<1>2. phase[r] \in Working /\ phase[r] \in HandedOver \ Prepared
  BY <1>1 DEF Programs, Building, Working, HandedOver, Helped, Prepared
<1>3. PICK f : /\ built' = [built EXCEPT ![directory[r]] = f]
               /\ f \in [Programs -> {Result(r)} \cup {built[directory[r]][o] : o \in Programs}]
               /\ \A o \in Programs : f[o] \in {Result(r), built[directory[r]][o]}
               /\ \/ MoveOn(r, Running(p)) /\ \A o \in Programs : f[o] = Result(r)
                  \/ MoveOn(r, "failed")
  <2>1. CASE /\ built' = [built EXCEPT ![directory[r]] = [o \in Programs |-> Result(r)]]
             /\ MoveOn(r, Running(p))
    <3> DEFINE f == [o \in Programs |-> Result(r)]
    <3>1. /\ f \in [Programs -> {Result(r)} \cup {built[directory[r]][o] : o \in Programs}]
          /\ \A o \in Programs : f[o] = Result(r)
      OBVIOUS
    <3>2. built' = [built EXCEPT ![directory[r]] = f]
      BY <2>1
    <3> HIDE DEF f
    <3> QED BY <2>1, <3>1, <3>2
  <2>2. ASSUME NEW some \in SUBSET Programs, MoveOn(r, "failed"),
               built' = [built EXCEPT ![directory[r]] =
                 [o \in Programs |-> IF o \in some THEN Result(r) ELSE built[directory[r]][o]]]
        PROVE  \E f : /\ built' = [built EXCEPT ![directory[r]] = f]
                      /\ f \in [Programs -> {Result(r)} \cup {built[directory[r]][o] : o \in Programs}]
                      /\ \A o \in Programs : f[o] \in {Result(r), built[directory[r]][o]}
                      /\ \/ MoveOn(r, Running(p)) /\ \A o \in Programs : f[o] = Result(r)
                         \/ MoveOn(r, "failed")
    <3> DEFINE f == [o \in Programs |-> IF o \in some THEN Result(r) ELSE built[directory[r]][o]]
    <3>1. /\ f \in [Programs -> {Result(r)} \cup {built[directory[r]][o] : o \in Programs}]
          /\ \A o \in Programs : f[o] \in {Result(r), built[directory[r]][o]}
      OBVIOUS
    <3>2. built' = [built EXCEPT ![directory[r]] = f]
      BY <2>2
    <3> HIDE DEF f
    <3> QED BY <2>2, <3>1, <3>2
  <2> QED BY <2>1, <2>2 DEF BuildPrograms
<1>4. /\ built \in [Directories -> [Programs -> Program]] /\ directory[r] \in Directories
      /\ Result(r) \in Program /\ Result(r) # Missing
      /\ directory[r] # Local => Result(r).of = directory[r]
      /\ Result(r).toolchain = options[r].toolchain
  BY <1>2, ResultIs DEF Preparations, BuildType
<1>5. f \in [Programs -> Program]
  BY <1>3, <1>4
<1>6. /\ built' \in [Directories -> [Programs -> Program]] /\ built'[directory[r]] = f
      /\ \A d \in Directories \ {directory[r]} : built'[d] = built[d]
  BY <1>3, <1>4, <1>5
<1>7. \A d \in Directories : \A o \in Programs :
        built'[d][o] = built[d][o] \/ (d = directory[r] /\ built'[d][o] = Result(r))
  BY <1>3, <1>6
<1>8. Grown
  BY <1>4, <1>7 DEF Grown
<1>9. WellBuilt'
  <2> SUFFICES ASSUME NEW d \in Directories, NEW o \in Programs, built'[d][o] # Missing
               PROVE  /\ d # Local => built'[d][o].of = d
                      /\ \E q \in Runs : built'[d][o].toolchain = options[q].toolchain
    BY <1>1 DEF WellBuilt
  <2>1. CASE built'[d][o] = built[d][o]
    BY <2>1 DEF Preparations, WellBuilt
  <2>2. CASE d = directory[r] /\ built'[d][o] = Result(r)
    BY <1>4, <2>2
  <2> QED BY <1>7, <2>1, <2>2
<1>10. PICK step \in {Running(p), "failed"} :
         MoveOn(r, step) /\ (step = Running(p) => \A o \in Programs : f[o] = Result(r))
  <2>1. Running(p) # "failed"
    BY DEF Running
  <2>2. CASE MoveOn(r, Running(p)) /\ \A o \in Programs : f[o] = Result(r)
    BY <2>2 DEF MoveOn
  <2>3. CASE MoveOn(r, "failed")
    BY <2>1, <2>3 DEF MoveOn
  <2> QED BY <1>3, <2>2, <2>3
<1>11. step \in HandedOver \cup {"failed"}
  BY DEF Programs, Running, HandedOver, Helped
<1>12. /\ phase' \in [Runs -> Phases] /\ phase'[r] = step
       /\ \A q \in Runs \ {r} : InOrder(q)'
       /\ Reading(r)' /\ Choosing(r)'
  BY <1>1, <1>2, <1>8, <1>10, <1>11, ProgramStep
<1>13. BuildType'
  BY <1>1, <1>6, <1>12 DEF Preparations, BuildType, choice
<1>14. Placed(r)'
  <2>1. ASSUME step \in Working, NEW o \in Programs PROVE built'[directory[r]][o] # Missing
    BY <1>4, <1>6, <1>10, <2>1 DEF Working
  <2>2. step \in Working => phase[r] \in Working
    BY <1>2
  <2> QED BY <1>1, <1>12, <2>1, <2>2 DEF Preparations, InOrder, Placed, choice
<1>15. Ran(r)'
  <2>1. (step \in Helped => phase[r] \in Helped) /\ step # "ready"
    BY <1>1 DEF Programs, Building, Running, Helped
  <2>2. OtherToolchain(r)' <=> OtherToolchain(r)
    BY <1>1 DEF OtherToolchain
  <2> QED BY <1>1, <1>12, <2>1, <2>2 DEF Preparations, InOrder, Ran, Fits, choice
<1>16. InOrder(r)'
  BY <1>12, <1>14, <1>15 DEF InOrder
<1> QED BY <1>9, <1>12, <1>13, <1>16 DEF Preparations

\* The program that is run was built for somebody, and in its directory.
LEMMA RunStep ==
  ASSUME Preparations, NEW r \in Runs, NEW p \in Programs, RunProgram(r, p)
  PROVE  Preparations'
<1> DEFINE program == built[directory[r]][p]
           step == IF p = "helper" THEN "driver" ELSE "ready"
<1>1. /\ phase[r] = Running(p) /\ MoveOn(r, step)
      /\ programs' = [programs EXCEPT ![r][p] = program]
      /\ UNCHANGED <<head, moved, options, choice, directory, built>>
  BY DEF RunProgram, StandsAt
<1>2. phase[r] \in Working /\ phase[r] \in HandedOver \ Prepared
  BY <1>1 DEF Programs, Running, Working, HandedOver, Helped, Prepared
<1>3. program \in Program /\ program # Missing
  BY <1>1, <1>2 DEF Preparations, InOrder, Placed, BuildType
<1>4. /\ programs' \in [Runs -> [Programs -> Program]] /\ programs'[r][p] = program
      /\ \A o \in Programs \ {p} : programs'[r][o] = programs[r][o]
      /\ \A q \in Runs \ {r} : programs'[q] = programs[q]
  BY <1>1, <1>3 DEF Preparations, BuildType
<1>5. step \in HandedOver \cup {"failed"}
  BY DEF HandedOver, Helped
<1>6. Grown
  BY <1>1 DEF Grown
<1>7. /\ phase' \in [Runs -> Phases] /\ phase'[r] = step
      /\ \A q \in Runs \ {r} : InOrder(q)'
      /\ Reading(r)' /\ Choosing(r)'
  BY <1>1, <1>2, <1>4, <1>5, <1>6, ProgramStep
<1>8. BuildType' /\ WellBuilt'
  BY <1>1, <1>4, <1>7 DEF Preparations, BuildType, WellBuilt, choice
<1>9. Placed(r)'
  BY <1>7 DEF Placed, Working
<1>10. Fits(r, p)'
  <2>1. /\ directory[r] # Local => program.of = directory[r]
        /\ \E q \in Runs : program.toolchain = options[q].toolchain
    BY <1>3 DEF Preparations, WellBuilt, BuildType
  <2>2. /\ options[r].local <=> directory[r] = Local
        /\ ~options[r].local /\ r \notin moved => directory[r] = libraries[r]["rust"]
    BY <1>2 DEF Preparations, InOrder, Placed
  <2>3. program.toolchain # options[r].toolchain => OtherToolchain(r)'
    BY <1>1, <2>1 DEF OtherToolchain
  <2> HIDE DEF program
  <2> QED BY <1>1, <1>4, <2>1, <2>2, <2>3 DEF Fits, choice
<1>11. ASSUME p = "driver" PROVE Fits(r, "helper")'
  <2>1. phase[r] \in Helped
    BY <1>1, <1>11 DEF Running, Helped
  <2>2. OtherToolchain(r)' <=> OtherToolchain(r)
    BY <1>1 DEF OtherToolchain
  <2>3. programs'[r]["helper"] = programs[r]["helper"]
    BY <1>4, <1>11 DEF Programs
  <2> QED BY <1>1, <2>1, <2>2, <2>3 DEF Preparations, InOrder, Ran, Fits, choice
<1>12. Ran(r)'
  <2>1. p = "helper" \/ p = "driver"
    BY DEF Programs
  <2>2. CASE p = "helper"
    BY <1>7, <1>10, <2>2 DEF Ran
  <2>3. CASE p = "driver"
    BY <1>10, <1>11, <2>3 DEF Ran
  <2> QED BY <2>1, <2>2, <2>3
<1>13. InOrder(r)'
  BY <1>7, <1>9, <1>12 DEF InOrder
<1> QED BY <1>7, <1>8, <1>13 DEF Preparations

\* Runs that have read something by now are among those that it moved for.
LEMMA PushStep ==
  ASSUME Preparations, Push
  PROVE  Preparations'
<1>1. /\ head < Len(Revisions) /\ head' = head + 1
      /\ moved' = moved \cup {r \in Runs : phase[r] \notin Prepared /\ libraries[r]["rust"] # 0}
      /\ UNCHANGED <<phase, options, libraries, selected, handed, directory, built, programs>>
  BY DEF Push, choice
<1>2. head' \in DOMAIN Revisions
  BY <1>1, RevisionsAssumption DEF Preparations, BuildType
<1>3. BuildType' /\ WellBuilt'
  BY <1>1, <1>2 DEF Preparations, BuildType, WellBuilt
<1>4. ASSUME NEW r \in Runs PROVE InOrder(r)'
  <2>1. /\ r \notin moved' => r \notin moved
        /\ r \notin moved' /\ phase[r] \notin Prepared => libraries[r]["rust"] = 0
    BY <1>1
  <2>2. Reading(r)'
    BY <1>1, <2>1 DEF Preparations, InOrder, Reading, Kinds
  <2>3. Choosing(r)'
    BY <1>1, <2>1 DEF Preparations, InOrder, Choosing
  <2>4. Placed(r)'
    BY <1>1, <2>1 DEF Preparations, InOrder, Placed
  <2>5. OtherToolchain(r)' <=> OtherToolchain(r)
    BY <1>1 DEF OtherToolchain
  <2>6. Ran(r)'
    BY <1>1, <2>1, <2>5 DEF Preparations, InOrder, Ran, Fits
  <2> QED BY <2>2, <2>3, <2>4, <2>6 DEF InOrder
<1> QED BY <1>3, <1>4 DEF Preparations

LEMMA PreparationsStutter ==
  ASSUME Preparations, UNCHANGED <<phase, builds>>
  PROVE  Preparations'
<1>1. UNCHANGED <<phase, head, moved, options, libraries, selected, handed, directory, built, programs>>
  BY DEF builds, choice
<1>2. BuildType' /\ WellBuilt'
  BY <1>1 DEF Preparations, BuildType, WellBuilt
<1>3. ASSUME NEW q \in Runs PROVE InOrder(q)'
  BY <1>1, Undisturbed DEF Preparations, Untouched, Grown
<1> QED BY <1>2, <1>3 DEF Preparations

LEMMA PreparationsNext == Preparations /\ [PreparationNext]_preparation => Preparations'
<1> SUFFICES ASSUME Preparations, [PreparationNext]_preparation PROVE Preparations'
  OBVIOUS
<1> DEFINE Earlier == Phases \ ({"names_chain", "select"} \cup Selected)
<1>1. ASSUME NEW r \in Runs, UserFilesStep(r), UNCHANGED builds PROVE Preparations'
  <2>1. phase[r] \notin Prepared
    BY <1>1 DEF UserFilesStep, ReadId, AskId, CreateId, FillId, SendReport, LoadVersion,
                GetLatest, SaveVersion, WriteVersion, StandsAt, Prepared
  <2>2. \/ MoveOn(r, "ask") \/ MoveOn(r, "send") \/ MoveOn(r, "create") \/ MoveOn(r, "fill")
        \/ MoveOn(r, "version")
        \/ LoadVersion(r) \/ GetLatest(r) \/ SaveVersion(r) \/ WriteVersion(r)
    BY <1>1 DEF UserFilesStep, ReadId, AskId, CreateId, FillId, SendReport
  <2>3. LoadVersion(r) \/ GetLatest(r) \/ SaveVersion(r) \/ WriteVersion(r) =>
          \/ MoveOn(r, "names") \/ MoveOn(r, "latest") \/ MoveOn(r, "save")
          \/ MoveOn(r, "write_version")
    BY DEF LoadVersion, GetLatest, SaveVersion, WriteVersion
  <2>4. {"ask", "send", "create", "fill", "version", "names", "latest", "save", "write_version"}
          \subseteq Earlier
    BY DEF Phases, Selected, HandedOver, Helped
  <2>5. ASSUME NEW step \in Earlier, MoveOn(r, step) PROVE Preparations'
    BY <1>1, <2>1, <2>5, EarlierStep
  <2> HIDE DEF Earlier
  <2> QED BY <2>2, <2>3, <2>4, <2>5
<1>2. ASSUME NEW r \in Runs, BuildsStep(r) PROVE Preparations'
  BY <1>2, ReadStep, SelectStep, HandStep, LookStep, CargoStep, RunStep DEF BuildsStep
<1>3. ASSUME NEW r \in Runs, KillRun(r) PROVE Preparations'
  <2>1. "killed" \in Earlier /\ "killed" \in Prepared
    BY DEF Phases, Selected, HandedOver, Helped, Prepared
  <2> QED BY <1>3, <2>1, EarlierStep DEF KillRun
<1>4. CASE UserFilesElse /\ UNCHANGED builds
  <2>1. UNCHANGED phase
    BY <1>4 DEF UserFilesElse, OptOut, Tick, SetBack, Release
  <2> QED BY <1>4, <2>1, PreparationsStutter
<1>5. CASE Push
  BY <1>5, PushStep
<1>6. CASE UNCHANGED preparation
  BY <1>6, PreparationsStutter DEF preparation
<1> QED BY <1>1, <1>2, <1>3, <1>4, <1>5, <1>6 DEF PreparationNext

\* Handing over by names with dashes leaves out what has underscores or several types only.
LEMMA HandsSelected ==
  ASSUME NEW lib \in [Kinds -> DOMAIN Revisions], NEW names, names \subseteq NamesOf(lib)
  PROVE  \A n \in names : \/ \E u \in HandOf(lib, names) : NameOf(u[1]) = n
                          \/ \E u \in DeduplicatedOf(lib) :
                               NameOf(u[1]) = n /\ (u[1].sep = "_" \/ u[1].kinds > 1)
<1> SUFFICES ASSUME NEW n \in names
             PROVE  \/ \E u \in HandOf(lib, names) : NameOf(u[1]) = n
                    \/ \E u \in DeduplicatedOf(lib) :
                         NameOf(u[1]) = n /\ (u[1].sep = "_" \/ u[1].kinds > 1)
  OBVIOUS
<1>1. PICK u \in DeduplicatedOf(lib) : NameOf(u[1]) = n
  BY DEF NamesOf
<1>2. u[1] \in Detector
  <2>1. PICK kind \in Kinds : u \in Revisions[lib[kind]][kind] \X {kind}
    BY DEF DeduplicatedOf
  <2>2. Revisions[lib[kind]] \in [Kinds -> SUBSET Detector]
    BY RevisionsAssumption
  <2> QED BY <2>1, <2>2
<1>3. CASE u[1].sep = "-" /\ u[1].kinds = 1
  <2>1. n = <<u[1].word, "-">>
    BY <1>1, <1>3 DEF NameOf
  <2>2. u \in HandOf(lib, names)
    BY <1>3, <2>1 DEF HandOf, HasPath
  <2> QED BY <1>1, <2>2
<1>4. CASE u[1].sep = "_"
  BY <1>1, <1>4
<1>5. CASE u[1].kinds = 2
  <2>1. u[1].kinds > 1
    BY <1>5
  <2> QED BY <1>1, <2>1
<1>6. u[1].sep \in {"-", "_"} /\ u[1].kinds \in {1, 2}
  BY <1>2 DEF Detector
<1> QED BY <1>3, <1>4, <1>5, <1>6

LEMMA HandsNothingElse ==
  ASSUME NEW lib \in [Kinds -> DOMAIN Revisions], NEW names, NEW u \in HandOf(lib, names)
  PROVE  /\ \/ NameOf(u[1]) \in names
            \/ u[1].sep = "_" /\ <<u[1].word, "-">> \in names
         /\ u[2] = "rust" => \A d \in Revisions[lib[Chain]][Chain] : NameOf(d) # NameOf(u[1])
<1>1. u \in DeduplicatedOf(lib) /\ <<u[1].word, "-">> \in names
  BY DEF HandOf
<1>2. u[1].sep = "-" \/ u[1].sep = "_"
  <2>1. PICK kind \in Kinds : u \in Revisions[lib[kind]][kind] \X {kind}
    BY <1>1 DEF DeduplicatedOf
  <2>2. Revisions[lib[kind]] \in [Kinds -> SUBSET Detector]
    BY RevisionsAssumption
  <2>3. u[1] \in Detector
    BY <2>1, <2>2
  <2> QED BY <2>3 DEF Detector
<1>3. u[2] = "rust" => \A d \in Revisions[lib[Chain]][Chain] : NameOf(d) # NameOf(u[1])
  BY <1>1 DEF DeduplicatedOf
<1> QED BY <1>1, <1>2, <1>3 DEF NameOf

\* What a run hands over is what was selected, and its programs fit them, whatever the other
\* runs build, and however often somebody pushes.
THEOREM RunsArePrepared == PreparationSpec => []PreparedAsSelected
<1>1. PreparationInit => Preparations
  <2> SUFFICES ASSUME PreparationInit PROVE Preparations
    OBVIOUS
  <2>1. /\ phase = [r \in Runs |-> "identity"] /\ head = 1
        /\ libraries = [r \in Runs |-> [k \in Kinds |-> 0]]
        /\ selected = [r \in Runs |-> {}] /\ handed = [r \in Runs |-> {}]
        /\ directory = [r \in Runs |-> Local]
        /\ built = [d \in Directories |-> [p \in Programs |-> Missing]]
        /\ programs = [r \in Runs |-> [p \in Programs |-> Missing]]
    BY DEF PreparationInit, BuildsInit
  <2>2. PICK s \in Starts : options = s[4]
    BY DEF PreparationInit
  <2>3. options \in [Runs -> [local : BOOLEAN, toolchain : Toolchains]]
    BY <2>2, StartsAssumption
  <2>4. head \in DOMAIN Revisions /\ Missing \in Program /\ Local \in Directories
    BY <2>1, RevisionsAssumption DEF Missing, Program, Directories
  <2>5. BuildType
    BY <2>1, <2>3, <2>4 DEF BuildType, Phases
  <2>6. WellBuilt
    BY <2>1 DEF WellBuilt
  <2>7. ASSUME NEW r \in Runs PROVE InOrder(r)
    <3>1. "identity" \notin {"names_chain", "select"} \cup Selected \cup HandedOver \cup Working \cup Helped
      BY DEF Selected, HandedOver, Helped, Working
    <3>2. Reading(r)
      BY <2>1, <3>1 DEF Reading, Kinds
    <3>3. Choosing(r) /\ Placed(r) /\ Ran(r)
      BY <2>1, <3>1 DEF Choosing, Placed, Ran
    <3> QED BY <3>2, <3>3 DEF InOrder
  <2> QED BY <2>5, <2>6, <2>7 DEF Preparations
<1>2. Preparations => PreparedAsSelected
  <2> SUFFICES ASSUME Preparations, NEW r \in Runs, phase[r] = "ready"
               PROVE  LibrariesAsSelected(r) /\ ProgramsFit(r)
    BY DEF PreparedAsSelected, StandsAt
  <2>1. "ready" \in Selected /\ "ready" \in HandedOver /\ "ready" \in Helped
    BY DEF Selected, HandedOver, Helped
  <2>2. ProgramsFit(r)
    <3>1. Fits(r, "helper") /\ Fits(r, "driver")
      BY <2>1 DEF Preparations, InOrder, Ran
    <3> QED BY <3>1 DEF ProgramsFit, Fits, Programs
  <2>3. ASSUME r \notin moved PROVE LibrariesAsSelected(r)
    <3>1. libraries[r] \in [Kinds -> DOMAIN Revisions]
      <4>1. libraries[r]["rust"] # 0 /\ libraries[r][Chain] # 0
        BY <2>1 DEF Preparations, InOrder, Reading
      <4>2. libraries[r] \in [Kinds -> {0} \cup DOMAIN Revisions]
        BY DEF Preparations, BuildType
      <4>3. \A k \in Kinds : libraries[r][k] \in DOMAIN Revisions
        BY <4>1, <4>2 DEF Kinds
      <4> QED BY <4>2, <4>3
    <3>2. /\ selected[r] \subseteq NamesOf(libraries[r])
          /\ handed[r] = HandOf(libraries[r], selected[r])
          /\ Deduplicated(r) = DeduplicatedOf(libraries[r])
      BY <2>1, <2>3, DeduplicatedIs DEF Preparations, InOrder, Choosing
    <3>3. \A n \in selected[r] : \/ \E u \in handed[r] : NameOf(u[1]) = n
                                 \/ \E u \in Deduplicated(r) :
                                      /\ NameOf(u[1]) = n
                                      /\ (u[1].sep = "_" \/ u[1].kinds > 1)
      <4> DEFINE lib == libraries[r]
                 names == selected[r]
      <4>1. lib \in [Kinds -> DOMAIN Revisions] /\ names \subseteq NamesOf(lib)
        BY <3>1, <3>2
      <4>2. handed[r] = HandOf(lib, names) /\ Deduplicated(r) = DeduplicatedOf(lib)
        BY <3>2
      <4> HIDE DEF lib
      <4>3. \A n \in names : \/ \E u \in HandOf(lib, names) : NameOf(u[1]) = n
                             \/ \E u \in DeduplicatedOf(lib) :
                                  NameOf(u[1]) = n /\ (u[1].sep = "_" \/ u[1].kinds > 1)
        BY <4>1, HandsSelected
      <4> QED BY <4>2, <4>3
    <3>4. \A u \in handed[r] :
            /\ \/ NameOf(u[1]) \in selected[r]
               \/ u[1].sep = "_" /\ <<u[1].word, "-">> \in selected[r]
            /\ u[2] = "rust" => \A d \in InLibrary(r, Chain) : NameOf(d) # NameOf(u[1])
      <4>1. SUFFICES ASSUME NEW u \in HandOf(libraries[r], selected[r])
                     PROVE  /\ \/ NameOf(u[1]) \in selected[r]
                               \/ u[1].sep = "_" /\ <<u[1].word, "-">> \in selected[r]
                            /\ u[2] = "rust" => \A d \in InLibrary(r, Chain) : NameOf(d) # NameOf(u[1])
        BY <3>2
      <4> QED BY <3>1, HandsNothingElse DEF InLibrary
    <3> QED BY <3>3, <3>4 DEF LibrariesAsSelected
  <2>4. r \in moved => LibrariesAsSelected(r)
    BY DEF LibrariesAsSelected
  <2> QED BY <2>2, <2>3, <2>4
<1> QED BY <1>1, <1>2, PreparationsNext, PTL DEF PreparationSpec
=============================================================================
