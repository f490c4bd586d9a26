----------------------------- MODULE Subprocess -----------------------------
(* Calls to the programs built for the nightly toolchain (the detector       *)
(* helper and the scout driver) through two temporary files                  *)
(* (interop/subprocess.rs), by scout processes that share the directory for  *)
(* temporary files.                                                          *)
EXTENDS Integers, FiniteSets

CONSTANTS Callers,      \* the scout processes
          Inputs, Answer,
          Paths,        \* the names a temporary file can get
          NoPath,
          MaxCalls      \* bound: calls made by all the processes together

ASSUME MaxCallsAssumption == MaxCalls \in Nat
ASSUME PathsAssumption == NoPath \notin Paths

VARIABLES pc,           \* function: caller -> where its call is
          asked, reply, \* as in RemoteCall
          input,        \* function: caller -> path of the input file
          output,       \* function: caller -> path of the output file
          answer,       \* function: caller -> what it has read
          child,        \* function: caller -> its subprocess
          files,        \* function: path -> contents
          calls, failures,
          kept          \* how often a file that was to be removed could not be

caller == <<asked, reply>>
vars == <<pc, caller, input, output, answer, child, files, calls, failures, kept>>

Promise == INSTANCE RemoteCall

(* A file is absent or holds nothing, part of some data, or all of it.       *)
Absent == [kind |-> "absent", data |-> "none"]
Empty == [kind |-> "empty", data |-> "none"]
Part(data) == [kind |-> "part", data |-> data]
Whole(data) == [kind |-> "whole", data |-> data]

\* A subprocess: where it is, the input it has read, and its exit code.
NoChild == [at |-> "none", input |-> "none", code |-> 0]
Signalled == -1

-----------------------------------------------------------------------------
At(c, step) == pc[c] = step

Proceed(c, step) == pc' = [pc EXCEPT ![c] = step] /\ UNCHANGED <<caller, failures>>

Fail(c) == /\ pc' = [pc EXCEPT ![c] = "idle"]
           /\ reply' = [reply EXCEPT ![c] = Promise!Error]
           /\ failures' = failures + 1
           /\ UNCHANGED asked

Put(path, contents) == files' = [files EXCEPT ![path] = contents]

Call(c, i) ==
  /\ At(c, "idle") /\ calls < MaxCalls
  /\ calls' = calls + 1
  /\ pc' = [pc EXCEPT ![c] = "input"]
  /\ asked' = [asked EXCEPT ![c] = i]
  /\ reply' = [reply EXCEPT ![c] = Promise!Pending]
  /\ child' = [child EXCEPT ![c] = NoChild]
  /\ UNCHANGED <<input, output, answer, files, failures, kept>>

AnyTemp(path) == TRUE

\* temp_path: a file that did not exist, and that stays when it is closed.
NewTemp(path) == files[path] = Absent

\* One write, which may write less than it was given; what is there stays when
\* the write fails.
MakeInput(c) ==
  /\ At(c, "input")
  /\ \/ \E path \in Paths :
          /\ NewTemp(path)
          /\ input' = [input EXCEPT ![c] = path]
          /\ \/ /\ \/ Put(path, Whole(asked[c]))
                   \/ Put(path, Part(asked[c]))
                /\ Proceed(c, "output")
             \/ Put(path, Empty) /\ Fail(c)
     \/ Fail(c) /\ UNCHANGED <<input, files>>
  /\ UNCHANGED <<output, answer, child, calls, kept>>

MakeOutput(c) ==
  /\ At(c, "output")
  /\ \/ \E path \in Paths :
          /\ NewTemp(path)
          /\ output' = [output EXCEPT ![c] = path]
          /\ Put(path, Empty)
          /\ Proceed(c, "spawn")
     \/ Fail(c) /\ UNCHANGED <<output, files>>
  /\ UNCHANGED <<input, answer, child, calls, kept>>

\* The environment cannot be set up, the program is not there, or it starts.
Spawn(c) ==
  /\ At(c, "spawn")
  /\ \/ /\ child' = [child EXCEPT ![c].at = "start"]
        /\ Proceed(c, "wait")
     \/ Fail(c) /\ UNCHANGED child
  /\ UNCHANGED <<input, output, answer, files, calls, kept>>

WaitForSuccess(c) == child[c].at = "exited" /\ child[c].code = 0

Exited(c) == child[c].at = "exited"

Wait(c) ==
  /\ At(c, "wait") /\ Exited(c)
  /\ IF child[c].code = 0 THEN Proceed(c, "clean") ELSE Fail(c)
  /\ UNCHANGED <<input, output, answer, child, files, calls, kept>>

Leave(path) == UNCHANGED <<files, kept>>

Remove(path) == Put(path, Absent) /\ UNCHANGED kept

\* remove_file may fail, and its error is ignored: the file stays.
TryRemove(path) == Remove(path) \/ (kept' = kept + 1 /\ UNCHANGED files)

RemoveInput(c) ==
  /\ At(c, "clean")
  /\ TryRemove(input[c])
  /\ Proceed(c, "read")
  /\ UNCHANGED <<input, output, answer, child, calls>>

\* Only data that is whole parses.
ReadOutput(c) ==
  /\ At(c, "read")
  /\ \/ /\ files[output[c]].kind = "whole"
        /\ answer' = [answer EXCEPT ![c] = files[output[c]].data]
        /\ Proceed(c, "return")
     \/ /\ files[output[c]].kind # "whole"
        /\ Fail(c) /\ UNCHANGED answer
  /\ UNCHANGED <<input, output, child, files, calls, kept>>

Return(c) ==
  /\ At(c, "return")
  /\ TryRemove(output[c])
  /\ pc' = [pc EXCEPT ![c] = "idle"]
  /\ reply' = [reply EXCEPT ![c] = Promise!Ok(answer[c])]
  /\ UNCHANGED <<asked, input, output, answer, child, calls, failures>>

\* The process is killed; its subprocess goes on.
Kill(c) ==
  /\ pc[c] \notin {"idle", "dead"}
  /\ pc' = [pc EXCEPT ![c] = "dead"]
  /\ reply' = [reply EXCEPT ![c] = Promise!Error]
  /\ failures' = failures + 1
  /\ UNCHANGED <<asked, input, output, answer, child, files, calls, kept>>

-----------------------------------------------------------------------------
(* subprocess_wrapper, in the subprocess of c                                *)

Exit(c, code) == child' = [child EXCEPT ![c] = [@ EXCEPT !.at = "exited", !.code = code]]

ChildRead(c) ==
  /\ child[c].at = "start"
  /\ IF files[input[c]].kind = "whole"
     THEN child' = [child EXCEPT ![c] = [@ EXCEPT !.at = "run", !.input = files[input[c]].data]]
     ELSE Exit(c, 1)
  /\ UNCHANGED <<pc, caller, input, output, answer, files, calls, failures, kept>>

\* The work itself, which may panic; then the output file is emptied.
ChildRun(c) ==
  /\ child[c].at = "run"
  /\ \/ /\ child' = [child EXCEPT ![c].at = "write"]
        /\ Put(output[c], Empty)
     \/ Exit(c, 1) /\ UNCHANGED files
     \/ Exit(c, 101) /\ UNCHANGED files
  /\ UNCHANGED <<pc, caller, input, output, answer, calls, failures, kept>>

ChildWrite(c) ==
  /\ child[c].at = "write"
  /\ LET data == Answer[child[c].input]
     IN  \/ (Put(output[c], Whole(data)) \/ Put(output[c], Part(data))) /\ Exit(c, 0)
         \/ Exit(c, 1) /\ UNCHANGED files
  /\ UNCHANGED <<pc, caller, input, output, answer, calls, failures, kept>>

\* The subprocess is killed by a signal: it has no exit code.
ChildKilled(c) ==
  /\ child[c].at \in {"start", "run", "write"}
  /\ Exit(c, Signalled)
  /\ UNCHANGED <<pc, caller, input, output, answer, files, calls, failures, kept>>

Init == /\ pc = [c \in Callers |-> "idle"]
        /\ asked \in [Callers -> Inputs]
        /\ reply = [c \in Callers |-> Promise!Quiet]
        /\ input = [c \in Callers |-> NoPath]
        /\ output = [c \in Callers |-> NoPath]
        /\ answer = [c \in Callers |-> "none"]
        /\ child = [c \in Callers |-> NoChild]
        /\ files = [path \in Paths |-> Absent]
        /\ calls = 0 /\ failures = 0 /\ kept = 0

CallerStep(c) == \/ MakeInput(c) \/ MakeOutput(c) \/ Spawn(c) \/ Wait(c)
                 \/ RemoveInput(c) \/ ReadOutput(c) \/ Return(c)

ChildStep(c) == ChildRead(c) \/ ChildRun(c) \/ ChildWrite(c)

Next == \E c \in Callers :
          (\E i \in Inputs : Call(c, i)) \/ CallerStep(c) \/ Kill(c) \/ ChildStep(c) \/ ChildKilled(c)

Spec == /\ Init /\ [][Next]_vars
        /\ \A c \in Callers : WF_vars(CallerStep(c)) /\ WF_vars(ChildStep(c))

-----------------------------------------------------------------------------
CallerSteps == {"idle", "input", "output", "spawn", "wait", "clean", "read", "return", "dead"}

Data == Inputs \cup {Answer[i] : i \in Inputs} \cup {"none"}

Replies == [kind : {"none", "pending", "error", "ok"}, data : Data]

Children == [at : {"none", "start", "run", "write", "exited"},
             input : Inputs \cup {"none"}, code : {0, 1, 101, Signalled}]

Contents == [kind : {"absent", "empty", "part", "whole"}, data : Data]

\* The state of every call, of its subprocess and of every file keeps its type.
TypeOK == /\ pc \in [Callers -> CallerSteps]
          /\ asked \in [Callers -> Inputs]
          /\ reply \in [Callers -> Replies]
          /\ input \in [Callers -> Paths \cup {NoPath}]
          /\ output \in [Callers -> Paths \cup {NoPath}]
          /\ answer \in [Callers -> Data]
          /\ child \in [Callers -> Children]
          /\ files \in [Paths -> Contents]
          /\ calls \in Nat /\ failures \in Nat /\ kept \in Nat

\* The files that caller c, or a subprocess that outlived it, still uses.
UsesInput(c) == \/ pc[c] \in {"output", "spawn", "wait", "clean"}
                \/ child[c].at = "start"
UsesOutput(c) == \/ pc[c] \in {"spawn", "wait", "clean", "read", "return"}
                 \/ child[c].at \in {"start", "run", "write"}

\* Two calls at once never share a temporary file, and no file is taken away
\* from a call that still uses it: also when the caller has been killed and its
\* subprocess goes on.
PathsApart ==
  /\ \A c \in Callers :
       /\ UsesInput(c) => files[input[c]] # Absent
       /\ UsesOutput(c) => files[output[c]] # Absent
       /\ UsesInput(c) /\ UsesOutput(c) => input[c] # output[c]
  /\ \A c, d \in Callers :
       c # d => /\ UsesInput(c) /\ UsesInput(d) => input[c] # input[d]
                /\ UsesInput(c) /\ UsesOutput(d) => input[c] # output[d]
                /\ UsesOutput(c) /\ UsesOutput(d) => output[c] # output[d]

\* Each call is answered for its own input, or with an error: a short write, a
\* panic, a signal or another scout process cannot make it another answer.
CallsAnswered == Promise!Spec

\* A call that succeeds leaves nothing behind but what could not be removed, and
\* one that fails leaves two files at most besides.
LeakBound ==
  LET used == {input[c] : c \in {c \in Callers : UsesInput(c)}}
              \cup {output[c] : c \in {c \in Callers : UsesOutput(c)}}
      left == {path \in Paths : files[path] # Absent} \ used
  IN  Cardinality(left) <= 2 * failures + kept

\* Every call of a process that is not killed comes back, when the subprocess
\* exits: whatever its exit code, and also when it was killed.
CallsReturn == \A c \in Callers : reply[c] = Promise!Pending ~> reply[c] # Promise!Pending
=============================================================================
