---------------------------- MODULE DetectorBuilds ----------------------------
(* Which detector libraries a run builds and hands to the driver (builder.rs, *)
(* library.rs), and the two programs that it builds for itself                *)
(* (build_and_run.rs), out of a branch that moves or a local directory that   *)
(* is edited.                                                                 *)
EXTENDS UserFiles, Sequences

CONSTANTS Chain,        \* the blockchain, which has detectors of its own
          Toolchains,
          Revisions,    \* what the branch holds, one commit after the other
          Exclusions    \* sets of names that a run may leave out

Kinds == {"rust", Chain}

(* A detector has a name (its word, and how its parts are separated) and the  *)
(* number of kinds that its crate type names.                                 *)
Detector == [word : STRING, sep : {"-", "_"}, kinds : {1, 2}]

ASSUME RevisionsAssumption == Revisions \in Seq([Kinds -> SUBSET Detector]) /\ Revisions # <<>>

VARIABLES head,         \* the last revision, of the branch and of the local directory
          moved,        \* the runs during which it changed
          options,      \* function: run -> whether it is local, and its toolchain
          libraries,    \* function: run -> the revision of the libraries read, by kind
          selected,     \* function: run -> the detectors to run
          handed,       \* function: run -> the libraries for the driver
          directory,    \* function: run -> where it builds its programs
          built,        \* function: directory -> the programs in it
          programs      \* function: run -> the programs that it ran

choice == <<libraries, selected, handed>>
builds == <<head, moved, options, choice, directory, built, programs>>

Programs == {"helper", "driver"}

Missing == [of |-> 0, toolchain |-> "none"]

\* The local directory, or the one for a commit.
Local == 0

Directories == {Local} \cup DOMAIN Revisions

NameOf(d) == <<d.word, d.sep>>

-----------------------------------------------------------------------------
\* download_git_repo brings the branch up to date each time, under cargo's lock.
ReadLibrary(r, step, kind, next) ==
  /\ StandsAt(r, step)
  /\ libraries' = [libraries EXCEPT ![r][kind] = head]
  /\ MoveOn(r, next)
  /\ UNCHANGED <<userfiles, head, moved, options, selected, handed, directory, built, programs>>

ReadLibraries(r) == \/ ReadLibrary(r, "names", "rust", "names_chain")
                    \/ ReadLibrary(r, "names_chain", Chain, "select")
                    \/ ReadLibrary(r, "build", "rust", "build_chain")
                    \/ ReadLibrary(r, "build_chain", Chain, "hand")

InLibrary(r, kind) == Revisions[libraries[r][kind]][kind]

\* As if the first detector of a name were kept.
FirstOfName(r) ==
  {u \in UNION {InLibrary(r, kind) \X {kind} : kind \in Kinds} :
     u[2] = Chain => \A d \in InLibrary(r, "rust") : NameOf(d) # NameOf(u[1])}

\* deduplicate_libraries: the blockchain's detectors replace others of their name.
Deduplicated(r) ==
  {u \in UNION {InLibrary(r, kind) \X {kind} : kind \in Kinds} :
     u[2] = "rust" => \A d \in InLibrary(r, Chain) : NameOf(d) # NameOf(u[1])}

\* The configuration file and the command line choose among the names.
SelectNames(r) ==
  /\ StandsAt(r, "select")
  /\ \E excluded \in Exclusions :
       selected' = [selected EXCEPT ![r] = {NameOf(u[1]) : u \in Deduplicated(r)} \ excluded]
  /\ MoveOn(r, "build")
  /\ UNCHANGED <<userfiles, head, moved, options, libraries, handed, directory, built, programs>>

\* path: a package of several kinds has no path.
HasPath(d) == d.kinds = 1

\* A file's name has underscores, and is compared with dashes in their place.
Matches(r, d) == <<d.word, "-">> \in selected[r]

\* All of each workspace is built; what is missing then is an error.
HandLibraries(r) ==
  /\ StandsAt(r, "hand")
  /\ \/ /\ handed' = [handed EXCEPT ![r] =
                        {u \in Deduplicated(r) : HasPath(u[1]) /\ Matches(r, u[1])}]
        /\ MoveOn(r, "helper")
     \/ May("build_fails") /\ MoveOn(r, "failed") /\ UNCHANGED handed
  /\ UNCHANGED <<userfiles, head, moved, options, libraries, selected, directory, built, programs>>

-----------------------------------------------------------------------------
(* The two programs.                                                         *)

\* As if every commit were checked out in one place.
OnePlace(r) == IF options[r].local THEN Local ELSE 1

\* The directory of a branch is that of the commit it is at.
Checkout(r) == IF options[r].local THEN Local ELSE head

Building(program) == IF program = "helper" THEN "build_helper" ELSE "build_driver"

Running(program) == IF program = "helper" THEN "run_helper" ELSE "run_driver"

\* second_phase: a program that is there is taken.
LookFor(r, program) ==
  /\ StandsAt(r, program)
  /\ directory' = [directory EXCEPT ![r] = Checkout(r)]
  /\ MoveOn(r, IF built[directory'[r]][program] = Missing THEN Building(program)
                ELSE Running(program))
  /\ UNCHANGED <<userfiles, head, moved, options, choice, built, programs>>

\* cargo builds both, from what the directory holds: that of a commit never changes.
Result(r) == [of |-> IF options[r].local THEN head ELSE directory[r],
              toolchain |-> options[r].toolchain]

BuildPrograms(r, program) ==
  /\ StandsAt(r, Building(program))
  /\ \/ /\ built' = [built EXCEPT ![directory[r]] = [p \in Programs |-> Result(r)]]
        /\ MoveOn(r, Running(program))
     \/ /\ May("build_fails")
        /\ \E some \in SUBSET Programs :
             some # Programs /\ built' = [built EXCEPT ![directory[r]] =
                [p \in Programs |-> IF p \in some THEN Result(r) ELSE built[directory[r]][p]]]
        /\ MoveOn(r, "failed")
  /\ UNCHANGED <<userfiles, head, moved, options, choice, directory, programs>>

RunProgram(r, program) ==
  /\ StandsAt(r, Running(program))
  /\ programs' = [programs EXCEPT ![r][program] = built[directory[r]][program]]
  /\ MoveOn(r, IF program = "helper" THEN "driver" ELSE "ready")
  /\ UNCHANGED <<userfiles, head, moved, options, choice, directory, built>>

-----------------------------------------------------------------------------
Prepared == {"failed", "ready", "killed"}

\* Somebody pushes to the branch, and edits the directory.
Push ==
  /\ May("push") /\ head < Len(Revisions)
  /\ head' = head + 1
  /\ moved' = moved \cup {r \in Runs : ~(phase[r] \in Prepared) /\ libraries[r]["rust"] # 0}
  /\ UNCHANGED <<userfiles, phase, options, choice, directory, built, programs>>

BuildsInit ==
  /\ head = 1 /\ moved = {}
  /\ libraries = [r \in Runs |-> [k \in Kinds |-> 0]]
  /\ selected = [r \in Runs |-> {}] /\ handed = [r \in Runs |-> {}]
  /\ directory = [r \in Runs |-> Local]
  /\ built = [d \in Directories |-> [p \in Programs |-> Missing]]
  /\ programs = [r \in Runs |-> [p \in Programs |-> Missing]]

BuildsStep(r) ==
  \/ ReadLibraries(r) \/ SelectNames(r) \/ HandLibraries(r)
  \/ \E p \in Programs : LookFor(r, p) \/ BuildPrograms(r, p) \/ RunProgram(r, p)

-----------------------------------------------------------------------------
OtherToolchain(r) == \E q \in Runs : options[q].toolchain # options[r].toolchain

\* A run hands every detector that was selected to the driver, and no other one, in the
\* version for the blockchain if there is one; unless its name has an underscore (then
\* the one with dashes decides), its crate several types, or the branch moved between
\* reading the names and building.
LibrariesAsSelected(r) ==
  \/ r \in moved
  \/ /\ \A n \in selected[r] : \/ \E u \in handed[r] : NameOf(u[1]) = n
                               \/ \E u \in Deduplicated(r) : /\ NameOf(u[1]) = n
                                                             /\ (u[1].sep = "_" \/ u[1].kinds > 1)
     /\ \A u \in handed[r] :
          /\ \/ NameOf(u[1]) \in selected[r]
             \/ u[1].sep = "_" /\ <<u[1].word, "-">> \in selected[r]
          /\ u[2] = "rust" => \A d \in InLibrary(r, Chain) : NameOf(d) # NameOf(u[1])

\* The programs it runs were built with its toolchain, unless another run has another
\* one, and, for a branch that did not move, out of the revision of its detectors.
ProgramsFit(r) ==
  \A p \in Programs :
    /\ programs[r][p].toolchain # options[r].toolchain => OtherToolchain(r)
    /\ r \notin moved /\ ~options[r].local => programs[r][p].of = libraries[r]["rust"]

PreparedAsSelected ==
  \A r \in Runs : StandsAt(r, "ready") => LibrariesAsSelected(r) /\ ProgramsFit(r)
=============================================================================
