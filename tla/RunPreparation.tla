---------------------------- MODULE RunPreparation ----------------------------
(* What several scout processes of one user do before they analyse anything   *)
(* (prepare_scout_input): they share the user's files, and the directories    *)
(* where programs are built.                                                  *)
EXTENDS DetectorBuilds

CONSTANTS Starts        \* what there is at the beginning, and may happen meanwhile:
                        \* <<allowed, user_id, version, options>>

ASSUME StartsAssumption ==
  \A s \in Starts : /\ s[2] \in {"absent", "blank", "old", DoNotTrack}
                    /\ s[3] \in {NoVersion, [of |-> 1, at |-> 0, told |-> 0]}
                    /\ s[4] \in [Runs -> [local : BOOLEAN, toolchain : Toolchains]]

preparation == <<phase, userfiles, builds>>

KillRun(r) ==
  /\ May("kill") /\ phase[r] \notin Prepared /\ ~StandsAt(r, "identity")
  /\ MoveOn(r, "killed")
  /\ UNCHANGED <<userfiles, builds>>

PreparationInit ==
  /\ \E s \in Starts : allowed = s[1] /\ user_id = s[2] /\ version = s[3] /\ options = s[4]
  /\ phase = [r \in Runs |-> "identity"]
  /\ UserFilesInit /\ BuildsInit

PreparationNext ==
  \/ \E r \in Runs : \/ UserFilesStep(r) /\ UNCHANGED builds
                     \/ BuildsStep(r)
                     \/ KillRun(r)
  \/ UserFilesElse /\ UNCHANGED builds
  \/ Push

PreparationSpec == PreparationInit /\ [][PreparationNext]_preparation
=============================================================================
