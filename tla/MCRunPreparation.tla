-------------------------- MODULE MCRunPreparation --------------------------
(* Two runs: of a user with nothing settled, and only some of what may        *)
(* happen at a time, or of one who asks the network for little, with all      *)
(* kinds of options.                                                          *)
EXTENDS RunPreparation

D(word, sep, kinds) == [word |-> word, sep |-> sep, kinds |-> kinds]

MCRevisions ==
  <<[rust |-> {D("a", "-", 1), D("b", "-", 1), D("c", "-", 1)},
     soroban |-> {D("a", "-", 1), D("c", "_", 1)}],
    [rust |-> {D("a", "-", 1)}, soroban |-> {D("b", "-", 1), D("c", "-", 2)}]>>

MCExclusions == {{}, {<<"a", "-">>, <<"c", "_">>}}

Recently == [of |-> 1, at |-> 0, told |-> 0]

Alike == {[r \in Runs |-> [local |-> FALSE, toolchain |-> "t1"]]}

MCStarts ==
  {{"opt_out", "disk"}, {"opt_out", "kill"}} \X {"absent", "blank", "old"} \X {Recently} \X Alike
  \cup {{"time", "clock", "release"}} \X {DoNotTrack} \X {NoVersion} \X Alike
  \cup {{"time", "release", "disk", "offline"}} \X {DoNotTrack} \X {Recently} \X Alike
  \cup {{"push"}, {"build_fails", "kill"}} \X {DoNotTrack} \X {Recently}
         \X [Runs -> [local : BOOLEAN, toolchain : Toolchains]]
=============================================================================
