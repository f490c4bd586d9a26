----------------------------- MODULE MCScoutRun -----------------------------
(* Instances of ScoutRun: a project of two packages, `token` and `my-vault`, *)
(* which depends on a library outside the default members, and a workspace   *)
(* whose detectors are one ordinary detector, another, and the one that      *)
(* reports unnecessary allows.                                               *)
EXTENDS ScoutRun

Token == [word |-> "token", sep |-> ""]
Vault == [word |-> "vault", sep |-> "-"]

MCPackages == {[id |-> "a", name |-> Token], [id |-> "b", name |-> Vault]}

MCDependantsOf == [id \in {"lib"} |-> {"b"}]

Detectors == {"d1", "d2", AllowLint}

Request(mode, cicd, vscode, filter, exclude, formats, path, config) ==
  [mode |-> mode, cicd |-> cicd, vscode |-> vscode, all |-> Detectors, filter |-> filter,
   exclude |-> exclude, formats |-> formats, path |-> path, config |-> config]

Message(id, target, error, code, span, allows) ==
  [reason |-> "compiler-message", id |-> id, target |-> target, error |-> error,
   code |-> code, file |-> "lib.rs", span |-> span, allows |-> allows]

ErrorIn(id, target) == Message(id, target, TRUE, NoCode, <<1, 1>>, "unreadable")

WarningIn(id, target) == Message(id, target, FALSE, NoCode, NoSpan, "unreadable")

FindingIn(id, target, code, span) == Message(id, target, FALSE, code, span, "unreadable")

Allow(id, target, lint, span) == Message(id, target, FALSE, AllowLint, span, lint)

VaultLib == Underscored(Vault)

-----------------------------------------------------------------------------
(* Control: every kind of command line, few messages.                        *)
ControlRequests ==
  {Request(mode, cicd, vscode, chosen[1], chosen[2], formats, path, config) :
     mode \in {"audit", "src_hash", "toolchain", "list", "metadata"},
     cicd \in {Unset, "dir", "nodir"}, vscode \in BOOLEAN,
     chosen \in {<<Unset, Unset>>, <<{"d1"}, Unset>>, <<{"d9"}, Unset>>, <<Unset, {"d1"}>>},
     formats \in {<<>>, <<"sarif", "json">>}, path \in {Unset, "out"},
     config \in {Unset, [exclude |-> {"d2"}, formats |-> <<"pdf", "raw-json">>],
                 [exclude |-> {"d9"}, formats |-> <<>>]}}

ControlAlphabet == {FindingIn("a", Token, "d1", <<3, 3>>), FindingIn("a", Token, "d2", NoSpan),
                    ErrorIn("lib", [word |-> "lib", sep |-> ""])}

ControlFaults == {"validate", "metadata", "config", "build", "dylint", "graph", "parse",
                  "output", "report", "short", "remove", "kill"}

-----------------------------------------------------------------------------
(* Messages: the plain command line, every order of several messages.        *)
Plain(vscode, exclude) ==
  Request("audit", "dir", vscode, Unset, exclude, <<"json">>, "out", Unset)

MessagesRequests == {Plain(FALSE, Unset), Plain(TRUE, Unset), Plain(FALSE, {AllowLint})}

MessagesAlphabet ==
  {ErrorIn("a", Token), WarningIn("a", Token), FindingIn("a", Token, "d1", <<3, 4>>),
   Allow("a", Token, "d1", <<4, 9>>), Allow("a", Token, "d2", <<4, 9>>),
   ErrorIn("b", VaultLib), FindingIn("b", VaultLib, "d1", <<4, 6>>),
   WarningIn("lib", [word |-> "lib", sep |-> ""]),
   FindingIn("a", [word |-> "", sep |-> ""], "d1", <<4, 4>>),
   ErrorIn("lib", [word |-> "lib", sep |-> ""]),
   [WarningIn("b", VaultLib) EXCEPT !.reason = "compiler-artifact"]}

-----------------------------------------------------------------------------
(* Both: only with the plain command line are there several messages.        *)
MCRequests == ControlRequests \cup MessagesRequests

MCAlphabet == ControlAlphabet \cup MessagesAlphabet

FewMessages == Len(messages) > 1 => opts \in MessagesRequests

(* The plain command line, for what the documentation says.                  *)
DocRequests == {Plain(FALSE, Unset)}

=============================================================================
