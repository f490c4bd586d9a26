------------------------ MODULE MCAccessControlLint ------------------------
(* Crates of three functions: an entry point, a second function that may be  *)
(* one, and a helper, with every way for them to call one another.           *)
EXTENDS AccessControlLint

CONSTANTS entry, second, helper

Edges == {<<entry, second>>, <<entry, helper>>, <<second, helper>>,
          <<second, entry>>, <<helper, second>>}

Function(f, calls, does, generated, expanded, signature) ==
  [expanded |-> expanded, generated |-> generated,
   calls |-> {g \in {entry, second, helper} : <<f, g>> \in calls},
   does |-> does, signature |-> signature]

Bodies == {{}, {"op"}, {"require_auth"}}

Program(calls, here, there, second_is, helped, expanded, signature) ==
  [f \in {entry, second, helper} |->
     CASE f = entry -> Function(f, calls, here, Generated, FALSE, signature)
       [] f = second -> Function(f, calls, there, second_is, FALSE, signature)
       [] f = helper -> Function(f, calls, helped, {}, expanded, {})]

\* For the detectors that search from callers as well.
OpenPrograms ==
  {Program(calls, here, there, Generated, {"require_auth"}, FALSE, {}) :
     calls \in SUBSET Edges, here \in Bodies, there \in {{}, {"op"}}}
  \cup
  {Program(calls, {}, there, {"spec"}, helped, expanded, {}) :
     calls \in SUBSET Edges, there \in {{}, {"op"}, {"op", "enforcer"}},
     helped \in {{"op"}, {"require_auth_for_args"}}, expanded \in BOOLEAN}

\* The second function authorizes what no other detector takes for that.
DosPrograms ==
  {Program(calls, {}, there, {"spec"}, {"op"}, FALSE, {}) :
     calls \in SUBSET Edges, there \in {{"enforcer"}, {"require_auth"}, {"op", "enforcer"}}}

\* One address too few, the same one twice, an enforcer, and a helper that authorizes.
MismatchPrograms ==
  {Program(calls, here, there, {"spec"}, helped, expanded, {}) :
     calls \in SUBSET Edges,
     here \in {{"auth_a", "write_b"}, {"auth_a", "auth_a_again", "write_b"},
               {"auth_a", "write_a", "write_b"}, {"auth_a", "write_b", "enforcer"}},
     there \in {{}, {"auth_b", "write_a"}}, helped \in {{}, {"auth_a"}}, expanded \in BOOLEAN}

InitPrograms ==
  {Program(calls, here, {"write_admin"}, second_is, helped, FALSE, signature) :
     calls \in SUBSET Edges, here \in {{"write_admin"}, {"write_admin", "has"}},
     second_is \in {{"spec"}, Generated}, helped \in {{}, {"is_initialized"}},
     signature \in {{}, {"init"}}}

AdminPrograms ==
  {Program(calls, here, {"forward"}, {"spec"}, helped, expanded, signature) :
     calls \in SUBSET Edges, here \in {{"forward"}, {"require_auth"}, {"forward", "require_auth"}},
     helped \in {{}, {"require_auth"}}, expanded \in BOOLEAN,
     signature \in {{"admin"}, {"admin", "init"}}}

KeyPrograms ==
  {Program({}, here, there, {"spec"}, helped, expanded, {}) :
     here \in {{"instance_k"}, {"instance_k", "instance_l"}},
     there \in {{}, {"persistent_k"}, {"compare", "bound_k"},
                {"compare", "bounding_macro", "bound_k"}},
     helped \in {{}, {"instance_l", "persistent_l"}}, expanded \in BOOLEAN}

MCCases ==
  ({"set-contract-storage", "token-admin-operation"} \X OpenPrograms)
  \cup ({"dos-unexpected-revert-with-storage"} \X DosPrograms)
  \cup ({"auth-address-mismatch"} \X MismatchPrograms)
  \cup ({"missing-initialization-guard"} \X InitPrograms)
  \cup ({"unnecessary-admin-parameter"} \X AdminPrograms)
  \cup ({"instance-storage-per-user-key"} \X KeyPrograms)

MCPrograms == {c[2] : c \in MCCases}
=============================================================================
