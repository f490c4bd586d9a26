------------------------------ MODULE FlowLints ------------------------------
(* Detectors that note what they find in each function, on its own, and at   *)
(* the end report what nothing in the calls, or in the crate, excuses:       *)
(* auth-address-mismatch, missing-initialization-guard, unnecessary-admin-   *)
(* parameter and instance-storage-per-user-key.                              *)
EXTENDS CrateVisit

FlowKinds == {"auth-address-mismatch", "missing-initialization-guard",
              "unnecessary-admin-parameter", "instance-storage-per-user-key"}

Has(f, what) == program[f].does \cap what # {}

Signed(f, what) == program[f].signature \cap what # {}

\* is_auth_reachable: the least set with f that is closed under the calls seen.
Reachable(f) ==
  {g \in Functions :
     \A S \in SUBSET Functions :
       (f \in S /\ \A x \in S : Callees(x) \cap Functions \subseteq S) => g \in S}

-----------------------------------------------------------------------------
\* auth-address-mismatch: one address authorizes, and a key holds another.  Two
\* calls for the same address are two, and then the function is left alone.
AuthorizedAddress == [auth_a |-> "a", auth_a_again |-> "a", auth_b |-> "b"]

WrittenAddress == [write_a |-> "a", write_b |-> "b"]

Auths(f) == program[f].does \cap DOMAIN AuthorizedAddress

MismatchAuthorized(f) == Has(f, {"enforcer"}) \/ Auths(f) # {}

MismatchSite(f) ==
  /\ ~Has(f, {"enforcer"})
  /\ Cardinality(Auths(f)) = 1
  /\ \E a \in Auths(f), w \in program[f].does \cap DOMAIN WrittenAddress :
       WrittenAddress[w] # AuthorizedAddress[a]

\* The function's own authorization is not to excuse it, so the search begins at
\* what it calls.
FromItself(f, authorized) == Reachable(f) \cap authorized # {}

ViaCallee(f, authorized) ==
  \E g \in Callees(f) \cap Functions : Reachable(g) \cap authorized # {}

-----------------------------------------------------------------------------
\* missing-initialization-guard: a guard, wherever it stands in the function.
Guards == {"has", "is_initialized", "set_owner"}

GuardFound(f) == Has(f, Guards)

InitSink(f) == ~GuardFound(f) /\ Has(f, {"write_admin"})

UnguardedInit(f, guarded) ==
  /\ Signed(f, {"init"}) /\ IsSorobanFunction(f)
  /\ Reachable(f) \cap guarded = {}

-----------------------------------------------------------------------------
\* unnecessary-admin-parameter.
AdminAuthFound(f) == Has(f, {"require_auth"})

AdminParam(f) == Signed(f, {"admin"}) /\ ~Signed(f, {"init"})

\* Passed to another call as it is, or the receiver of a method.
AdminForwarded(f) == Has(f, {"forward"})

UnnecessaryAdmin(f, authorized) ==
  /\ IsSorobanFunction(f)
  /\ ~(AdminForwarded(f) /\ Reachable(f) \cap authorized # {})

-----------------------------------------------------------------------------
\* instance-storage-per-user-key, for the variants k and l of a key that hold an
\* address.  A key that a let has bound is resolved for the exemptions only.
InstanceUse == [k |-> {"instance_k", "bound_k"}, l |-> {"instance_l"}]

PersistentUse == [k |-> {"persistent_k"}, l |-> {"persistent_l"}]

Variants == DOMAIN InstanceUse

CandidateOf == [k |-> "instance_k", l |-> "instance_l"]

Candidates(f) == {x \in Variants : Has(f, {CandidateOf[x]})}

Capped(f) == IF {"compare", "bounding_macro"} \subseteq program[f].does
             THEN {x \in Variants : Has(f, InstanceUse[x])} ELSE {}

Persistent(f) == {x \in Variants : Has(f, PersistentUse[x])}

Exempts(f) == Capped(f) \cup Persistent(f)

ExemptsItself(f, exempting) ==
  \E x \in Candidates(f) : f \notin exempting \/ x \notin Exempts(f)

PerUserKey(f, exempting) ==
  \E x \in Candidates(f) : \A g \in exempting : x \notin Exempts(g)

-----------------------------------------------------------------------------
\* What check_fn notes of a function: that it authorizes, guards or exempts, and
\* that something in it may have to be reported.
Credits(lint, f) ==
  \/ lint = "auth-address-mismatch" /\ MismatchAuthorized(f)
  \/ lint = "missing-initialization-guard" /\ GuardFound(f)
  \/ lint = "unnecessary-admin-parameter" /\ AdminAuthFound(f)
  \/ lint = "instance-storage-per-user-key" /\ Exempts(f) # {}

Site(lint, f) ==
  \/ lint = "auth-address-mismatch" /\ MismatchSite(f)
  \/ lint = "missing-initialization-guard" /\ InitSink(f)
  \/ lint = "unnecessary-admin-parameter" /\ AdminParam(f)
  \/ lint = "instance-storage-per-user-key" /\ Candidates(f) # {}

\* What check_crate_post makes of it, with what all functions have credited.
ReportedBy(lint, f, credits) ==
  \/ lint = "auth-address-mismatch" /\ ~ViaCallee(f, credits)
  \/ lint = "missing-initialization-guard" /\ UnguardedInit(f, credits)
  \/ lint = "unnecessary-admin-parameter" /\ UnnecessaryAdmin(f, credits)
  \/ lint = "instance-storage-per-user-key" /\ PerUserKey(f, credits)

-----------------------------------------------------------------------------
(* What is wrong with a function, of the crate as it was written.            *)
Written(f) == ~program[f].expanded

Beyond(f) == UNION {Flow(g) : g \in program[f].calls}

\* Some function in the flow does one of these.
SomewhereIn(fs, what) == \E g \in fs : Written(g) /\ Has(g, what)

Authorizing == DOMAIN AuthorizedAddress \cup {"enforcer"}

\* The state of an address is changed that f does not authorize, and nothing that f
\* calls authorizes anyone.  A function that gets back to itself is excused by its
\* own authorization, and one with two authorizations is left alone.
Mismatched(f) ==
  /\ \E w \in program[f].does \cap DOMAIN WrittenAddress :
       \A a \in Auths(f) : AuthorizedAddress[a] # WrittenAddress[w]
  /\ Cardinality(Auths(f)) = 1 /\ ~Has(f, {"enforcer"})
  /\ ~SomewhereIn(Beyond(f), Authorizing)

\* An entry point that initializes writes privileged state itself, and nowhere in its
\* flow is it asked whether that was done before.
Reinitializable(f) == /\ Signed(f, {"init"}) /\ Entry(f)
                      /\ Has(f, {"write_admin"}) /\ ~SomewhereIn(Flow(f), Guards)

\* The admin is a parameter of an entry point that does not hand it on, or no
\* authorization is in the flow it is handed to.
AdminUnneeded(f) ==
  /\ Signed(f, {"admin"}) /\ ~Signed(f, {"init"}) /\ Entry(f)
  /\ ~(Has(f, {"forward"}) /\ SomewhereIn(Flow(f), {"require_auth"}))

\* A key for each user is used in instance storage; nowhere in the crate is it used
\* in persistent storage, or its number bounded.
KeyedPerUser(f) ==
  \E x \in Variants :
    /\ Has(f, {CandidateOf[x]})
    /\ \A g \in Functions : Written(g) => x \notin Exempts(g)

Wrong(lint, f) ==
  /\ Written(f)
  /\ \/ lint = "auth-address-mismatch" /\ Mismatched(f)
     \/ lint = "missing-initialization-guard" /\ Reinitializable(f)
     \/ lint = "unnecessary-admin-parameter" /\ AdminUnneeded(f)
     \/ lint = "instance-storage-per-user-key" /\ KeyedPerUser(f)
=============================================================================
