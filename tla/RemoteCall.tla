----------------------------- MODULE RemoteCall -----------------------------
(* What run_subprocess promises its callers: a call made with an input comes *)
(* back at most once, with the answer to that input or with an error.        *)
CONSTANTS Callers, Inputs,
          Answer        \* function: input -> the answer to it

VARIABLES asked,        \* function: caller -> input of its last call
          reply         \* function: caller -> what has come of it

Quiet == [kind |-> "none", data |-> "none"]
Pending == [kind |-> "pending", data |-> "none"]
Error == [kind |-> "error", data |-> "none"]
Ok(data) == [kind |-> "ok", data |-> data]

Ask(c, i) == /\ reply[c] # Pending
             /\ asked' = [asked EXCEPT ![c] = i]
             /\ reply' = [reply EXCEPT ![c] = Pending]

Return(c) == /\ reply[c] = Pending
             /\ reply' = [reply EXCEPT ![c] = Ok(Answer[asked[c]])]
             /\ UNCHANGED asked

Fail(c) == /\ reply[c] = Pending
           /\ reply' = [reply EXCEPT ![c] = Error]
           /\ UNCHANGED asked

Init == /\ asked \in [Callers -> Inputs]
        /\ reply = [c \in Callers |-> Quiet]

Next == \E c \in Callers : (\E i \in Inputs : Ask(c, i)) \/ Return(c) \/ Fail(c)

Spec == Init /\ [][Next]_<<asked, reply>>
=============================================================================
