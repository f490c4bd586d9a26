---------------------------- MODULE TransferLints ----------------------------
(* Detectors of transfers of tokens: front-running and                       *)
(* unrestricted-transfer-from.  Both decide at the end of a function.        *)
EXTENDS BodyWalk

CONSTANTS Amount,       \* a local whose initializer is called with a parameter
          Other         \* anything else

ASSUME AmountAssumption == Amount # Param

Ended == walked # <<>> /\ walked[Len(walked)].do = "end"

-----------------------------------------------------------------------------
(* front-running.  A body has `if l > r`, or with a condition of another kind *)
(* (<<>>), else, return (or a panic), and transfers of Amount; init says that *)
(* the `if`, the return or the transfer is the initializer of a let.         *)
FrontConstructs ==
  [do : {"if"}, cond : {<<Amount, Param>>, <<Param, Amount>>, <<Amount, Other>>, <<>>}, init : BOOLEAN]
  \cup [do : {"return", "transfer"}, cond : {<<>>}, init : BOOLEAN]
  \cup [do : {"else", "close", "end"}, cond : {<<>>}, init : {FALSE}]

\* frames are the ifs around this place; conditional_checker those with a
\* comparison whose first branch this is; transfers the ones seen.
FrontStart == [frames |-> <<>>, conditional_checker |-> <<>>, checked_hir_ids |-> {},
               transfers |-> {}]

\* The second branch of an `if` with a comparison is not visited, and neither is the
\* initializer of a let (visit_local).
Unvisited(frame) == frame.init \/ (frame.in_else /\ frame.cond # <<>>)

Unseen(m) == \E i \in DOMAIN m.frames : Unvisited(m.frames[i])

CheckGreaterOnly(pair) == IF pair[2] = Param THEN {pair[1]} ELSE {}

AddToCheckedHirIds(pair) == {pair[i] : i \in {i \in {1, 2} : pair[3 - i] = Param}}

\* The return belongs to the innermost comparison around it.
Returned(m) ==
  IF Unseen(m) \/ m.conditional_checker = <<>> THEN m
  ELSE [m EXCEPT !.checked_hir_ids = @ \cup AddToCheckedHirIds(Top(m.conditional_checker))]

LeaveBranch(m) ==
  LET seen_before == [m EXCEPT !.frames = Pop(@)]
  IN  IF Top(m.frames).cond # <<>> /\ ~Top(m.frames).in_else /\ ~Top(m.frames).init /\ ~Unseen(seen_before)
      THEN [m EXCEPT !.conditional_checker = Pop(@)] ELSE m

FrontStep(m, e) ==
  CASE e.do = "if" ->
         [m EXCEPT !.frames = Append(@, [cond |-> e.cond, in_else |-> FALSE, init |-> e.init]),
                   !.conditional_checker = IF e.cond = <<>> \/ e.init \/ Unseen(m) THEN @
                                           ELSE Append(@, e.cond)]
    [] e.do = "else" -> [LeaveBranch(m) EXCEPT !.frames[Len(m.frames)].in_else = TRUE]
    [] e.do = "close" -> [LeaveBranch(m) EXCEPT !.frames = Pop(@)]
    [] e.do = "return" /\ ~e.init -> Returned(m)
    [] e.do = "transfer" /\ ~e.init -> [m EXCEPT !.transfers = IF Unseen(m) THEN @ ELSE @ \cup {Here}]
    [] OTHER -> m

VisitFront ==
  /\ Works({"front-running"})
  /\ \E e \in FrontConstructs :
       /\ ~Ended
       /\ e.do = "else" => memory.frames # <<>> /\ ~Top(memory.frames).in_else
       /\ e.do = "end" => memory.frames = <<>>
       /\ Pass(e, FrontStep(memory, e),
               IF e.do = "end" /\ Amount \notin memory.checked_hir_ids THEN memory.transfers ELSE {})

\* The `if` that the position i stands directly in; 0 at the top of the body.
Around(i) ==
  LET open == {n \in 1 .. i - 1 : walked[n].do = "if" /\ InScope(n, i)}
  IN  IF open = {} THEN 0 ELSE CHOOSE n \in open : \A o \in open : o <= n

InElse(i, n) == \E k \in n .. i : walked[k].do = "else" /\ Around(k) = n

Bounds(n) == Param \in {walked[n].cond[k] : k \in DOMAIN walked[n].cond}

\* The comparison at n ends the function by the return at r when it holds, and comes
\* before i.
GuardsTransfer(n, r, i) ==
  /\ walked[n].do = "if" /\ Bounds(n) /\ ~InScope(n, i)
  /\ Around(n) = 0 \/ (InScope(Around(n), i) /\ InElse(i, Around(n)) = InElse(n, Around(n)))
  /\ r \in n .. i /\ walked[r].do = "return" /\ Around(r) = n /\ ~InElse(r, n)

InInitializer(i) ==
  walked[i].init \/ \E n \in 1 .. i - 1 : walked[n].do = "if" /\ walked[n].init /\ InScope(n, i)

\* A transfer of an amount that a parameter made is reported only if no comparison
\* of the amount with a parameter ends the function before it, or all do so in the
\* initializer of a let; one that none protects is passed over only in the
\* initializer of a let, in the else of a comparison, or when some return
\* stands under such a comparison elsewhere: after the transfer, beside it, in
\* another `if`, or only under that comparison and the transfer with it.
FrontRunsReported ==
  lint = "front-running" /\ Ended =>
    \A i \in DOMAIN walked :
      walked[i].do = "transfer" =>
        /\ i \in reported =>
             \A n, r \in DOMAIN walked : GuardsTransfer(n, r, i) => InInitializer(r)
        /\ i \notin reported /\ (\A n, r \in DOMAIN walked : ~GuardsTransfer(n, r, i)) =>
             \/ InInitializer(i)
             \/ \E n \in 1 .. i - 1 : /\ walked[n].do = "if" /\ walked[n].cond # <<>>
                                      /\ InScope(n, i) /\ InElse(i, n)
             \/ \E n, r \in DOMAIN walked :
                  n < r /\ walked[n].do = "if" /\ Bounds(n) /\ walked[r].do = "return" /\ InScope(n, r)

-----------------------------------------------------------------------------
(* unrestricted-transfer-from: require_auth of a parameter, transfer_from a   *)
(* reference to one or to another value, or from a parameter that is itself  *)
(* a reference and is handed over as it is.                                  *)
TransferConstructs == [do : {"require_auth", "transfer_from reference"}, of : Locals]
                      \cup [do : {"transfer_from"}, of : Locals \cup {Other}]
                      \cup [do : {"end"}, of : {Other}]

TransferStart == [from_param |-> Other, span |-> 0, authorized_param_names |-> {}]

\* Only what the last transfer_from of a reference to a parameter leaves is kept.
TransferStep(m, e) ==
  CASE e.do = "require_auth" -> [m EXCEPT !.authorized_param_names = @ \cup {e.of}]
    [] e.do = "transfer_from" /\ e.of # Other -> [m EXCEPT !.from_param = e.of, !.span = Here]
    [] OTHER -> m

AuthorizedByAnyone(m) == m.authorized_param_names # {}

FromIsAuthorized(m) == m.from_param \in m.authorized_param_names

VisitTransfer ==
  /\ Works({"unrestricted-transfer-from"})
  /\ \E e \in TransferConstructs :
       /\ ~Ended
       /\ Pass(e, TransferStep(memory, e),
               IF e.do = "end" /\ memory.from_param # Other /\ ~FromIsAuthorized(memory)
               THEN {memory.span} ELSE {})

Unrestricted(i) == /\ walked[i].do \in {"transfer_from", "transfer_from reference"} /\ walked[i].of # Other
                   /\ \A n \in DOMAIN walked : walked[n] # [do |-> "require_auth", of |-> walked[i].of]

\* A transfer_from is reported only if its parameter is authorized nowhere, and one
\* such goes unreported only if another transfer_from a parameter comes later, or the
\* parameter is handed over as it is.
TransfersReported ==
  lint = "unrestricted-transfer-from" /\ Ended =>
    /\ \A i \in reported : Unrestricted(i)
    /\ \A i \in DOMAIN walked \ reported :
         Unrestricted(i) => \/ walked[i].do = "transfer_from reference"
                            \/ \E n \in DOMAIN walked :
                                 n > i /\ walked[n].do = "transfer_from" /\ walked[n].of # Other

TransferSpec == /\ Follows({"front-running"}, FrontStart, VisitFront)
                /\ Follows({"unrestricted-transfer-from"}, TransferStart, VisitTransfer)

TransfersJudged == FrontRunsReported /\ TransfersReported
=============================================================================
