---------------------------- MODULE StorageReads ----------------------------
(* uncached-storage-modification: a value that was read from storage, changed  *)
(* and not written back must not be read again.  The detector goes through a *)
(* function once, in the order it is written, and merges what it knows where *)
(* the branches of an `if` or a `match` meet.  The program takes every way   *)
(* through the same function: it leaves code out, leaves early, goes round   *)
(* loops, and evaluates an argument before the call.  Bodies have any length.*)
EXTENDS Integers, Sequences, FiniteSets

CONSTANTS Copies,       \* variables bound to a value from storage
          Keys,         \* local variables that hold a key
          NoKey,
          MaxDepth      \* bound: branches, loops and calls inside each other

ASSUME NoKeyAssumption == NoKey \notin Keys
ASSUME MaxDepthAssumption == MaxDepth \in Nat

\* How a change gets to a place: on a way that the detector follows too; left by an
\* earlier round of the n-th frame, a loop, for every n from 1 on; on a way that the
\* detector does not follow; or only as the detector believes.
Straight == 0
Astray == MaxDepth + 1
Imagined == MaxDepth + 2
Ways == 0 .. Imagined

VARIABLES
  dirty_state,  \* what the detector thinks of each local
  key_map,      \* the key that it thinks each local was read with
  frames,       \* the branches, loops and calls around this place
  scope,        \* the locals that can be used here
  copied,       \* the key that each local was really read with
  changes,      \* the locals changed and not written back, and on which ways
  reached,      \* some way of the program gets here
  read          \* the read just made: what it overlooks, and was it reported

detector == <<dirty_state, key_map>>
vars == <<dirty_state, key_map, frames, scope, copied, changes, reached, read>>

CopyState == {"unset", "clean", "modified"}

Loops == {"for", "loop"}

Change == Copies \X Ways

Frame == [kind : {"then", "else", "match", "lazy", "set", "change"} \cup Loops,
          at : Keys \cup Copies \cup {NoKey},   \* what a match or a set is of, or a change
          pre : [Copies -> CopyState],          \* pre_state
          merged : [Copies -> CopyState],       \* state_then, or merged_state
          before : SUBSET Change,               \* changes, where it was entered
          joined : SUBSET Change,               \* at the end of earlier branches, or at breaks
          again : SUBSET Change,                \* at continues
          met : BOOLEAN,                        \* some way ends an earlier branch, or breaks
          scope : SUBSET Copies]

Reading == [key : Keys \cup {NoKey}, overlooked : SUBSET Change, imagined : SUBSET Copies,
            reported : BOOLEAN]

TypeOK ==
  /\ dirty_state \in [Copies -> CopyState]
  /\ key_map \in [Copies -> Keys \cup {NoKey}] /\ copied \in [Copies -> Keys \cup {NoKey}]
  /\ frames \in Seq(Frame)
  /\ scope \in SUBSET Copies
  /\ changes \in SUBSET Change /\ reached \in BOOLEAN
  /\ read \in Reading

NoRead == [key |-> NoKey, overlooked |-> {}, imagined |-> {}, reported |-> FALSE]

Init ==
  /\ dirty_state = [v \in Copies |-> "unset"]
  /\ key_map = [v \in Copies |-> NoKey] /\ copied = [v \in Copies |-> NoKey]
  /\ frames = <<>> /\ scope = {}
  /\ changes = {} /\ reached = TRUE
  /\ read = NoRead

-----------------------------------------------------------------------------
Mapped(keys, k) == {v \in Copies : keys[v] = k}

\* Sets of changes: the locals changed on a way, the same locals on another, and those
\* that the detector is to hold for modified.
ChangedOn(c, way) == {v \in Copies : <<v, way>> \in c}

On(locals, way) == locals \X {way}

Without(c, locals, ways) == {p \in c : p[1] \notin locals \/ p[2] \notin ways}

Real(c) == {p \in c : p[2] # Imagined}

Noticed(c) == ChangedOn(c, Straight) \cup ChangedOn(c, Imagined)

\* A way that ends here goes on for the detector.
Cut(c) == On(Noticed(c), Imagined)

-----------------------------------------------------------------------------
\* storage.get(k): a stale read is reported when a local mapped to k is modified.
Get(dirty, keys, origin, k) ==
  read' = [key |-> k,
           overlooked |-> {p \in Real(changes) : p[1] \in Mapped(origin, k)},
           imagined |-> Mapped(keys, k) \cap ChangedOn(changes, Imagined),
           reported |-> \E v \in Mapped(keys, k) : dirty[v] = "modified"]

Read(k) == /\ reached
           /\ Get(dirty_state, key_map, copied, k)
           /\ UNCHANGED <<detector, frames, scope, copied, changes, reached>>

\* process_pat
ProcessPat(v, k) == /\ dirty_state' = [dirty_state EXCEPT ![v] = "clean"]
                    /\ key_map' = [key_map EXCEPT ![v] = k]

NewLocal(v) == /\ reached /\ v \notin scope
               /\ key_map[v] = NoKey /\ copied[v] = NoKey
               /\ scope' = scope \cup {v}
               /\ UNCHANGED <<frames, changes, reached>>

\* let v = storage.get(k), with unwrap, unwrap_or or expect: the pattern, then the read.
BindCopy(v, k) ==
  /\ NewLocal(v) /\ ProcessPat(v, k)
  /\ copied' = [copied EXCEPT ![v] = k]
  /\ Get(dirty_state', key_map', copied', k)

\* Another `get` is taken for one of a storage: let v = map.get(k).
BindOther(v, k) == NewLocal(v) /\ ProcessPat(v, k) /\ UNCHANGED copied /\ read' = NoRead

\* What else is done with the read hides it: storage.get(k).unwrap_or_default(), get(k)?
BindUnseen(v, k) ==
  /\ NewLocal(v)
  /\ copied' = [copied EXCEPT ![v] = k]
  /\ Get(dirty_state, key_map, copied', k)
  /\ UNCHANGED detector

-----------------------------------------------------------------------------
Inner == frames[Len(frames)]

Below == SubSeq(frames, 1, Len(frames) - 1)

Inside(kinds) == frames # <<>> /\ Inner.kind \in kinds

EnterFrame(kind, at) ==
  /\ reached /\ Len(frames) < MaxDepth
  /\ frames' = Append(frames, [kind |-> kind, at |-> at, pre |-> dirty_state,
                               merged |-> dirty_state, before |-> changes, joined |-> {},
                               again |-> {}, met |-> FALSE, scope |-> scope])
  /\ UNCHANGED <<key_map, scope, copied, reached>>

Enter(kind, at) == EnterFrame(kind, at) /\ UNCHANGED <<dirty_state, changes>>

LeaveFrame == frames' = Below /\ scope' = Inner.scope /\ UNCHANGED <<key_map, copied>> /\ read' = NoRead

\* An assignment, a call of a `&mut self` method or a `&mut v` argument: the detector
\* marks v, and then visits the right side and the arguments, which come first.
BeginChange(v) ==
  /\ v \in scope /\ EnterFrame("change", v)
  /\ dirty_state' = IF dirty_state[v] = "unset" THEN dirty_state
                    ELSE [dirty_state EXCEPT ![v] = "modified"]
  /\ changes' = changes \cup On({v} \ Mapped(key_map, NoKey), Imagined)
  /\ read' = NoRead

\* The change is lost on the detector if the right side writes the same key.
Changed(v) ==
  IF ~reached \/ copied[v] = NoKey THEN changes
  ELSE IF v \in Noticed(changes)
       THEN Without(changes, {v}, {Imagined}) \cup {<<v, Straight>>}
       ELSE changes \cup {<<v, Astray>>}

EndChange == /\ Inside({"change"}) /\ LeaveFrame
             /\ changes' = Changed(Inner.at)
             /\ UNCHANGED <<dirty_state, reached>>

\* v = storage.get(k) once more: v is what is stored, and the detector has it modified.
Refresh == /\ Inside({"change"}) /\ reached /\ read.key # NoKey /\ read.key = copied[Inner.at]
           /\ LeaveFrame
           /\ changes' = Without(changes, {Inner.at}, Ways \ {Imagined})
                           \cup On({Inner.at} \cap Noticed(changes), Imagined)
           /\ UNCHANGED <<dirty_state, reached>>

CleanNothing(k) == dirty_state

CleanVarsFor(k) == [v \in Copies |-> IF key_map[v] = k THEN "clean" ELSE dirty_state[v]]

\* storage.set(k, ..): the detector cleans the locals with that key, and then visits the
\* arguments, which are evaluated before anything is written.
BeginSet(k) ==
  /\ EnterFrame("set", k)
  /\ dirty_state' = CleanVarsFor(k)
  /\ changes' = Without(changes, Mapped(key_map, k), {Straight, Imagined})
                  \cup On(Mapped(key_map, k) \cap ChangedOn(changes, Straight), Astray)
  /\ read' = NoRead

Written(k) ==
  IF reached THEN Without(changes, Mapped(copied, k), Ways \ {Imagined})
                    \cup On(Mapped(copied, k) \cap ChangedOn(changes, Straight), Imagined)
  ELSE changes

EndSet == /\ Inside({"set"}) /\ LeaveFrame
          /\ changes' = Written(Inner.at)
          /\ UNCHANGED <<dirty_state, reached>>

-----------------------------------------------------------------------------
\* The program ends here; the detector goes on with what it knew.
Return ==
  /\ reached /\ reached' = FALSE
  /\ changes' = Cut(changes)
  /\ UNCHANGED <<detector, frames, scope, copied>> /\ read' = NoRead

\* break and continue, with a label or without: the detector does not look at them.
Break(i) ==
  /\ reached /\ frames[i].kind \in Loops
  /\ frames' = [frames EXCEPT ![i].joined = @ \cup Real(changes), ![i].met = TRUE]
  /\ reached' = FALSE /\ changes' = Cut(changes)
  /\ UNCHANGED <<detector, scope, copied>> /\ read' = NoRead

Continue(i) ==
  /\ reached /\ frames[i].kind \in Loops
  /\ frames' = [frames EXCEPT ![i].again = @ \cup Real(changes)]
  /\ reached' = FALSE /\ changes' = Cut(changes)
  /\ UNCHANGED <<detector, scope, copied>> /\ read' = NoRead

\* Union of modifications: a local that only s2 has as clean is not taken over.
MergeFirst(s1, s2) == s1

MergeStates(s1, s2) ==
  [v \in Copies |-> IF s2[v] = "modified" THEN "modified" ELSE s1[v]]

\* The next branch starts from what was known before the first.
NextBranch(kind, merged) ==
  /\ frames' = Append(Below, [Inner EXCEPT !.kind = kind, !.merged = merged,
                                           !.joined = @ \cup changes, !.met = @ \/ reached])
  /\ dirty_state' = Inner.pre
  /\ changes' = Inner.before /\ reached' = TRUE
  /\ scope' = Inner.scope
  /\ UNCHANGED <<key_map, copied>> /\ read' = NoRead

Leave(merged, meets) == LeaveFrame /\ dirty_state' = merged /\ changes' = changes \cup meets

EnterThen == Enter("then", NoKey) /\ read' = NoRead

NextElse == Inside({"then"}) /\ NextBranch("else", dirty_state)

\* Without an else, the other branch is the state before.
LeaveThen == /\ Inside({"then"}) /\ Leave(MergeStates(dirty_state, Inner.pre), Inner.before)
             /\ reached' = TRUE

LeaveElse == /\ Inside({"else"}) /\ Leave(MergeStates(Inner.merged, dirty_state), Inner.joined)
             /\ reached' = (reached \/ Inner.met)

EnterMatch == \/ Enter("match", NoKey) /\ read' = NoRead
              \/ \E k \in Keys : Enter("match", k) /\ Get(dirty_state, key_map, copied, k)

\* A pattern of an arm binds what the match got from storage.
BindInArm(v) ==
  /\ Inside({"match"}) /\ Inner.at # NoKey
  /\ NewLocal(v) /\ ProcessPat(v, Inner.at)
  /\ copied' = [copied EXCEPT ![v] = Inner.at] /\ read' = NoRead

NextArm == Inside({"match"}) /\ NextBranch("match", MergeStates(Inner.merged, dirty_state))

\* merged_state began with the state before the match, which no way leaves.
LeaveMatch ==
  /\ Inside({"match"})
  /\ Leave(MergeStates(Inner.merged, dirty_state), Inner.joined \cup Cut(Inner.before))
  /\ reached' = (reached \/ Inner.met)

-----------------------------------------------------------------------------
\* A loop, with a head that ends it or without, and code that need not run: the right
\* operand of && and ||, and the else of a let. The detector visits it once, as if it ran.
EnterBody == \E kind \in Loops \cup {"lazy"} :
               /\ EnterFrame(kind, NoKey) /\ UNCHANGED dirty_state /\ read' = NoRead
               /\ changes' = changes \cup (IF kind = "lazy" THEN {} ELSE On(scope, Len(frames) + 1))

\* What a round of the innermost frame leaves, and what comes of c after all rounds.
LeftByRound == {p \in Real(changes) \cup Inner.again : p[2] # Len(frames)}

Through(c) == {p \in c : p[2] # Len(frames)} \cup {p \in LeftByRound : <<p[1], Len(frames)>> \in c}

Outcomes == Through(Inner.joined)
              \cup (IF Inner.kind = "loop" THEN {} ELSE Real(Inner.before) \cup LeftByRound)

\* A change that the code passed over would have written back is one that the detector
\* does not follow.
Followed(c, seen) == Without(c, Copies \ seen, {Straight})
                       \cup On(ChangedOn(c, Straight) \ seen, Astray)

LeaveBody ==
  /\ Inside(Loops \cup {"lazy"})
  /\ frames' = [i \in DOMAIN Below |->
                  IF Below[i].kind \in Loops
                  THEN [Below[i] EXCEPT !.joined = Through(@), !.again = Through(@)]
                  ELSE Below[i]]
  /\ changes' = Followed(Outcomes, Noticed(changes))
                  \cup On(Noticed(changes) \ ChangedOn(Outcomes, Straight), Imagined)
  /\ reached' = (Inner.kind # "loop" \/ Inner.met)
  /\ scope' = Inner.scope
  /\ UNCHANGED <<detector, copied>> /\ read' = NoRead

Next ==
  \/ \E k \in Keys : Read(k) \/ BeginSet(k)
  \/ \E v \in Copies, k \in Keys : BindCopy(v, k) \/ BindOther(v, k) \/ BindUnseen(v, k)
  \/ \E v \in Copies : BeginChange(v) \/ BindInArm(v)
  \/ EndChange \/ Refresh \/ EndSet
  \/ Return \/ \E i \in DOMAIN frames : Break(i) \/ Continue(i)
  \/ EnterThen \/ NextElse \/ LeaveThen \/ LeaveElse
  \/ EnterMatch \/ NextArm \/ LeaveMatch
  \/ EnterBody \/ LeaveBody

Spec == Init /\ [][Next]_vars

-----------------------------------------------------------------------------
\* A read that overlooks a change of what the detector took for a copy is reported, if a
\* way leads there from the change that goes round no loop that the read is in, unless a
\* write of the key stands between them in the text all the same: with the read in its
\* arguments, in the right side of the change, or where the way passes it over by leaving
\* out the body of a loop or an operand, or by a break or a continue.
StaleReadsReported == ChangedOn(read.overlooked, Straight) # {} => read.reported

\* And no other read is reported, but for a change of a local with its key that the
\* detector only imagines: on a way that a return, break or continue ends or that takes
\* no arm of a match, of the assignment that the read is in, of a value got elsewhere or
\* read again since, or in the arguments of the `set` that writes it back.
AlarmsExplained == read.reported => ChangedOn(read.overlooked, Straight) # {} \/ read.imagined # {}
=============================================================================
