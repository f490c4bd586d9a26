----------------------------- MODULE BodyProofs -----------------------------
(* The detectors for which the path through a body matters, over bodies of   *)
(* any length and depth with any number of locals: no loop, unguarded        *)
(* operation, transfer or stale read is misjudged, but for the ways that the *)
(* properties name.                                                          *)
EXTENDS StorageReads, LoopLints, GuardLints, TransferLints,
        FiniteSetTheorems, SequenceTheorems, TLAPS

-----------------------------------------------------------------------------
(* How deep a body is nested.                                                 *)

Opened(s, n) == {i \in 1 .. n : s[i].do \in Opening}

Closed(s, n) == {i \in 1 .. n : s[i].do = "close"}

DepthOf(s, n) == Cardinality(Opened(s, n)) - Cardinality(Closed(s, n))

\* The position i is still in the scope of n.
Scoped(s, n, i) == \A j \in n .. i - 1 : DepthOf(s, j) >= DepthOf(s, n)

LEMMA DepthIs == /\ \A n : Depth(n) = DepthOf(walked, n)
                 /\ \A n, i : InScope(n, i) <=> Scoped(walked, n, i)
BY DEF Depth, DepthOf, Opened, Closed, InScope, Scoped

\* How many of the first n positions are in a set.
LEMMA CountNext ==
  ASSUME NEW S, NEW n \in Nat
  PROVE  /\ Cardinality((1 .. n) \cap S) \in Nat
         /\ Cardinality((1 .. n + 1) \cap S)
              = Cardinality((1 .. n) \cap S) + (IF n + 1 \in S THEN 1 ELSE 0)
<1> DEFINE at(m) == (1 .. m) \cap S
<1>1. IsFiniteSet(at(n)) /\ Cardinality(at(n)) \in Nat
  <2>1. IsFiniteSet(1 .. n)
    BY FS_Interval
  <2> QED BY <2>1, FS_Subset, FS_CardinalityType
<1>2. at(n + 1) = IF n + 1 \in S THEN at(n) \cup {n + 1} ELSE at(n)
  OBVIOUS
<1>3. n + 1 \notin at(n)
  OBVIOUS
<1> HIDE DEF at
<1>4. Cardinality(at(n + 1)) = Cardinality(at(n)) + (IF n + 1 \in S THEN 1 ELSE 0)
  <2>1. CASE n + 1 \in S
    BY <1>1, <1>2, <1>3, <2>1, FS_AddElement
  <2>2. CASE n + 1 \notin S
    BY <1>1, <1>2, <2>2
  <2> QED BY <2>1, <2>2
<1> QED BY <1>1, <1>4 DEF at

LEMMA DepthNext ==
  ASSUME NEW s, NEW n \in Nat
  PROVE  /\ DepthOf(s, n) \in Int
         /\ DepthOf(s, n + 1) = DepthOf(s, n) + (IF s[n + 1].do \in Opening THEN 1
                                                ELSE IF s[n + 1].do = "close" THEN -1 ELSE 0)
<1> DEFINE O == {i \in Nat : s[i].do \in Opening}
           C == {i \in Nat : s[i].do = "close"}
<1>1. /\ Opened(s, n) = (1 .. n) \cap O /\ Opened(s, n + 1) = (1 .. n + 1) \cap O
      /\ Closed(s, n) = (1 .. n) \cap C /\ Closed(s, n + 1) = (1 .. n + 1) \cap C
  BY DEF Opened, Closed
<1>2. n + 1 \in O <=> s[n + 1].do \in Opening
  OBVIOUS
<1>3. n + 1 \in C <=> s[n + 1].do = "close"
  OBVIOUS
<1>4. "close" \notin Opening
  BY DEF Opening
<1> HIDE DEF O, C
<1>5. /\ Cardinality(Opened(s, n)) \in Nat
      /\ Cardinality(Opened(s, n + 1)) = Cardinality(Opened(s, n)) + (IF n + 1 \in O THEN 1 ELSE 0)
  BY <1>1, CountNext
<1>6. /\ Cardinality(Closed(s, n)) \in Nat
      /\ Cardinality(Closed(s, n + 1)) = Cardinality(Closed(s, n)) + (IF n + 1 \in C THEN 1 ELSE 0)
  BY <1>1, CountNext
<1> QED BY <1>2, <1>3, <1>4, <1>5, <1>6 DEF DepthOf

LEMMA DepthZero == \A s : DepthOf(s, 0) = 0
<1> SUFFICES ASSUME NEW s PROVE DepthOf(s, 0) = 0
  OBVIOUS
<1>1. Opened(s, 0) = {} /\ Closed(s, 0) = {}
  BY DEF Opened, Closed
<1> QED BY <1>1, FS_EmptySet DEF DepthOf

\* What is passed later changes neither the depth nor the scopes before it.
LEMMA DepthAppend ==
  ASSUME NEW E, NEW s \in Seq(E), NEW e, NEW n \in 0 .. Len(s)
  PROVE  DepthOf(Append(s, e), n) = DepthOf(s, n)
<1>1. \A i \in 1 .. n : Append(s, e)[i] = s[i]
  OBVIOUS
<1>2. Opened(Append(s, e), n) = Opened(s, n) /\ Closed(Append(s, e), n) = Closed(s, n)
  BY <1>1 DEF Opened, Closed
<1> QED BY <1>2 DEF DepthOf

LEMMA ScopedAppend ==
  ASSUME NEW E, NEW s \in Seq(E), NEW e, NEW n \in Nat, NEW i \in 0 .. Len(s) + 1
  PROVE  Scoped(Append(s, e), n, i) <=> Scoped(s, n, i)
<1>1. CASE n < i
  <2>1. Len(s) \in Nat /\ n \in 0 .. Len(s) /\ \A j \in n .. i - 1 : j \in 0 .. Len(s)
    BY <1>1
  <2>2. DepthOf(Append(s, e), n) = DepthOf(s, n)
    BY <2>1, DepthAppend
  <2>3. \A j \in n .. i - 1 : DepthOf(Append(s, e), j) = DepthOf(s, j)
    BY <2>1, DepthAppend
  <2> QED BY <2>2, <2>3 DEF Scoped
<1>2. CASE ~(n < i)
  BY <1>2 DEF Scoped
<1> QED BY <1>1, <1>2

LEMMA DepthStep ==
  ASSUME NEW s, NEW n \in Nat \ {0}
  PROVE  /\ DepthOf(s, n) \in Int /\ DepthOf(s, n - 1) \in Int
         /\ s[n].do # "close" => DepthOf(s, n) >= DepthOf(s, n - 1)
         /\ s[n].do \in Opening => DepthOf(s, n) = DepthOf(s, n - 1) + 1
<1>1. n - 1 \in Nat /\ (n - 1) + 1 = n
  OBVIOUS
<1>2. /\ DepthOf(s, n - 1) \in Int /\ DepthOf(s, n) \in Int
      /\ DepthOf(s, (n - 1) + 1) = DepthOf(s, n - 1) + (IF s[(n - 1) + 1].do \in Opening THEN 1
                                     ELSE IF s[(n - 1) + 1].do = "close" THEN -1 ELSE 0)
  BY <1>1, DepthNext
<1> QED BY <1>1, <1>2

\* Scopes are nested.
LEMMA ScopedInside ==
  ASSUME NEW s, NEW o \in Nat, NEW n \in Nat, NEW i \in Nat, o < n, s[n].do # "close",
         Scoped(s, o, n)
  PROVE  /\ DepthOf(s, n) >= DepthOf(s, o)
         /\ s[n].do \in Opening => DepthOf(s, n) > DepthOf(s, o)
         /\ Scoped(s, n, i) => Scoped(s, o, i)
<1>1. DepthOf(s, n - 1) >= DepthOf(s, o)
  BY DEF Scoped
<1>2. \A j \in Nat : DepthOf(s, j) \in Int
  BY DepthNext
<1>3. /\ DepthOf(s, n) >= DepthOf(s, o)
      /\ s[n].do \in Opening => DepthOf(s, n) > DepthOf(s, o)
  BY <1>1, <1>2, DepthStep
<1>4. ASSUME Scoped(s, n, i) PROVE Scoped(s, o, i)
  <2> SUFFICES ASSUME NEW j \in o .. i - 1 PROVE DepthOf(s, j) >= DepthOf(s, o)
    BY DEF Scoped
  <2>1. CASE j < n
    BY <2>1 DEF Scoped
  <2>2. CASE ~(j < n)
    <3>1. DepthOf(s, j) >= DepthOf(s, n)
      BY <1>4, <2>2 DEF Scoped
    <3> QED BY <1>2, <1>3, <3>1
  <2> QED BY <2>1, <2>2
<1> QED BY <1>3, <1>4

\* The constructs whose body has not ended.
Open(s) == {n \in DOMAIN s : s[n].do \in Opening /\ Scoped(s, n, Len(s) + 1)}

LEMMA OpenInOrder ==
  ASSUME NEW E, NEW s \in Seq(E), NEW o \in Open(s), NEW n \in Open(s), o < n
  PROVE  DepthOf(s, o) < DepthOf(s, n)
<1>1. o \in Nat /\ n \in Nat /\ n <= Len(s) /\ s[n].do \in Opening
  BY DEF Open
<1>2. Scoped(s, o, n) /\ s[n].do # "close"
  BY <1>1 DEF Open, Scoped, Opening
<1>3. DepthOf(s, o) \in Int /\ DepthOf(s, n) \in Int
  BY <1>1, DepthNext
<1> QED BY <1>1, <1>2, <1>3, ScopedInside

LEMMA OpenAppend ==
  ASSUME NEW E, NEW s \in Seq(E), NEW e
  PROVE  LET t == Append(s, e)
         IN  /\ \A n \in 0 .. Len(s) : DepthOf(t, n) = DepthOf(s, n)
             /\ \A n \in Nat, i \in 0 .. Len(s) + 1 : Scoped(t, n, i) <=> Scoped(s, n, i)
             /\ e.do \in Opening =>
                  /\ DepthOf(t, Len(t)) = DepthOf(s, Len(s)) + 1
                  /\ Open(t) = Open(s) \cup {Len(t)}
             /\ e.do = "close" =>
                  /\ DepthOf(t, Len(t)) = DepthOf(s, Len(s)) - 1
                  /\ Open(t) = {n \in Open(s) : DepthOf(s, n) < DepthOf(s, Len(s))}
             /\ e.do \notin Opening \cup {"close"} =>
                  /\ DepthOf(t, Len(t)) = DepthOf(s, Len(s))
                  /\ Open(t) = Open(s)
<1> DEFINE t == Append(s, e)
           d == DepthOf(s, Len(s))
<1>1. /\ Len(s) \in Nat /\ Len(t) = Len(s) + 1 /\ t[Len(t)] = e
      /\ DOMAIN s = 1 .. Len(s) /\ DOMAIN t = 1 .. Len(s) + 1
      /\ \A i \in 1 .. Len(s) : t[i] = s[i]
  OBVIOUS
<1>2. \A n \in 0 .. Len(s) : DepthOf(t, n) = DepthOf(s, n)
  BY DepthAppend
<1>3. \A n \in Nat, i \in 0 .. Len(s) + 1 : Scoped(t, n, i) <=> Scoped(s, n, i)
  BY ScopedAppend
<1>4. DepthOf(t, Len(t)) = d + (IF e.do \in Opening THEN 1 ELSE IF e.do = "close" THEN -1 ELSE 0)
  <2>1. DepthOf(t, Len(s) + 1) = DepthOf(t, Len(s)) + (IF t[Len(s) + 1].do \in Opening THEN 1
                                          ELSE IF t[Len(s) + 1].do = "close" THEN -1 ELSE 0)
    BY <1>1, DepthNext
  <2>2. DepthOf(t, Len(s)) = d /\ t[Len(s) + 1] = e /\ Len(t) = Len(s) + 1
    BY <1>1, <1>2
  <2> HIDE DEF t, d
  <2> QED BY <2>1, <2>2
<1>5. \A n \in Nat : DepthOf(s, n) \in Int
  BY DepthNext
<1>6. "close" \notin Opening
  BY DEF Opening
<1> HIDE DEF t
<1>7. \A n \in DOMAIN s : Scoped(t, n, Len(t) + 1) <=>
                            Scoped(s, n, Len(s) + 1) /\ DepthOf(t, Len(t)) >= DepthOf(s, n)
  <2> SUFFICES ASSUME NEW n \in DOMAIN s
               PROVE  Scoped(t, n, Len(t) + 1) <=>
                        Scoped(s, n, Len(s) + 1) /\ DepthOf(t, Len(t)) >= DepthOf(s, n)
    OBVIOUS
  <2>1. n \in Nat /\ n <= Len(s) /\ DepthOf(t, n) = DepthOf(s, n)
    BY <1>1, <1>2
  <2>2. n .. (Len(t) + 1) - 1 = (n .. (Len(s) + 1) - 1) \cup {Len(t)}
    BY <1>1, <2>1
  <2>3. Scoped(t, n, Len(t) + 1) <=> Scoped(t, n, Len(s) + 1) /\ DepthOf(t, Len(t)) >= DepthOf(t, n)
    BY <2>2 DEF Scoped
  <2> QED BY <1>1, <1>3, <2>1, <2>3
<1>8. \A n \in Open(s) : n \in DOMAIN s /\ DepthOf(s, n) <= d /\ DepthOf(s, n) \in Int /\ d \in Int
  BY <1>1, <1>5 DEF Open, Scoped
<1>9. /\ \A n \in Open(t) : n = Len(t) \/ n \in DOMAIN s
      /\ \A n \in DOMAIN s : n \in Open(t) <=> n \in Open(s) /\ DepthOf(t, Len(t)) >= DepthOf(s, n)
  BY <1>1, <1>7 DEF Open
<1>10. Len(t) \in Open(t) <=> e.do \in Opening
  <2>1. DepthOf(t, Len(t)) \in Int /\ Len(t) \in Nat
    BY <1>1, DepthNext
  <2>2. Scoped(t, Len(t), Len(t) + 1)
    BY <2>1 DEF Scoped
  <2> QED BY <1>1, <2>2 DEF Open
<1>11. Len(t) \notin DOMAIN s
  BY <1>1
<1>12. CASE e.do \in Opening
  <2>1. DepthOf(t, Len(t)) = d + 1
    BY <1>4, <1>12
  <2>2. \A n : n \in Open(t) <=> n \in Open(s) \cup {Len(t)}
    BY <1>8, <1>9, <1>10, <1>12, <2>1
  <2> QED BY <1>2, <1>3, <1>6, <1>12, <2>1, <2>2 DEF t
<1>13. CASE e.do = "close"
  <2>1. DepthOf(t, Len(t)) = d - 1
    BY <1>4, <1>6, <1>13
  <2>2. \A n \in Open(s) : DepthOf(t, Len(t)) >= DepthOf(s, n) <=> DepthOf(s, n) < d
    BY <1>8, <2>1
  <2>3. \A n : n \in Open(t) <=> n \in {n_1 \in Open(s) : DepthOf(s, n_1) < d}
    BY <1>6, <1>8, <1>9, <1>10, <1>13, <2>2
  <2> QED BY <1>2, <1>3, <1>6, <1>13, <2>1, <2>3 DEF t
<1>14. CASE e.do \notin Opening \cup {"close"}
  <2>1. DepthOf(t, Len(t)) = d
    BY <1>4, <1>5, <1>14
  <2>2. \A n : n \in Open(t) <=> n \in Open(s)
    BY <1>8, <1>9, <1>10, <1>14, <2>1
  <2> QED BY <1>2, <1>3, <1>14, <2>1, <2>2 DEF t
<1> QED BY <1>12, <1>13, <1>14

\* A stack of frames, one for each construct that is open, from the outermost one.
Stacked(s, fs) ==
  /\ Len(fs) = DepthOf(s, Len(s))
  /\ \A k \in 1 .. Len(fs) : fs[k].at \in Open(s) /\ DepthOf(s, fs[k].at) = k
  /\ \A n \in 0 .. Len(s) : DepthOf(s, n) >= 0

LEMMA StackedIsOpen ==
  ASSUME NEW E, NEW s \in Seq(E), NEW F, NEW fs \in Seq(F), Stacked(s, fs)
  PROVE  /\ \A n \in Open(s) : \E k \in 1 .. Len(fs) : n = fs[k].at
         /\ \A j, k \in 1 .. Len(fs) : j < k => fs[j].at < fs[k].at
<1>1. \A n \in Open(s) : /\ n \in 1 .. Len(s) /\ DepthOf(s, n) \in 1 .. Len(fs)
  <2> SUFFICES ASSUME NEW n \in Open(s)
               PROVE  n \in 1 .. Len(s) /\ DepthOf(s, n) \in 1 .. Len(fs)
    OBVIOUS
  <2>1. n \in 1 .. Len(s) /\ s[n].do \in Opening
    BY DEF Open
  <2>2. DepthOf(s, n) = DepthOf(s, n - 1) + 1 /\ DepthOf(s, n - 1) >= 0
    BY <2>1, DepthStep DEF Stacked
  <2>3. DepthOf(s, n) <= DepthOf(s, Len(s))
    BY <2>1 DEF Open, Scoped
  <2>4. DepthOf(s, n) \in Int /\ DepthOf(s, n - 1) \in Int
    BY <2>1, DepthStep
  <2> QED BY <2>1, <2>2, <2>3, <2>4 DEF Stacked
<1>2. \A n \in Open(s), o \in Open(s) : DepthOf(s, n) = DepthOf(s, o) => n = o
  <2> SUFFICES ASSUME NEW n \in Open(s), NEW o \in Open(s), DepthOf(s, n) = DepthOf(s, o), n # o
               PROVE  FALSE
    OBVIOUS
  <2>1. n < o \/ o < n
    BY <1>1
  <2>2. DepthOf(s, n) < DepthOf(s, o) \/ DepthOf(s, o) < DepthOf(s, n)
    BY <2>1, OpenInOrder
  <2> QED BY <1>1, <2>2
<1>3. \A n \in Open(s) : \E k \in 1 .. Len(fs) : n = fs[k].at
  BY <1>1, <1>2 DEF Stacked
<1>4. ASSUME NEW j \in 1 .. Len(fs), NEW k \in 1 .. Len(fs), j < k
      PROVE  fs[j].at < fs[k].at
  <2>1. /\ fs[j].at \in Open(s) /\ DepthOf(s, fs[j].at) = j
        /\ fs[k].at \in Open(s) /\ DepthOf(s, fs[k].at) = k
    BY DEF Stacked
  <2>2. fs[k].at < fs[j].at => k < j
    BY <2>1, OpenInOrder
  <2> QED BY <1>1, <1>4, <2>1, <2>2
<1> QED BY <1>3, <1>4

\* In a stack of positions, those from the k-th on are so many.
LEMMA CountAbove ==
  ASSUME NEW d \in Nat, NEW at \in [1 .. d -> Nat],
         \A j, k \in 1 .. d : j < k => at[j] < at[k], NEW k \in 1 .. d
  PROVE  Cardinality({o \in {at[j] : j \in 1 .. d} : o >= at[k]}) = d - k + 1
<1> DEFINE T == {o \in {at[j] : j \in 1 .. d} : o >= at[k]}
           f == [j \in k .. d |-> at[j]]
<1>1. IsFiniteSet(k .. d) /\ Cardinality(k .. d) = d - k + 1
  BY FS_Interval
<1>2. \A j \in k .. d : at[j] \in T /\ f[j] = at[j]
  OBVIOUS
<1>3. \A o \in T : \E j \in k .. d : f[j] = o
  OBVIOUS
<1>4. f \in Surjection(k .. d, T)
  <2>1. f \in [k .. d -> T]
    BY <1>2
  <2> QED BY <1>3, <2>1 DEF Surjection
<1>5. \A i, j \in k .. d : f[i] = f[j] => i = j
  OBVIOUS
<1>6. f \in Injection(k .. d, T)
  <2>1. f \in [k .. d -> T]
    BY <1>2
  <2> QED BY <1>5, <2>1 DEF Injection, IsInjective
<1> HIDE DEF T, f
<1>7. Cardinality(T) = Cardinality(k .. d)
  BY <1>1, <1>4, <1>6, FS_Surjection
<1> QED BY <1>1, <1>7 DEF T

\* How a stack goes along with the body.
LEMMA StackedAppend ==
  ASSUME NEW E, NEW s \in Seq(E), NEW e, NEW F, NEW fs \in Seq(F), Stacked(s, fs),
         NEW next \in Seq(F),
         \/ /\ e.do \in Opening /\ Len(next) = Len(fs) + 1
            /\ next[Len(next)].at = Len(s) + 1
            /\ \A k \in 1 .. Len(fs) : next[k].at = fs[k].at
         \/ /\ e.do = "close" /\ Len(fs) > 0 /\ Len(next) = Len(fs) - 1
            /\ \A k \in 1 .. Len(next) : next[k].at = fs[k].at
         \/ /\ e.do \notin Opening \cup {"close"} /\ Len(next) = Len(fs)
            /\ \A k \in 1 .. Len(fs) : next[k].at = fs[k].at
  PROVE  Stacked(Append(s, e), next)
<1> DEFINE t == Append(s, e)
           d == Len(fs)
<1>1. Len(s) \in Nat /\ Len(t) = Len(s) + 1
  OBVIOUS
<1>2. /\ \A n \in 0 .. Len(s) : DepthOf(t, n) = DepthOf(s, n)
      /\ e.do \in Opening => /\ DepthOf(t, Len(t)) = DepthOf(s, Len(s)) + 1
                             /\ Open(t) = Open(s) \cup {Len(t)}
      /\ e.do = "close" => /\ DepthOf(t, Len(t)) = DepthOf(s, Len(s)) - 1
                           /\ Open(t) = {n \in Open(s) : DepthOf(s, n) < DepthOf(s, Len(s))}
      /\ e.do \notin Opening \cup {"close"} => /\ DepthOf(t, Len(t)) = DepthOf(s, Len(s))
                                               /\ Open(t) = Open(s)
  BY OpenAppend
<1>3. /\ d \in Nat /\ d = DepthOf(s, Len(s))
      /\ \A k \in 1 .. d : fs[k].at \in Open(s) /\ DepthOf(s, fs[k].at) = k
      /\ \A n \in 0 .. Len(s) : DepthOf(s, n) >= 0
  BY DEF Stacked
<1>4. \A n \in Open(s) : n \in 0 .. Len(s)
  BY DEF Open
<1> HIDE DEF t, d
<1>5. Len(next) = DepthOf(t, Len(t)) /\ Len(next) \in Nat
  BY <1>2, <1>3 DEF d
<1>6. \A k \in 1 .. Len(next) : next[k].at \in Open(t) /\ DepthOf(t, next[k].at) = k
  BY <1>1, <1>2, <1>3, <1>4, <1>5 DEF d
<1>7. \A n \in 0 .. Len(t) : DepthOf(t, n) >= 0
  BY <1>1, <1>2, <1>3, <1>5
<1> QED BY <1>5, <1>6, <1>7 DEF Stacked, t

-----------------------------------------------------------------------------
(* The detectors of loops.                                                    *)

AroundOf(s, i) == {n \in 1 .. i - 1 : s[n].do = "loop" /\ Scoped(s, n, i)}

\* What a return or a break leaves; a continue is not looked at.
LeftOf(s, i) ==
  CASE s[i].do = "return" -> AroundOf(s, i)
    [] s[i].do = "break" ->
         {n \in AroundOf(s, i) : Cardinality({o \in AroundOf(s, i) : o >= n}) <= s[i].v}
    [] OTHER -> {}

\* What the detector takes for left: by the break of a labelled block, all loops around.
EscapedOf(s, i) == IF s[i].do = "break" /\ s[i].v = 0 THEN AroundOf(s, i) ELSE LeftOf(s, i)

LEMMA AroundIs ==
  \A i : /\ LoopsAround(i) = AroundOf(walked, i)
         /\ walked[i].do # "continue" => Left(i) = LeftOf(walked, i)
<1> SUFFICES ASSUME NEW i
             PROVE  /\ LoopsAround(i) = AroundOf(walked, i)
                    /\ walked[i].do # "continue" => Left(i) = LeftOf(walked, i)
  OBVIOUS
<1>1. LoopsAround(i) = AroundOf(walked, i)
  BY DepthIs DEF LoopsAround, AroundOf
<1>2. \A n : Rank(n, i) = Cardinality({o \in AroundOf(walked, i) : o >= n})
  BY <1>1 DEF Rank
<1>3. CASE walked[i].do = "return"
  BY <1>1, <1>3 DEF Left, LeftOf
<1>4. CASE walked[i].do = "break"
  BY <1>1, <1>2, <1>4 DEF Left, LeftOf
<1>5. CASE walked[i].do \notin {"return", "break", "continue"}
  <2>1. Left(i) = {}
    BY <1>5 DEF Left
  <2>2. LeftOf(walked, i) = {}
    BY <1>5 DEF LeftOf
  <2> QED BY <1>1, <2>1, <2>2
<1> QED BY <1>1, <1>3, <1>4, <1>5

LEMMA AroundBefore ==
  ASSUME NEW E, NEW s \in Seq(E), NEW e, NEW i \in 1 .. Len(s)
  PROVE  /\ AroundOf(Append(s, e), i) = AroundOf(s, i)
         /\ LeftOf(Append(s, e), i) = LeftOf(s, i)
         /\ EscapedOf(Append(s, e), i) = EscapedOf(s, i)
<1> DEFINE t == Append(s, e)
<1>1. \A n \in 1 .. Len(s) : t[n] = s[n]
  OBVIOUS
<1>2. \A n \in Nat : Scoped(t, n, i) <=> Scoped(s, n, i)
  BY ScopedAppend
<1>3. AroundOf(t, i) = AroundOf(s, i)
  <2> HIDE DEF t
  <2> QED BY <1>1, <1>2 DEF AroundOf
<1>4. LeftOf(t, i) = LeftOf(s, i)
  <2> HIDE DEF t
  <2> QED BY <1>1, <1>3 DEF LeftOf
<1>5. EscapedOf(t, i) = EscapedOf(s, i)
  <2> HIDE DEF t
  <2> QED BY <1>1, <1>3, <1>4 DEF EscapedOf
<1> QED BY <1>3, <1>4, <1>5

LoopBody(s) == s \in Seq(LoopConstructs)

LEMMA ConstructsAre ==
  ASSUME NEW e \in LoopConstructs
  PROVE  /\ e.do \in Opening <=> e.do = "loop"
         /\ e.do \in {"loop", "close", "return", "break", "continue", "let", "clone", "contains",
                      "get"}
         /\ e.form \in {"", "loop", "while", "for"}
         /\ e.form = "" <=> e.do # "loop"
         /\ e.form = "for" => e.v \in Locals
         /\ e.form \in {"loop", "while"} => e.v = 0
         /\ e.do \in {"close", "return"} => e.v = 0
         /\ e.do \in {"break", "continue"} => e.v \in 0 .. 2
         /\ e.do \in {"let", "clone", "contains", "get"} => e.v \in Locals
<1>1. \/ e.do = "loop" /\ e.form \in {"loop", "while"} /\ e.v = 0
      \/ e.do = "loop" /\ e.form = "for" /\ e.v \in Locals
      \/ e.do \in {"close", "return"} /\ e.form = "" /\ e.v = 0
      \/ e.do \in {"break", "continue"} /\ e.form = "" /\ e.v \in 0 .. 2
      \/ e.do \in {"let", "clone", "contains", "get"} /\ e.form = "" /\ e.v \in Locals
  <2>1. CASE e \in [do : {"loop"}, form : {"loop", "while"}, v : {0}]
    BY <2>1
  <2>2. CASE e \in [do : {"loop"}, form : {"for"}, v : Locals]
    BY <2>2
  <2>3. CASE e \in [do : {"close", "return"}, form : {""}, v : {0}]
    BY <2>3
  <2>4. CASE e \in [do : {"break"}, form : {""}, v : 0 .. 2]
    BY <2>4
  <2>5. CASE e \in [do : {"continue"}, form : {""}, v : 1 .. 2]
    <3>1. e.do = "continue" /\ e.form = "" /\ e.v \in 1 .. 2
      BY <2>5
    <3>2. \A n \in 1 .. 2 : n \in 0 .. 2
      OBVIOUS
    <3>3. e.v \in 0 .. 2
      BY <3>1, <3>2
    <3> QED BY <3>1, <3>3, Zenon
  <2>6. CASE e \in [do : {"let", "clone", "contains", "get"}, form : {""}, v : Locals]
    BY <2>6
  <2> QED BY <2>1, <2>2, <2>3, <2>4, <2>5, <2>6 DEF LoopConstructs
<1>2. e.do \in Opening <=> e.do = "loop"
  BY <1>1 DEF Opening
<1> QED BY <1>1, <1>2

\* The loops around what comes next are those that are open.
LEMMA AroundNext ==
  ASSUME NEW s, LoopBody(s), NEW e
  PROVE  AroundOf(Append(s, e), Len(s) + 1) = Open(s)
<1> DEFINE t == Append(s, e)
<1>1. s \in Seq(LoopConstructs) /\ Len(s) \in Nat
  BY DEF LoopBody
<1>2. \A n \in 1 .. Len(s) : t[n] = s[n]
  BY <1>1
<1>3. \A n \in 1 .. Len(s) : s[n].do \in Opening <=> s[n].do = "loop"
  <2>1. \A n \in 1 .. Len(s) : s[n] \in LoopConstructs
    BY <1>1
  <2> QED BY <2>1, ConstructsAre
<1>4. \A n \in 1 .. Len(s) : Scoped(t, n, Len(s) + 1) <=> Scoped(s, n, Len(s) + 1)
  BY <1>1, ScopedAppend
<1>5. DOMAIN s = 1 .. Len(s) /\ 1 .. (Len(s) + 1) - 1 = 1 .. Len(s)
  BY <1>1
<1> HIDE DEF t
<1>6. AroundOf(t, Len(s) + 1) = Open(s)
  BY <1>2, <1>3, <1>4, <1>5 DEF AroundOf, Open
<1> QED BY <1>6 DEF t

\* What a construct leaves is around it.
LEMMA EscapedInside ==
  \A s, i : LeftOf(s, i) \subseteq EscapedOf(s, i) /\ EscapedOf(s, i) \subseteq AroundOf(s, i)
BY DEF LeftOf, EscapedOf

LoopFrames == [at : Nat, form : {"loop", "while", "for"}, v : Locals \cup {0}, has_escape : BOOLEAN]

Memories == [loops : Seq(LoopFrames), outer_locals : SUBSET Locals, locals_in_loop : SUBSET Locals]

\* The frames that are marked are those of the loops that are left.
LEMMA EscapesRight ==
  ASSUME NEW s, LoopBody(s), NEW m \in Memories, Stacked(s, m.loops), NEW e \in LoopConstructs,
         e.do = "break" => e.v <= LoopDepth(m), NEW k \in 1 .. Len(m.loops)
  PROVE  k \in Escapes(m, e) <=> m.loops[k].at \in EscapedOf(Append(s, e), Len(s) + 1)
<1> DEFINE d == Len(m.loops)
           at == [j \in 1 .. d |-> m.loops[j].at]
           t == Append(s, e)
           n == Len(s) + 1
<1>1. d \in Nat /\ LoopDepth(m) = d /\ s \in Seq(LoopConstructs) /\ m.loops \in Seq(LoopFrames)
  BY DEF LoopBody, Memories, LoopDepth
<1>2. at \in [1 .. d -> Nat]
  <2>1. \A j \in 1 .. d : m.loops[j] \in LoopFrames
    BY <1>1
  <2> QED BY <2>1 DEF LoopFrames
<1>3. \A i, j \in 1 .. d : i < j => at[i] < at[j]
  BY <1>1, StackedIsOpen
<1>4. Open(s) = {at[j] : j \in 1 .. d}
  <2>1. \A o \in Open(s) : \E j \in 1 .. d : o = at[j]
    <3>1. \A o \in Open(s) : \E j \in 1 .. Len(m.loops) : o = m.loops[j].at
      BY <1>1, StackedIsOpen
    <3> QED BY <3>1
  <2>2. \A j \in 1 .. d : at[j] \in Open(s)
    BY DEF Stacked
  <2> QED BY <2>1, <2>2
<1>5. AroundOf(t, n) = Open(s) /\ t[n] = e
  BY <1>1, AroundNext
<1>6. Cardinality({o \in Open(s) : o >= at[k]}) = d - k + 1
  BY <1>1, <1>2, <1>3, <1>4, CountAbove
<1>7. at[k] \in Open(s) /\ at[k] = m.loops[k].at
  BY <1>4
<1> HIDE DEF at, t, n
<1>8. at[k] \in EscapedOf(t, n) <=>
        \/ e.do \in {"return"}
        \/ e.do = "break" /\ (e.v = 0 \/ d - k + 1 <= e.v)
  <2>1. CASE e.do = "break" /\ e.v = 0
    BY <1>5, <1>7, <2>1 DEF EscapedOf
  <2>2. CASE e.do = "break" /\ e.v # 0
    <3>1. EscapedOf(t, n) = {o_1 \in Open(s) : Cardinality({o \in Open(s) : o >= o_1}) <= e.v}
      BY <1>5, <2>2 DEF EscapedOf, LeftOf
    <3> QED BY <1>6, <1>7, <2>2, <3>1
  <2>3. CASE e.do = "return"
    BY <1>5, <1>7, <2>3 DEF EscapedOf, LeftOf
  <2>4. CASE e.do \notin {"break", "return"}
    BY <1>5, <2>4 DEF EscapedOf, LeftOf
  <2> QED BY <2>1, <2>2, <2>3, <2>4
<1>9. k \in Escapes(m, e) <=>
        \/ e.do \in {"return"}
        \/ e.do = "break" /\ (e.v = 0 \/ d - k + 1 <= e.v)
  <2>1. e.do = "break" => e.v \in 0 .. 2
    BY ConstructsAre
  <2>2. CASE e.do = "break" /\ e.v > 0
    <3>1. Escapes(m, e) = d - e.v + 1 .. d
      BY <1>1, <2>2 DEF Escapes
    <3> HIDE DEF d
    <3> QED BY <1>1, <2>1, <2>2, <3>1 DEF d
  <2>3. CASE ~(e.do = "break" /\ e.v > 0) /\ e.do \in {"return", "break"}
    <3>1. Escapes(m, e) = 1 .. d
      BY <1>1, <2>3 DEF Escapes
    <3> QED BY <2>1, <2>3, <3>1
  <2>4. CASE e.do \notin {"return", "break"}
    BY <2>4 DEF Escapes
  <2> QED BY <2>2, <2>3, <2>4
<1> QED BY <1>7, <1>8, <1>9 DEF t, n

BoundAt(s, n) == s[n].do = "let" \/ s[n].form = "for"

LetsOf(s, v) == {n \in DOMAIN s : s[n].do = "let" /\ s[n].v = v}

\* A frame tells what its loop is, and whether anything passed so far leaves it.
FrameTrue(s, f) == /\ s[f.at].do = "loop" /\ f.form = s[f.at].form /\ f.v = s[f.at].v
                   /\ f.has_escape <=> \E i \in DOMAIN s : f.at \in EscapedOf(s, i)

LoopType == /\ lint \in DOMAIN Looked
            /\ LoopBody(walked)
            /\ \A n \in DOMAIN walked : walked[n].do \in Looked[lint]
            /\ memory \in Memories
            /\ reported \subseteq DOMAIN walked

\* The memory tells the loops around the place that the visitor has come to.
LoopsKnown == /\ Stacked(walked, memory.loops)
              /\ \A k \in 1 .. Len(memory.loops) : FrameTrue(walked, memory.loops[k])

\* A local is bound once, and the memory tells where: outside of all loops, or in one.
LocalsKnown(s, m) ==
  /\ \A n \in DOMAIN s : BoundAt(s, n) => \A j \in 1 .. n - 1 : s[j].v # s[n].v
  /\ m.outer_locals = {v \in Locals : \E n \in LetsOf(s, v) : AroundOf(s, n) = {}}
  /\ m.locals_in_loop = {v \in Locals : \E n \in LetsOf(s, v) : AroundOf(s, n) # {}}

\* A loop is reported when it ends, and nothing passed has left it.
EndlessKnown ==
  lint = "non-terminating-loop" =>
    \A n \in DOMAIN walked :
      walked[n].do = "loop" =>
        (n \in reported <=> /\ n \notin Open(walked) /\ walked[n].form = "loop"
                            /\ \A i \in DOMAIN walked : n \notin EscapedOf(walked, i))

IndexedKnown ==
  lint = "iterators-over-indexing" =>
    reported = {n \in DOMAIN walked :
                  /\ walked[n].form = "for"
                  /\ \E i \in DOMAIN walked :
                       walked[i].do = "get" /\ walked[i].v = walked[n].v /\ Scoped(walked, n, i)}

LoopInv == /\ LoopType /\ LoopsKnown /\ LocalsKnown(walked, memory)
           /\ EndlessKnown /\ IndexedKnown /\ RepeatedWorkReported

\* A step of a detector, with the construct that it passes.
LoopPass(e) ==
  /\ e \in LoopConstructs /\ e.do \in Looked[lint]
  /\ e.do = "let" \/ e.form = "for" => \A n \in DOMAIN walked : walked[n].v # e.v
  /\ e.do \in {"clone", "contains", "get"} =>
       \A n \in DOMAIN walked : Binds(n, e.v) => InScope(n, Here)
  /\ e.do \in {"break", "continue"} => e.v <= LoopDepth(memory)
  /\ Pass(e, LoopStep(memory, e), LoopReports(memory, e))

LEMMA VisitIs == VisitLoops => \E e : LoopPass(e)
BY DEF VisitLoops, LoopPass

LEMMA LookedIs ==
  /\ DOMAIN Looked = {"non-terminating-loop", "clone-in-loop", "linear-scan-in-loop",
                      "iterators-over-indexing"}
  /\ Looked["non-terminating-loop"] = {"loop", "close", "return", "break", "continue"}
  /\ Looked["clone-in-loop"] = {"loop", "close", "let", "clone"}
  /\ Looked["linear-scan-in-loop"] = {"loop", "close", "let", "contains"}
  /\ Looked["iterators-over-indexing"] = {"loop", "close", "get"}
BY DEF Looked

\* What becomes of the memory, and of the frames in it.
LEMMA StepIs ==
  ASSUME NEW m \in Memories, NEW e \in LoopConstructs, e.do = "close" => Len(m.loops) > 0,
         Here \in Nat
  PROVE  LET next == LoopStep(m, e)
             d == Len(m.loops)
         IN  /\ next \in Memories
             /\ e.do = "loop" =>
                  /\ Len(next.loops) = d + 1
                  /\ next.loops[d + 1] = [at |-> Here, form |-> e.form, v |-> e.v,
                                          has_escape |-> FALSE]
             /\ e.do = "close" => Len(next.loops) = d - 1
             /\ e.do \notin {"loop", "close"} => Len(next.loops) = d
             /\ \A k \in 1 .. d : k \in 1 .. Len(next.loops) =>
                  /\ next.loops[k].at = m.loops[k].at /\ next.loops[k].form = m.loops[k].form
                  /\ next.loops[k].v = m.loops[k].v
                  /\ next.loops[k].has_escape <=> m.loops[k].has_escape \/ k \in Escapes(m, e)
             /\ e.do # "let" => /\ next.outer_locals = m.outer_locals
                                /\ next.locals_in_loop = m.locals_in_loop
             /\ e.do = "let" => IF d = 0 THEN /\ next.outer_locals = m.outer_locals \cup {e.v}
                                              /\ next.locals_in_loop = m.locals_in_loop
                                         ELSE /\ next.outer_locals = m.outer_locals
                                              /\ next.locals_in_loop = m.locals_in_loop \cup {e.v}
<1> DEFINE next == LoopStep(m, e)
           d == Len(m.loops)
<1>1. /\ m.loops \in Seq(LoopFrames) /\ d \in Nat /\ m.outer_locals \subseteq Locals
      /\ m.locals_in_loop \subseteq Locals
      /\ m = [loops |-> m.loops, outer_locals |-> m.outer_locals,
              locals_in_loop |-> m.locals_in_loop]
      /\ DOMAIN m.loops = 1 .. d /\ \A k \in 1 .. d : m.loops[k] \in LoopFrames
  BY DEF Memories
<1>2. e.do \in {"loop", "let", "clone", "contains", "get"} => e.v \in Locals \cup {0}
  BY ConstructsAre
<1>3. e.do = "loop" => e.form \in {"loop", "while", "for"}
  BY ConstructsAre
<1>4. CASE e.do = "loop"
  <2> DEFINE f == [at |-> Here, form |-> e.form, v |-> e.v, has_escape |-> FALSE]
  <2>1. f \in LoopFrames
    BY <1>2, <1>3, <1>4 DEF LoopFrames
  <2>2. next = [m EXCEPT !.loops = Append(m.loops, f)]
    BY <1>4 DEF LoopStep
  <2>3. Escapes(m, e) = {}
    BY <1>4 DEF Escapes
  <2> DEFINE fs == Append(m.loops, f)
  <2>5. /\ fs \in Seq(LoopFrames) /\ Len(fs) = d + 1 /\ fs[d + 1] = f
        /\ \A k \in 1 .. d : fs[k] = m.loops[k]
    <3> HIDE DEF f
    <3> QED BY <1>1, <2>1
  <2> HIDE DEF f, fs, next
  <2>4. /\ next.loops = fs /\ next.outer_locals = m.outer_locals
        /\ next.locals_in_loop = m.locals_in_loop /\ next \in Memories
    BY <1>1, <2>2, <2>5 DEF Memories, fs
  <2> QED BY <1>1, <1>4, <2>3, <2>4, <2>5 DEF next, f
<1>5. CASE e.do = "close"
  <2>1. next = [m EXCEPT !.loops = SubSeq(m.loops, 1, d - 1)]
    BY <1>5 DEF LoopStep, Pop
  <2>2. Escapes(m, e) = {}
    BY <1>5 DEF Escapes
  <2>3. /\ SubSeq(m.loops, 1, d - 1) \in Seq(LoopFrames) /\ Len(SubSeq(m.loops, 1, d - 1)) = d - 1
        /\ \A k \in 1 .. d - 1 : SubSeq(m.loops, 1, d - 1)[k] = m.loops[k]
    <3>1. d > 0
      BY <1>5
    <3> HIDE DEF d
    <3>2. m.loops \in Seq(LoopFrames) /\ d \in Nat /\ d = Len(m.loops)
      BY <1>1 DEF d
    <3> QED BY <3>1, <3>2
  <2> HIDE DEF next, d
  <2>4. /\ next.loops = SubSeq(m.loops, 1, d - 1) /\ next.outer_locals = m.outer_locals
        /\ next.locals_in_loop = m.locals_in_loop /\ next \in Memories
    BY <1>1, <2>1, <2>3 DEF Memories
  <2> QED BY <1>1, <1>5, <2>2, <2>3, <2>4 DEF next, d
<1>6. CASE e.do = "let"
  <2>1. next = IF d = 0 THEN [m EXCEPT !.outer_locals = m.outer_locals \cup {e.v}]
                        ELSE [m EXCEPT !.locals_in_loop = m.locals_in_loop \cup {e.v}]
    BY <1>6 DEF LoopStep, Bind, LoopDepth
  <2>2. Escapes(m, e) = {}
    BY <1>6 DEF Escapes
  <2>3. e.v \in Locals
    BY <1>6, ConstructsAre
  <2> HIDE DEF next
  <2>4. /\ next.loops = m.loops /\ next \in Memories
        /\ next.outer_locals = IF d = 0 THEN m.outer_locals \cup {e.v} ELSE m.outer_locals
        /\ next.locals_in_loop = IF d = 0 THEN m.locals_in_loop ELSE m.locals_in_loop \cup {e.v}
    BY <1>1, <2>1, <2>3 DEF Memories
  <2> QED BY <1>1, <1>6, <2>2, <2>4 DEF next
<1>7. CASE e.do \notin {"loop", "close", "let"}
  <2> DEFINE fs == [i \in DOMAIN m.loops |->
                     [m.loops[i] EXCEPT !.has_escape = m.loops[i].has_escape \/ i \in Escapes(m, e)]]
  <2>1. next = [m EXCEPT !.loops = fs]
    <3>1. next = Escape(m, e)
      BY <1>7 DEF LoopStep
    <3>2. Escape(m, e) = [m EXCEPT !.loops = fs]
      BY DEF Escape
    <3> QED BY <3>1, <3>2
  <2>2. \A i \in 1 .. d : /\ fs[i] \in LoopFrames
                          /\ fs[i].at = m.loops[i].at /\ fs[i].form = m.loops[i].form
                          /\ fs[i].v = m.loops[i].v
                          /\ fs[i].has_escape <=> m.loops[i].has_escape \/ i \in Escapes(m, e)
    <3> SUFFICES ASSUME NEW i \in 1 .. d
                 PROVE  /\ fs[i] \in LoopFrames
                        /\ fs[i].at = m.loops[i].at /\ fs[i].form = m.loops[i].form
                        /\ fs[i].v = m.loops[i].v
                        /\ fs[i].has_escape <=> m.loops[i].has_escape \/ i \in Escapes(m, e)
      OBVIOUS
    <3> DEFINE b == m.loops[i].has_escape \/ i \in Escapes(m, e)
    <3>1. fs[i] = [m.loops[i] EXCEPT !.has_escape = b]
      BY <1>1
    <3>2. b \in BOOLEAN
      OBVIOUS
    <3>3. m.loops[i] \in LoopFrames
      BY <1>1
    <3> HIDE DEF b, fs
    <3>4. /\ fs[i] \in LoopFrames /\ fs[i].at = m.loops[i].at /\ fs[i].form = m.loops[i].form
          /\ fs[i].v = m.loops[i].v /\ fs[i].has_escape = b
      BY <3>1, <3>2, <3>3 DEF LoopFrames
    <3> QED BY <3>4 DEF b
  <2>3. DOMAIN fs = 1 .. d
    BY <1>1
  <2> HIDE DEF fs, next
  <2>4. fs \in Seq(LoopFrames) /\ Len(fs) = d
    <3>1. fs \in [1 .. d -> LoopFrames]
      <4>1. fs = [i \in 1 .. d |-> fs[i]]
        BY <1>1 DEF fs
      <4> QED BY <2>2, <4>1
    <3> QED BY <1>1, <3>1
  <2>5. /\ next.loops = fs /\ next.outer_locals = m.outer_locals
        /\ next.locals_in_loop = m.locals_in_loop /\ next \in Memories
    BY <1>1, <2>1, <2>4 DEF Memories
  <2> QED BY <1>1, <1>7, <2>2, <2>4, <2>5 DEF next
<1> QED BY <1>4, <1>5, <1>6, <1>7

LEMMA PassIs ==
  ASSUME LoopInv, NEW e, LoopPass(e)
  PROVE  /\ lint' = lint /\ walked' = Append(walked, e) /\ memory' = LoopStep(memory, e)
         /\ reported' = reported \cup LoopReports(memory, e)
         /\ walked \in Seq(LoopConstructs) /\ LoopBody(walked) /\ LoopBody(walked')
         /\ Len(walked) \in Nat /\ Len(walked') = Len(walked) + 1 /\ Here = Len(walked) + 1
         /\ DOMAIN walked = 1 .. Len(walked) /\ DOMAIN walked' = 1 .. Len(walked) + 1
         /\ walked'[Len(walked) + 1] = e /\ \A n \in 1 .. Len(walked) : walked'[n] = walked[n]
         /\ memory \in Memories /\ memory.loops \in Seq(LoopFrames) /\ Len(memory.loops) \in Nat
         /\ memory' \in Memories /\ memory'.loops \in Seq(LoopFrames)
         /\ e \in LoopConstructs /\ (e.do = "close" => Len(memory.loops) > 0)
<1>1. /\ lint' = lint /\ walked' = Append(walked, e) /\ memory' = LoopStep(memory, e)
      /\ reported' = reported \cup LoopReports(memory, e)
      /\ e.do = "close" => Depth(Len(walked)) > 0
      /\ e \in LoopConstructs
  BY DEF LoopPass, Pass
<1>2. walked \in Seq(LoopConstructs) /\ memory \in Memories
  BY DEF LoopInv, LoopType, LoopBody
<1>3. memory.loops \in Seq(LoopFrames) /\ Len(memory.loops) \in Nat
  BY <1>2 DEF Memories
<1>4. e.do = "close" => Len(memory.loops) > 0
  BY <1>1, DepthIs DEF LoopInv, LoopsKnown, Stacked
<1>5. Here \in Nat /\ Here = Len(walked) + 1
  BY <1>2 DEF Here
<1>6. LoopStep(memory, e) \in Memories
  BY <1>1, <1>2, <1>4, <1>5, StepIs
<1>7. /\ Append(walked, e) \in Seq(LoopConstructs) /\ Len(walked) \in Nat
      /\ Len(Append(walked, e)) = Len(walked) + 1 /\ DOMAIN walked = 1 .. Len(walked)
      /\ DOMAIN Append(walked, e) = 1 .. Len(walked) + 1
      /\ Append(walked, e)[Len(walked) + 1] = e
      /\ \A n \in 1 .. Len(walked) : Append(walked, e)[n] = walked[n]
  BY <1>1, <1>2
<1>8. memory' \in Memories /\ memory'.loops \in Seq(LoopFrames)
  BY <1>1, <1>6 DEF Memories
<1> QED BY <1>1, <1>2, <1>3, <1>4, <1>5, <1>7, <1>8 DEF LoopBody

\* Only a loop is opened.
LEMMA OpensLoop ==
  ASSUME NEW e \in LoopConstructs
  PROVE  /\ e.do = "loop" => e.do \in Opening
         /\ e.do \notin {"loop", "close"} => e.do \notin Opening \cup {"close"}
BY ConstructsAre

LEMMA StackedNext ==
  ASSUME LoopInv, NEW e, LoopPass(e)
  PROVE  Stacked(walked', memory'.loops)
<1> DEFINE fs == memory.loops
           gs == LoopStep(memory, e).loops
<1>1. /\ walked' = Append(walked, e) /\ memory' = LoopStep(memory, e) /\ Here \in Nat
      /\ walked \in Seq(LoopConstructs) /\ memory \in Memories /\ fs \in Seq(LoopFrames)
      /\ gs \in Seq(LoopFrames) /\ Here = Len(walked) + 1
      /\ e \in LoopConstructs /\ (e.do = "close" => Len(fs) > 0)
  BY PassIs
<1>2. /\ e.do = "loop" => /\ Len(gs) = Len(fs) + 1
                          /\ gs[Len(fs) + 1] = [at |-> Here, form |-> e.form, v |-> e.v,
                                                has_escape |-> FALSE]
      /\ e.do = "close" => Len(gs) = Len(fs) - 1
      /\ e.do \notin {"loop", "close"} => Len(gs) = Len(fs)
      /\ \A k \in 1 .. Len(fs) : k \in 1 .. Len(gs) => gs[k].at = fs[k].at
  BY <1>1, StepIs
<1>3. Stacked(walked, fs) /\ Len(fs) \in Nat
  BY <1>1 DEF LoopInv, LoopsKnown
<1> HIDE DEF fs, gs
<1>4. Stacked(Append(walked, e), gs)
  <2>1. CASE e.do = "loop"
    <3>1. e.do \in Opening
      BY <1>1, <2>1, OpensLoop
    <3>2. gs[Len(gs)].at = Len(walked) + 1 /\ \A k \in 1 .. Len(fs) : gs[k].at = fs[k].at
      BY <1>1, <1>2, <1>3, <2>1
    <3> QED BY <1>1, <1>2, <1>3, <2>1, <3>1, <3>2, StackedAppend
  <2>2. CASE e.do = "close"
    <3>1. \A k \in 1 .. Len(gs) : gs[k].at = fs[k].at
      BY <1>1, <1>2, <1>3, <2>2
    <3> QED BY <1>1, <1>2, <1>3, <2>2, <3>1, StackedAppend
  <2>3. CASE e.do \notin {"loop", "close"}
    <3>1. e.do \notin Opening \cup {"close"}
      BY <1>1, <2>3, OpensLoop
    <3>2. \A k \in 1 .. Len(fs) : gs[k].at = fs[k].at
      BY <1>1, <1>2, <1>3, <2>3
    <3> QED BY <1>1, <1>2, <1>3, <2>3, <3>1, <3>2, StackedAppend
  <2> QED BY <2>1, <2>2, <2>3
<1> QED BY <1>1, <1>4 DEF gs

\* Nothing is left before it is passed.
LEMMA EscapedNext ==
  ASSUME LoopInv, NEW e, LoopPass(e)
  PROVE  /\ \A i \in 1 .. Len(walked) : /\ AroundOf(walked', i) = AroundOf(walked, i)
                                        /\ EscapedOf(walked', i) = EscapedOf(walked, i)
         /\ AroundOf(walked', Len(walked) + 1) = Open(walked)
         /\ EscapedOf(walked', Len(walked) + 1) \subseteq Open(walked)
         /\ e.do \notin {"return", "break"} => EscapedOf(walked', Len(walked) + 1) = {}
         /\ \A i \in DOMAIN walked' : Len(walked) + 1 \notin EscapedOf(walked', i)
<1> DEFINE n == Len(walked) + 1
<1>1. /\ walked' = Append(walked, e) /\ walked \in Seq(LoopConstructs) /\ LoopBody(walked)
      /\ Len(walked) \in Nat /\ DOMAIN walked' = 1 .. n /\ walked'[n] = e
  BY PassIs
<1>2. \A i \in 1 .. Len(walked) : /\ AroundOf(walked', i) = AroundOf(walked, i)
                                 /\ EscapedOf(walked', i) = EscapedOf(walked, i)
  BY <1>1, AroundBefore
<1>3. AroundOf(walked', n) = Open(walked)
  BY <1>1, AroundNext
<1>4. EscapedOf(walked', n) \subseteq Open(walked)
  BY <1>3, EscapedInside
<1>5. e.do \notin {"return", "break"} => EscapedOf(walked', n) = {}
  BY <1>1 DEF EscapedOf, LeftOf
<1>6. \A i \in 1 .. n : EscapedOf(walked', i) \subseteq 1 .. i - 1
  <2>1. \A i : AroundOf(walked', i) \subseteq 1 .. i - 1
    BY DEF AroundOf
  <2> QED BY <2>1, EscapedInside
<1>7. \A i \in 1 .. n : n \notin 1 .. i - 1
  BY <1>1
<1> QED BY <1>1, <1>2, <1>3, <1>4, <1>5, <1>6, <1>7

LEMMA LoopsKnownNext ==
  ASSUME LoopInv, NEW e, LoopPass(e)
  PROVE  LoopsKnown'
<1> DEFINE fs == memory.loops
           gs == memory'.loops
           s == walked
           t == walked'
           n == Len(walked) + 1
<1>1. /\ memory' = LoopStep(memory, e) /\ Here \in Nat /\ Here = n /\ Len(s) \in Nat
      /\ memory \in Memories /\ Len(fs) \in Nat /\ gs \in Seq(LoopFrames)
      /\ e \in LoopConstructs /\ (e.do = "close" => Len(fs) > 0)
      /\ LoopBody(s) /\ t = Append(s, e) /\ DOMAIN s = 1 .. Len(s) /\ DOMAIN t = 1 .. n
      /\ t[n] = e /\ \A i \in 1 .. Len(s) : t[i] = s[i]
  BY PassIs
<1>2. /\ e.do = "loop" => /\ Len(gs) = Len(fs) + 1
                          /\ gs[Len(fs) + 1] = [at |-> Here, form |-> e.form, v |-> e.v,
                                                has_escape |-> FALSE]
      /\ e.do = "close" => Len(gs) = Len(fs) - 1
      /\ e.do \notin {"loop", "close"} => Len(gs) = Len(fs)
      /\ \A k \in 1 .. Len(fs) : k \in 1 .. Len(gs) =>
           /\ gs[k].at = fs[k].at /\ gs[k].form = fs[k].form /\ gs[k].v = fs[k].v
           /\ gs[k].has_escape <=> fs[k].has_escape \/ k \in Escapes(memory, e)
  BY <1>1, StepIs
<1>3. Stacked(s, fs) /\ \A k \in 1 .. Len(fs) : FrameTrue(s, fs[k])
  BY DEF LoopInv, LoopsKnown
<1>4. Stacked(t, gs)
  BY StackedNext
<1>5. /\ \A i \in 1 .. Len(s) : EscapedOf(t, i) = EscapedOf(s, i)
      /\ \A i \in DOMAIN t : n \notin EscapedOf(t, i)
  BY EscapedNext
<1>6. \A k \in 1 .. Len(fs) : k \in Escapes(memory, e) <=> fs[k].at \in EscapedOf(t, n)
  <2>1. e.do = "break" => e.v <= LoopDepth(memory)
    BY DEF LoopPass
  <2> QED BY <1>1, <1>3, <2>1, EscapesRight
<1> HIDE DEF fs, gs, s, t, n
<1>7. ASSUME NEW k \in 1 .. Len(gs) PROVE FrameTrue(t, gs[k])
  <2>1. CASE k \in 1 .. Len(fs)
    <3>1. fs[k].at \in DOMAIN s
      BY <1>3, <2>1 DEF Stacked, Open
    <3>2. gs[k].at = fs[k].at /\ gs[k].form = fs[k].form /\ gs[k].v = fs[k].v
      BY <1>2, <1>7, <2>1
    <3>3. s[gs[k].at].do = "loop" /\ gs[k].form = s[gs[k].at].form /\ gs[k].v = s[gs[k].at].v
      BY <1>3, <2>1, <3>2 DEF FrameTrue
    <3>4. t[gs[k].at] = s[gs[k].at]
      BY <1>1, <3>1, <3>2
    <3>5. gs[k].has_escape <=> (\E i \in DOMAIN s : fs[k].at \in EscapedOf(s, i))
                              \/ fs[k].at \in EscapedOf(t, n)
      BY <1>2, <1>3, <1>6, <1>7, <2>1 DEF FrameTrue
    <3>6. DOMAIN t = DOMAIN s \cup {n}
      BY <1>1 DEF n
    <3>7. gs[k].has_escape <=> \E i \in DOMAIN t : gs[k].at \in EscapedOf(t, i)
      BY <1>1, <1>5, <3>2, <3>5, <3>6
    <3> QED BY <3>3, <3>4, <3>7 DEF FrameTrue
  <2>2. CASE k \notin 1 .. Len(fs)
    <3>1. e.do = "loop" /\ k = Len(fs) + 1
      BY <1>1, <1>2, <1>7, <2>2
    <3>2. gs[k] = [at |-> n, form |-> e.form, v |-> e.v, has_escape |-> FALSE]
      BY <1>1, <1>2, <3>1
    <3> QED BY <1>1, <1>5, <3>1, <3>2 DEF FrameTrue
  <2> QED BY <2>1, <2>2
<1> QED BY <1>4, <1>7 DEF LoopsKnown, gs, t

LEMMA LocalsKnownNext ==
  ASSUME LoopInv, NEW e, LoopPass(e)
  PROVE  LocalsKnown(walked', memory')
<1> DEFINE s == walked
           t == walked'
           m == memory
           next == memory'
           n == Len(s) + 1
<1>1. /\ next = LoopStep(m, e) /\ Here \in Nat /\ Len(s) \in Nat /\ s \in Seq(LoopConstructs)
      /\ m \in Memories /\ next \in Memories /\ Len(m.loops) \in Nat /\ m.loops \in Seq(LoopFrames)
      /\ e \in LoopConstructs /\ (e.do = "close" => Len(m.loops) > 0)
      /\ DOMAIN s = 1 .. Len(s) /\ DOMAIN t = 1 .. n
      /\ t[n] = e /\ \A i \in 1 .. Len(s) : t[i] = s[i]
  BY PassIs
<1>2. /\ e.do # "let" => /\ next.outer_locals = m.outer_locals
                         /\ next.locals_in_loop = m.locals_in_loop
      /\ e.do = "let" => IF Len(m.loops) = 0
                            THEN /\ next.outer_locals = m.outer_locals \cup {e.v}
                                 /\ next.locals_in_loop = m.locals_in_loop
                            ELSE /\ next.outer_locals = m.outer_locals
                                 /\ next.locals_in_loop = m.locals_in_loop \cup {e.v}
  <2> DEFINE after == LoopStep(m, e)
  <2>1. m \in Memories /\ e \in LoopConstructs /\ (e.do = "close" => Len(m.loops) > 0) /\ Here \in Nat
    BY <1>1
  <2>2. next = after
    BY <1>1
  <2> HIDE DEF s, t, m, next, n
  <2>3. e.do # "let" => /\ after.outer_locals = m.outer_locals
                        /\ after.locals_in_loop = m.locals_in_loop
    BY <2>1, StepIs
  <2>4. e.do = "let" => IF Len(m.loops) = 0
                           THEN /\ after.outer_locals = m.outer_locals \cup {e.v}
                                /\ after.locals_in_loop = m.locals_in_loop
                           ELSE /\ after.outer_locals = m.outer_locals
                                /\ after.locals_in_loop = m.locals_in_loop \cup {e.v}
    BY <2>1, StepIs
  <2> HIDE DEF after
  <2> QED BY <2>2, <2>3, <2>4
<1>3. LocalsKnown(s, m) /\ Stacked(s, m.loops)
  BY DEF LoopInv, LoopsKnown
<1>4. Len(m.loops) = 0 <=> Open(s) = {}
  <2>1. \A o \in Open(s) : \E k \in 1 .. Len(m.loops) : o = m.loops[k].at
    BY <1>1, <1>3, StackedIsOpen
  <2>2. \A k \in 1 .. Len(m.loops) : m.loops[k].at \in Open(s)
    BY <1>3 DEF Stacked
  <2> HIDE DEF s, m
  <2> QED BY <1>1, <2>1, <2>2
<1>5. /\ \A i \in 1 .. Len(s) : AroundOf(t, i) = AroundOf(s, i)
      /\ AroundOf(t, n) = Open(s)
  BY EscapedNext
<1>6. BoundAt(t, n) => \A i \in 1 .. Len(s) : s[i].v # e.v
  <2>1. e.do = "let" \/ e.form = "for" => \A i \in DOMAIN walked : walked[i].v # e.v
    BY DEF LoopPass
  <2> QED BY <1>1, <2>1 DEF BoundAt
<1>7. e.do = "let" => e.v \in Locals
  BY <1>1, ConstructsAre
<1> HIDE DEF s, t, m, next
<1>8. \A i \in DOMAIN t : BoundAt(t, i) => \A j \in 1 .. i - 1 : t[j].v # t[i].v
  <2> SUFFICES ASSUME NEW i \in DOMAIN t, BoundAt(t, i), NEW j \in 1 .. i - 1
               PROVE  t[j].v # t[i].v
    OBVIOUS
  <2>1. CASE i = n
    BY <1>1, <1>6, <2>1
  <2>2. CASE i # n
    <3>1. i \in 1 .. Len(s) /\ j \in 1 .. Len(s)
      BY <1>1, <2>2
    <3>2. BoundAt(s, i) /\ t[i] = s[i] /\ t[j] = s[j]
      BY <1>1, <3>1 DEF BoundAt
    <3> QED BY <1>1, <1>3, <3>1, <3>2 DEF LocalsKnown
  <2> QED BY <2>1, <2>2
<1>9. \A v : LetsOf(t, v) = IF e.do = "let" /\ e.v = v THEN LetsOf(s, v) \cup {n} ELSE LetsOf(s, v)
  <2>1. DOMAIN t = DOMAIN s \cup {n} /\ n \notin DOMAIN s
    BY <1>1
  <2> QED BY <1>1, <2>1 DEF LetsOf
<1>10. \A v : LetsOf(s, v) \subseteq 1 .. Len(s)
  BY <1>1 DEF LetsOf
<1>11. /\ m.outer_locals = {v \in Locals : \E i \in LetsOf(s, v) : AroundOf(s, i) = {}}
       /\ m.locals_in_loop = {v \in Locals : \E i \in LetsOf(s, v) : AroundOf(s, i) # {}}
  BY <1>3 DEF LocalsKnown
<1>12. \A v : /\ (\E i \in LetsOf(t, v) : AroundOf(t, i) = {}) <=>
                   \/ \E i \in LetsOf(s, v) : AroundOf(s, i) = {}
                   \/ e.do = "let" /\ e.v = v /\ Open(s) = {}
              /\ (\E i \in LetsOf(t, v) : AroundOf(t, i) # {}) <=>
                   \/ \E i \in LetsOf(s, v) : AroundOf(s, i) # {}
                   \/ e.do = "let" /\ e.v = v /\ Open(s) # {}
  BY <1>5, <1>9, <1>10
<1>13. next.outer_locals = {v \in Locals : \E i \in LetsOf(t, v) : AroundOf(t, i) = {}}
  <2>1. CASE e.do = "let" /\ Len(m.loops) = 0
    <3>1. next.outer_locals = m.outer_locals \cup {e.v} /\ Open(s) = {} /\ e.v \in Locals
      BY <1>2, <1>4, <1>7, <2>1
    <3>2. \A v : (\E i \in LetsOf(t, v) : AroundOf(t, i) = {}) <=>
                   (\E i \in LetsOf(s, v) : AroundOf(s, i) = {}) \/ e.v = v
      BY <1>12, <2>1, <3>1
    <3> QED BY <1>11, <3>1, <3>2
  <2>2. CASE ~(e.do = "let" /\ Len(m.loops) = 0)
    <3>1. next.outer_locals = m.outer_locals
      BY <1>2, <2>2
    <3>2. \A v : (\E i \in LetsOf(t, v) : AroundOf(t, i) = {}) <=>
                   \E i \in LetsOf(s, v) : AroundOf(s, i) = {}
      BY <1>4, <1>12, <2>2
    <3> QED BY <1>11, <3>1, <3>2
  <2> QED BY <2>1, <2>2
<1>14. next.locals_in_loop = {v \in Locals : \E i \in LetsOf(t, v) : AroundOf(t, i) # {}}
  <2>1. CASE e.do = "let" /\ Len(m.loops) # 0
    <3>1. next.locals_in_loop = m.locals_in_loop \cup {e.v} /\ Open(s) # {} /\ e.v \in Locals
      BY <1>2, <1>4, <1>7, <2>1
    <3>2. \A v : (\E i \in LetsOf(t, v) : AroundOf(t, i) # {}) <=>
                   (\E i \in LetsOf(s, v) : AroundOf(s, i) # {}) \/ e.v = v
      BY <1>12, <2>1, <3>1
    <3> QED BY <1>11, <3>1, <3>2
  <2>2. CASE ~(e.do = "let" /\ Len(m.loops) # 0)
    <3>1. next.locals_in_loop = m.locals_in_loop
      BY <1>2, <2>2
    <3>2. \A v : (\E i \in LetsOf(t, v) : AroundOf(t, i) # {}) <=>
                   \E i \in LetsOf(s, v) : AroundOf(s, i) # {}
      BY <1>4, <1>12, <2>2
    <3> QED BY <1>11, <3>1, <3>2
  <2> QED BY <2>1, <2>2
<1> QED BY <1>8, <1>13, <1>14 DEF LocalsKnown, t, next

\* Which loops are open, after one construct more.
LEMMA OpenNext ==
  ASSUME LoopInv, NEW e, LoopPass(e)
  PROVE  /\ e.do = "loop" => Open(walked') = Open(walked) \cup {Len(walked) + 1}
         /\ e.do = "close" => /\ Top(memory.loops).at \in Open(walked)
                              /\ Open(walked') = Open(walked) \ {Top(memory.loops).at}
         /\ e.do \notin {"loop", "close"} => Open(walked') = Open(walked)
<1> DEFINE fs == memory.loops
           s == walked
           t == walked'
<1>1. /\ t = Append(s, e) /\ s \in Seq(LoopConstructs) /\ fs \in Seq(LoopFrames) /\ Len(fs) \in Nat
      /\ e \in LoopConstructs /\ (e.do = "close" => Len(fs) > 0) /\ Len(s) \in Nat
      /\ Len(t) = Len(s) + 1
  BY PassIs
<1>2. /\ e.do \in Opening => Open(t) = Open(s) \cup {Len(t)}
      /\ e.do = "close" => Open(t) = {n \in Open(s) : DepthOf(s, n) < DepthOf(s, Len(s))}
      /\ e.do \notin Opening \cup {"close"} => Open(t) = Open(s)
  BY <1>1, OpenAppend
<1>3. Stacked(s, fs)
  BY DEF LoopInv, LoopsKnown
<1>4. \A n \in Open(s) : \E k \in 1 .. Len(fs) : n = fs[k].at
  BY <1>1, <1>3, StackedIsOpen
<1>5. /\ Len(fs) = DepthOf(s, Len(s))
      /\ \A k \in 1 .. Len(fs) : fs[k].at \in Open(s) /\ DepthOf(s, fs[k].at) = k
  BY <1>3 DEF Stacked
<1>6. Top(fs) = fs[Len(fs)]
  BY DEF Top
<1> HIDE DEF fs, s, t
<1>7. ASSUME e.do = "close"
      PROVE  /\ fs[Len(fs)].at \in Open(s)
             /\ Open(t) = Open(s) \ {fs[Len(fs)].at}
  <2>1. Len(fs) \in 1 .. Len(fs)
    BY <1>1, <1>7
  <2>2. \A n \in Open(s) : DepthOf(s, n) < DepthOf(s, Len(s)) <=> n # fs[Len(fs)].at
    BY <1>1, <1>4, <1>5, <2>1
  <2> QED BY <1>2, <1>5, <1>7, <2>1, <2>2
<1> QED BY <1>1, <1>2, <1>6, <1>7, OpensLoop DEF fs, s, t

LEMMA EndlessKnownNext ==
  ASSUME LoopInv, NEW e, LoopPass(e)
  PROVE  EndlessKnown'
<1> SUFFICES ASSUME lint = "non-terminating-loop", NEW n \in DOMAIN walked', walked'[n].do = "loop"
             PROVE  n \in reported' <=>
                      /\ n \notin Open(walked') /\ walked'[n].form = "loop"
                      /\ \A i \in DOMAIN walked' : n \notin EscapedOf(walked', i)
  <2>1. lint' = lint
    BY PassIs
  <2> QED BY <2>1 DEF EndlessKnown
<1> DEFINE fs == memory.loops
           s == walked
           t == walked'
           new == Len(s) + 1
           top == fs[Len(fs)]
<1>1. /\ reported' = reported \cup LoopReports(memory, e)
      /\ fs \in Seq(LoopFrames) /\ Len(fs) \in Nat
      /\ e \in LoopConstructs /\ (e.do = "close" => Len(fs) > 0) /\ Len(s) \in Nat
      /\ DOMAIN s = 1 .. Len(s) /\ DOMAIN t = 1 .. new
      /\ t[new] = e /\ \A i \in 1 .. Len(s) : t[i] = s[i]
  BY PassIs
<1>2. e.do \in {"loop", "close", "return", "break", "continue"}
  BY LookedIs DEF LoopPass
<1>3. LoopReports(memory, e) = IF e.do = "close" /\ top.form = "loop" /\ ~top.has_escape
                                 THEN {top.at} ELSE {}
  BY <1>2 DEF LoopReports, Top
<1>4. /\ e.do = "loop" => Open(t) = Open(s) \cup {new}
      /\ e.do = "close" => top.at \in Open(s) /\ Open(t) = Open(s) \ {top.at}
      /\ e.do \notin {"loop", "close"} => Open(t) = Open(s)
  BY OpenNext DEF Top
<1>5. /\ \A i \in 1 .. Len(s) : EscapedOf(t, i) = EscapedOf(s, i)
      /\ EscapedOf(t, new) \subseteq Open(s)
      /\ e.do \notin {"return", "break"} => EscapedOf(t, new) = {}
  BY EscapedNext
<1>6. /\ \A o \in DOMAIN s : s[o].do = "loop" =>
           (o \in reported <=> /\ o \notin Open(s) /\ s[o].form = "loop"
                               /\ \A i \in DOMAIN s : o \notin EscapedOf(s, i))
      /\ reported \subseteq DOMAIN s
      /\ \A k \in 1 .. Len(fs) : FrameTrue(s, fs[k])
  BY DEF LoopInv, EndlessKnown, LoopType, LoopsKnown
<1>7. Open(s) \subseteq DOMAIN s
  BY DEF Open
<1> HIDE DEF fs, s, t, top
<1>8. DOMAIN t = DOMAIN s \cup {new} /\ new \notin DOMAIN s
  BY <1>1
<1>9. CASE n = new
  <2>1. e.do = "loop"
    BY <1>1, <1>9 DEF t
  <2> QED BY <1>1, <1>3, <1>4, <1>6, <1>8, <1>9, <2>1 DEF t
<1>10. CASE n # new
  <2>1. n \in DOMAIN s /\ t[n] = s[n] /\ s[n].do = "loop"
    BY <1>1, <1>8, <1>10 DEF t
  <2>2. (\A i \in DOMAIN t : n \notin EscapedOf(t, i)) <=>
          (\A i \in DOMAIN s : n \notin EscapedOf(s, i)) /\ n \notin EscapedOf(t, new)
    BY <1>1, <1>5, <1>8
  <2>3. CASE e.do = "close" /\ n = top.at
    <3>1. FrameTrue(s, top)
      BY <1>1, <1>6, <2>3 DEF top
    <3>2. top.form = s[n].form /\ (top.has_escape <=> \E i \in DOMAIN s : n \in EscapedOf(s, i))
      BY <2>3, <3>1 DEF FrameTrue
    <3>3. n \in Open(s) /\ n \notin Open(t) /\ n \notin reported /\ n \notin EscapedOf(t, new)
      BY <1>4, <1>5, <1>6, <2>1, <2>3
    <3>4. n \in reported' <=> top.form = "loop" /\ ~top.has_escape
      BY <1>1, <1>3, <2>3, <3>3
    <3> QED BY <2>1, <2>2, <3>2, <3>3, <3>4 DEF t
  <2>4. CASE ~(e.do = "close" /\ n = top.at)
    <3>1. n \in reported' <=> n \in reported
      BY <1>1, <1>3, <2>4
    <3>2. n \in Open(t) <=> n \in Open(s)
      BY <1>2, <1>4, <1>10, <2>4
    <3> QED BY <1>5, <1>6, <2>1, <2>2, <3>1, <3>2 DEF t
  <2> QED BY <2>3, <2>4
<1> QED BY <1>9, <1>10

LEMMA IndexedKnownNext ==
  ASSUME LoopInv, NEW e, LoopPass(e)
  PROVE  IndexedKnown'
<1> DEFINE fs == memory.loops
           s == walked
           t == walked'
           new == Len(s) + 1
           Used(b, n) == \E i \in DOMAIN b : b[i].do = "get" /\ b[i].v = b[n].v /\ Scoped(b, n, i)
<1> SUFFICES ASSUME lint = "iterators-over-indexing"
             PROVE  reported' = {n \in DOMAIN t : t[n].form = "for" /\ Used(t, n)}
  <2>1. lint' = lint
    BY PassIs
  <2> QED BY <2>1 DEF IndexedKnown
<1>1. /\ reported' = reported \cup LoopReports(memory, e) /\ t = Append(s, e)
      /\ fs \in Seq(LoopFrames) /\ Len(fs) \in Nat /\ DOMAIN fs = 1 .. Len(fs)
      /\ s \in Seq(LoopConstructs) /\ e \in LoopConstructs /\ Len(s) \in Nat
      /\ DOMAIN s = 1 .. Len(s) /\ DOMAIN t = 1 .. new
      /\ t[new] = e /\ \A i \in 1 .. Len(s) : t[i] = s[i]
  BY PassIs
<1>2. e.do \in {"loop", "close", "get"}
  BY LookedIs DEF LoopPass
<1>3. LoopReports(memory, e) =
        IF e.do = "get" THEN {fs[k].at : k \in {k_1 \in DOMAIN fs : fs[k_1].form = "for" /\ fs[k_1].v = e.v}}
                        ELSE {}
  BY <1>2 DEF LoopReports, IndexedLoops
<1>4. reported = {n \in DOMAIN s : s[n].form = "for" /\ Used(s, n)}
  BY DEF LoopInv, IndexedKnown
<1>5. Stacked(s, fs) /\ \A k \in 1 .. Len(fs) : FrameTrue(s, fs[k])
  BY DEF LoopInv, LoopsKnown
<1>6. \A n \in Nat, i \in 0 .. Len(s) + 1 : Scoped(t, n, i) <=> Scoped(s, n, i)
  BY <1>1, ScopedAppend
<1>7. e.form = "for" => \A n \in DOMAIN s : s[n].v # e.v
  BY DEF LoopPass
<1>8. \A n \in DOMAIN s : s[n].form = "for" => s[n].do = "loop"
  <2>1. \A n \in DOMAIN s : s[n] \in LoopConstructs
    BY <1>1
  <2> QED BY <2>1, ConstructsAre
<1>9. e.form = "for" => e.do = "loop"
  BY <1>1, ConstructsAre
<1>10. \A n \in DOMAIN s : s[n].form = "for" => (Scoped(s, n, new) <=> n \in Open(s))
  <2>1. "loop" \in Opening
    BY DEF Opening
  <2> QED BY <1>8, <2>1 DEF Open
<1>11. \A n \in Open(s) : \E k \in 1 .. Len(fs) : n = fs[k].at
  BY <1>1, <1>5, StackedIsOpen
<1>12. \A k \in 1 .. Len(fs) : fs[k].at \in Open(s) /\ fs[k].at \in DOMAIN s
  BY <1>5 DEF Stacked, Open
<1>13. \A k \in 1 .. Len(fs) : fs[k].form = s[fs[k].at].form /\ fs[k].v = s[fs[k].at].v
  BY <1>5 DEF FrameTrue
<1> HIDE DEF fs, s, t
<1>14. LoopReports(memory, e) =
         {n \in DOMAIN s : s[n].form = "for" /\ e.do = "get" /\ e.v = s[n].v /\ Scoped(s, n, new)}
  <2>1. CASE e.do = "get"
    <3>1. \A n : n \in LoopReports(memory, e) <=>
                   \E k \in 1 .. Len(fs) : fs[k].form = "for" /\ fs[k].v = e.v /\ n = fs[k].at
      BY <1>1, <1>3, <2>1
    <3>2. \A n : n \in LoopReports(memory, e) <=>
                   n \in Open(s) /\ s[n].form = "for" /\ s[n].v = e.v
      BY <1>11, <1>12, <1>13, <3>1
    <3>3. Open(s) \subseteq DOMAIN s
      BY DEF Open
    <3> QED BY <1>10, <2>1, <3>2, <3>3
  <2>2. CASE e.do # "get"
    BY <1>3, <2>2
  <2> QED BY <2>1, <2>2
<1>15. DOMAIN t = DOMAIN s \cup {new} /\ new \notin DOMAIN s /\ DOMAIN s \subseteq Nat
  BY <1>1
<1>16. \A n \in DOMAIN s : Used(t, n) <=>
          Used(s, n) \/ (e.do = "get" /\ e.v = s[n].v /\ Scoped(s, n, new))
  <2> SUFFICES ASSUME NEW n \in DOMAIN s
               PROVE  Used(t, n) <=>
                        Used(s, n) \/ (e.do = "get" /\ e.v = s[n].v /\ Scoped(s, n, new))
    OBVIOUS
  <2>1. \A i \in DOMAIN t : Scoped(t, n, i) <=> Scoped(s, n, i)
    BY <1>1, <1>6
  <2>2. t[new] = e /\ t[n] = s[n] /\ \A i \in DOMAIN s : t[i] = s[i]
    BY <1>1
  <2> HIDE DEF new
  <2> QED BY <1>15, <2>1, <2>2
<1>17. ~(t[new].form = "for" /\ Used(t, new))
  <2> SUFFICES ASSUME e.form = "for", Used(t, new) PROVE FALSE
    BY <1>1
  <2>1. PICK i \in DOMAIN t : t[i].do = "get" /\ t[i].v = t[new].v
    OBVIOUS
  <2>2. i # new
    BY <1>1, <1>9, <2>1
  <2>3. i \in DOMAIN s /\ t[i] = s[i]
    BY <1>1, <2>2
  <2> QED BY <1>1, <1>7, <2>1, <2>3 DEF s
<1>18. \A n \in DOMAIN s : t[n] = s[n]
  BY <1>1
<1> HIDE DEF new, Used
<1>19. \A n : n \in reported' <=> n \in DOMAIN t /\ t[n].form = "for" /\ Used(t, n)
  <2>1. \A n : n \in reported' <=> n \in DOMAIN s /\ s[n].form = "for"
                                  /\ (Used(s, n) \/ (e.do = "get" /\ e.v = s[n].v /\ Scoped(s, n, new)))
    BY <1>1, <1>4, <1>14
  <2>2. \A n : n \in reported' <=> n \in DOMAIN s /\ s[n].form = "for" /\ Used(t, n)
    BY <1>16, <2>1
  <2> QED BY <1>15, <1>17, <1>18, <2>2
<1> QED BY <1>19

\* What a local is bound in the innermost loops for: what encloses the let encloses
\* its uses, and a loop around the use that began before the let is around the let.
LEMMA RepeatedNext ==
  ASSUME LoopInv, NEW e, LoopPass(e)
  PROVE  RepeatedWorkReported'
<1> DEFINE s == walked
           t == walked'
           m == memory
           new == Len(s) + 1
           bound == LetsOf(t, e.v)
           inside == {n \in bound : \E o \in Open(s) : o < n}
<1>1. /\ reported' = reported \cup LoopReports(m, e) /\ t = Append(s, e)
      /\ m.loops \in Seq(LoopFrames) /\ Len(m.loops) \in Nat /\ Here = new
      /\ s \in Seq(LoopConstructs) /\ e \in LoopConstructs /\ Len(s) \in Nat
      /\ DOMAIN s = 1 .. Len(s) /\ DOMAIN t = 1 .. new /\ Len(t) = new
      /\ t[new] = e /\ \A i \in 1 .. Len(s) : t[i] = s[i]
  BY PassIs
<1>2. Latest' = {new}
  <2>1. Latest' = IF t = <<>> THEN {} ELSE {Len(t)}
    BY DEF Latest
  <2>2. t # <<>>
    BY <1>1
  <2> HIDE DEF t, s, new
  <2> QED BY <1>1, <2>1, <2>2
<1>3. \A i : LoopsAround(i)' = AroundOf(t, i)
  BY DEF LoopsAround, InScope, Depth, AroundOf, Scoped, DepthOf, Opened, Closed
<1>4. AroundOf(t, new) = Open(s)
  BY EscapedNext
<1>5. SUFFICES ASSUME e.do \in {"clone", "contains"}
               PROVE  /\ new \in reported' => Open(s) # {} /\ inside = {}
                      /\ new \notin reported' /\ Open(s) # {} =>
                           inside # {} \/ (e.do = "clone" /\ bound = {})
  BY <1>1, <1>2, <1>3, <1>4 DEF RepeatedWorkReported, LetsOf
<1>6. Open(s) # {} <=> LoopDepth(m) > 0
  <2>1. Stacked(s, m.loops)
    BY DEF LoopInv, LoopsKnown
  <2>2. \A o \in Open(s) : \E k \in 1 .. Len(m.loops) : o = m.loops[k].at
    BY <1>1, <2>1, StackedIsOpen
  <2>3. \A k \in 1 .. Len(m.loops) : m.loops[k].at \in Open(s)
    BY <2>1 DEF Stacked
  <2> HIDE DEF s, m
  <2> QED BY <1>1, <2>2, <2>3 DEF LoopDepth
<1>7. bound = LetsOf(s, e.v)
  <2>1. e.do # "let" /\ DOMAIN t = DOMAIN s \cup {new}
    BY <1>1, <1>5
  <2> QED BY <1>1, <2>1 DEF LetsOf
<1>8. /\ \A n \in DOMAIN s : BoundAt(s, n) => \A j \in 1 .. n - 1 : s[j].v # s[n].v
      /\ m.outer_locals = {v \in Locals : \E n \in LetsOf(s, v) : AroundOf(s, n) = {}}
      /\ m.locals_in_loop = {v \in Locals : \E n \in LetsOf(s, v) : AroundOf(s, n) # {}}
  BY DEF LoopInv, LocalsKnown
<1>9. e.v \in Locals
  BY <1>1, <1>5, ConstructsAre
<1>10. \A n \in LetsOf(s, e.v) : Scoped(s, n, new)
  <2>1. \A n \in DOMAIN walked : Binds(n, e.v) => InScope(n, Here)
    BY <1>5 DEF LoopPass
  <2> QED BY <1>1, <2>1, DepthIs DEF Binds, LetsOf
<1>11. reported \subseteq DOMAIN s
  BY DEF LoopInv, LoopType
<1>12. Open(s) = {n \in DOMAIN s : s[n].do = "loop" /\ Scoped(s, n, new)}
  <2>1. \A n \in DOMAIN s : s[n] \in LoopConstructs
    BY <1>1
  <2> QED BY <2>1, ConstructsAre DEF Open
<1> HIDE DEF s, t, m
<1>13. new \in reported' <=>
         /\ LoopDepth(m) > 0
         /\ e.do = "clone" => e.v \in m.outer_locals
         /\ e.do = "contains" => e.v \notin m.locals_in_loop
  <2>1. new \notin reported
    BY <1>1, <1>11
  <2>2. new \in reported' <=> new \in LoopReports(m, e)
    BY <1>1, <2>1
  <2>3. Mark(LoopDepth(m) > 0 /\ e.v \in m.outer_locals)
          = IF LoopDepth(m) > 0 /\ e.v \in m.outer_locals THEN {new} ELSE {}
    BY <1>1 DEF Mark
  <2>4. Mark(LoopDepth(m) > 0 /\ e.v \notin m.locals_in_loop)
          = IF LoopDepth(m) > 0 /\ e.v \notin m.locals_in_loop THEN {new} ELSE {}
    BY <1>1 DEF Mark
  <2>5. CASE e.do = "clone"
    <3>1. LoopReports(m, e) = Mark(LoopDepth(m) > 0 /\ e.v \in m.outer_locals)
      BY <2>5 DEF LoopReports
    <3> QED BY <2>2, <2>3, <2>5, <3>1
  <2>6. CASE e.do = "contains"
    <3>1. LoopReports(m, e) = Mark(LoopDepth(m) > 0 /\ e.v \notin m.locals_in_loop)
      BY <2>6 DEF LoopReports
    <3>2. new \in LoopReports(m, e) <=> LoopDepth(m) > 0 /\ e.v \notin m.locals_in_loop
      BY <2>4, <3>1
    <3> QED BY <2>2, <2>6, <3>2
  <2> QED BY <1>5, <2>5, <2>6
<1>14. \A n \in LetsOf(s, e.v) : n \in 1 .. Len(s) /\ s[n].do = "let" /\ s[n].v = e.v
  BY <1>1 DEF LetsOf
<1>15. \A n \in LetsOf(s, e.v) : AroundOf(s, n) = {} <=> n \notin inside
  <2> SUFFICES ASSUME NEW n \in LetsOf(s, e.v)
               PROVE  AroundOf(s, n) = {} <=> ~\E o \in Open(s) : o < n
    BY <1>7
  <2>1. n \in Nat /\ n <= Len(s) /\ s[n].do = "let" /\ Scoped(s, n, new) /\ new \in Nat
    BY <1>1, <1>10, <1>14
  <2>2. ASSUME NEW o \in Open(s), o < n PROVE o \in AroundOf(s, n)
    <3>1. o \in 1 .. n - 1 /\ s[o].do = "loop" /\ Scoped(s, o, new)
      BY <1>1, <1>12, <2>1, <2>2
    <3>2. o .. n - 1 \subseteq o .. new - 1
      BY <1>1, <2>1, <3>1
    <3>3. Scoped(s, o, n)
      BY <3>1, <3>2 DEF Scoped
    <3> QED BY <3>1, <3>3 DEF AroundOf
  <2>3. ASSUME NEW o \in AroundOf(s, n) PROVE o \in Open(s) /\ o < n
    <3>1. o \in 1 .. n - 1 /\ s[o].do = "loop" /\ Scoped(s, o, n)
      BY DEF AroundOf
    <3>2. o \in Nat /\ o < n /\ o \in DOMAIN s
      BY <1>1, <2>1, <3>1
    <3>3. Scoped(s, o, new)
      BY <2>1, <3>1, <3>2, ScopedInside
    <3> QED BY <1>12, <3>1, <3>2, <3>3
  <2> QED BY <2>2, <2>3
<1>16. \A n, j \in LetsOf(s, e.v) : n = j
  <2> SUFFICES ASSUME NEW n \in LetsOf(s, e.v), NEW j \in LetsOf(s, e.v), j < n PROVE FALSE
    BY <1>14
  <2>1. j \in 1 .. n - 1 /\ BoundAt(s, n) /\ n \in DOMAIN s
    BY <1>1, <1>14 DEF BoundAt
  <2> QED BY <1>8, <1>14, <2>1
<1>17. inside \subseteq LetsOf(s, e.v)
  BY <1>7
<1> HIDE DEF inside, bound
<1>18. e.v \in m.outer_locals <=> \E n \in LetsOf(s, e.v) : n \notin inside
  BY <1>8, <1>9, <1>15
<1>19. e.v \in m.locals_in_loop <=> inside # {}
  BY <1>8, <1>9, <1>15, <1>17
<1>20. e.v \in m.outer_locals => inside = {}
  BY <1>16, <1>17, <1>18
<1>21. e.v \notin m.outer_locals => inside # {} \/ bound = {}
  BY <1>7, <1>18
<1>22. CASE e.do = "clone"
  <2>1. new \in reported' <=> LoopDepth(m) > 0 /\ e.v \in m.outer_locals
    BY <1>13, <1>22
  <2> QED BY <1>6, <1>20, <1>21, <1>22, <2>1
<1>23. CASE e.do = "contains"
  <2>1. new \in reported' <=> LoopDepth(m) > 0 /\ e.v \notin m.locals_in_loop
    BY <1>13, <1>23
  <2> QED BY <1>6, <1>19, <2>1
<1> QED BY <1>5, <1>22, <1>23

LEMMA LoopTypeNext ==
  ASSUME LoopInv, NEW e, LoopPass(e)
  PROVE  LoopType'
<1>1. /\ lint' = lint /\ LoopBody(walked') /\ memory' \in Memories
      /\ reported' = reported \cup LoopReports(memory, e)
      /\ Len(walked) \in Nat /\ Here = Len(walked) + 1 /\ e.do \in Looked[lint]
      /\ DOMAIN walked = 1 .. Len(walked) /\ DOMAIN walked' = 1 .. Len(walked) + 1
      /\ walked'[Len(walked) + 1] = e /\ \A n \in 1 .. Len(walked) : walked'[n] = walked[n]
      /\ memory.loops \in Seq(LoopFrames) /\ Len(memory.loops) \in Nat
      /\ DOMAIN memory.loops = 1 .. Len(memory.loops)
      /\ (e.do = "close" => Len(memory.loops) > 0)
  BY PassIs DEF LoopPass
<1>2. /\ lint \in DOMAIN Looked /\ reported \subseteq DOMAIN walked
      /\ \A n \in DOMAIN walked : walked[n].do \in Looked[lint]
  BY DEF LoopInv, LoopType
<1>3. \A k \in DOMAIN memory.loops : memory.loops[k].at \in DOMAIN walked
  BY <1>1 DEF LoopInv, LoopsKnown, Stacked, Open
<1>4. LoopReports(memory, e) \subseteq DOMAIN walked'
  <2>1. e.do = "close" => Top(memory.loops).at \in DOMAIN walked
    BY <1>1, <1>3 DEF Top
  <2>2. \A b : Mark(b) \subseteq {Len(walked) + 1}
    BY <1>1 DEF Mark
  <2>3. {memory.loops[i].at : i \in IndexedLoops(memory, e)} \subseteq DOMAIN walked
    BY <1>3 DEF IndexedLoops
  <2>4. \/ e.do = "close" /\ LoopReports(memory, e) \subseteq {Top(memory.loops).at}
        \/ LoopReports(memory, e) \subseteq {Len(walked) + 1}
        \/ LoopReports(memory, e) \subseteq {memory.loops[i].at : i \in IndexedLoops(memory, e)}
    BY <2>2 DEF LoopReports
  <2> QED BY <1>1, <2>1, <2>3, <2>4
<1>5. \A n \in DOMAIN walked' : walked'[n].do \in Looked[lint]
  <2>1. \A n \in DOMAIN walked' : n = Len(walked) + 1 \/ n \in DOMAIN walked
    BY <1>1
  <2> QED BY <1>1, <1>2, <2>1
<1> QED BY <1>1, <1>2, <1>4, <1>5 DEF LoopType

\* What is kept in mind by the detectors of loops is what the walk so far was.
LEMMA LoopInvariant == LoopSpec => [](lint \in DOMAIN Looked => LoopInv)
<1>1. (lint \in DOMAIN Looked => Begin(LoopStart)) => (lint \in DOMAIN Looked => LoopInv)
  <2> SUFFICES ASSUME lint \in DOMAIN Looked, Begin(LoopStart) PROVE LoopInv
    OBVIOUS
  <2>1. /\ lint \in DOMAIN Looked /\ walked = <<>> /\ reported = {}
        /\ memory = [loops |-> <<>>, outer_locals |-> {}, locals_in_loop |-> {}]
    BY DEF Begin, LoopStart
  <2>2. DOMAIN walked = {} /\ Len(walked) = 0
    BY <2>1
  <2>3. LoopType
    <3>1. memory \in Memories
      BY <2>1 DEF Memories
    <3>2. LoopBody(walked)
      BY <2>1 DEF LoopBody
    <3> QED BY <2>1, <2>2, <3>1, <3>2 DEF LoopType
  <2>4. LoopsKnown
    <3>1. DepthOf(walked, 0) = 0
      BY DepthZero
    <3>2. Len(memory.loops) = 0
      BY <2>1
    <3> QED BY <2>2, <3>1, <3>2 DEF LoopsKnown, Stacked
  <2>5. LocalsKnown(walked, memory)
    BY <2>1, <2>2 DEF LocalsKnown, LetsOf
  <2>6. EndlessKnown /\ IndexedKnown /\ RepeatedWorkReported
    BY <2>1, <2>2 DEF EndlessKnown, IndexedKnown, RepeatedWorkReported, Latest
  <2> QED BY <2>3, <2>4, <2>5, <2>6 DEF LoopInv
<1>2. /\ lint \in DOMAIN Looked => LoopInv
      /\ [IF lint \in DOMAIN Looked THEN VisitLoops ELSE UNCHANGED lint]_walk
      => (lint \in DOMAIN Looked => LoopInv)'
  <2> SUFFICES ASSUME lint \in DOMAIN Looked => LoopInv,
                      [IF lint \in DOMAIN Looked THEN VisitLoops ELSE UNCHANGED lint]_walk,
                      (lint \in DOMAIN Looked)'
               PROVE  LoopInv'
    OBVIOUS
  <2>3. (DOMAIN Looked)' = DOMAIN Looked
    BY DEF Looked
  <2>4. lint' = lint
    <3>1. VisitLoops => lint' = lint
      BY DEF VisitLoops, Pass
    <3> QED BY <3>1 DEF walk
  <2>5. lint \in DOMAIN Looked /\ LoopInv
    BY <2>3, <2>4
  <2>6. VisitLoops \/ UNCHANGED walk
    BY <2>5
  <2>1. CASE VisitLoops
    <3>1. PICK e : LoopPass(e)
      BY <2>1, VisitIs
    <3>2. LoopType' /\ LoopsKnown' /\ LocalsKnown(walked, memory)'
      BY <2>5, <3>1, LoopTypeNext, LoopsKnownNext, LocalsKnownNext
    <3>3. EndlessKnown' /\ IndexedKnown' /\ RepeatedWorkReported'
      BY <2>5, <3>1, EndlessKnownNext, IndexedKnownNext, RepeatedNext
    <3> QED BY <3>2, <3>3 DEF LoopInv
  <2>2. CASE UNCHANGED walk
    <3>1. lint' = lint /\ walked' = walked /\ memory' = memory /\ reported' = reported
      BY <2>2 DEF walk
    <3>2. LoopType' /\ LoopsKnown' /\ LocalsKnown(walked, memory)'
      BY <2>5, <3>1 DEF LoopInv, LoopType, LoopsKnown
    <3>3. EndlessKnown' /\ IndexedKnown'
      BY <2>5, <3>1 DEF LoopInv, EndlessKnown, IndexedKnown
    <3>4. RepeatedWorkReported'
      <4>1. Latest' = Latest /\ \A i : LoopsAround(i)' = LoopsAround(i)
        BY <3>1 DEF Latest, LoopsAround, InScope, Depth
      <4> QED BY <2>5, <3>1, <4>1 DEF LoopInv, RepeatedWorkReported
    <3> QED BY <3>2, <3>3, <3>4 DEF LoopInv
  <2> QED BY <2>1, <2>2, <2>6
<1> QED BY <1>1, <1>2, PTL DEF LoopSpec, Follows

\* In a body of any length, over any number of locals, the detectors of loops judge
\* each loop, clone, scan and index as LoopsJudged says.
THEOREM LoopsAreJudged == LoopSpec => []LoopsJudged
<1>1. (lint \in DOMAIN Looked => LoopInv) => LoopsJudged
  <2> SUFFICES ASSUME lint \in DOMAIN Looked => LoopInv PROVE LoopsJudged
    OBVIOUS
  <2> USE LookedIs
  <2>1. EndlessLoopsReported
    <3> SUFFICES ASSUME lint = "non-terminating-loop", NEW n \in DOMAIN walked,
                        walked[n].do = "loop", ~InScope(n, Here)
                 PROVE  LET exits == {i \in DOMAIN walked : n \in Left(i)}
                        IN  /\ n \in reported => /\ walked[n].form = "loop"
                                                 /\ \A i \in exits : walked[i].do = "continue"
                            /\ walked[n].form = "loop" /\ exits = {} /\ n \notin reported =>
                                 \E i \in DOMAIN walked :
                                   walked[i].do = "break" /\ walked[i].v = 0 /\ n \in LoopsAround(i)
      BY DEF EndlessLoopsReported
    <3>1. n \notin Open(walked)
      BY DepthIs DEF Open, Here
    <3>2. n \in reported <=> /\ walked[n].form = "loop"
                             /\ \A i \in DOMAIN walked : n \notin EscapedOf(walked, i)
      BY <3>1 DEF LoopInv, EndlessKnown
    <3>3. \A i : /\ LoopsAround(i) = AroundOf(walked, i)
                 /\ walked[i].do # "continue" => Left(i) = LeftOf(walked, i)
                 /\ walked[i].do = "continue" => LeftOf(walked, i) = {}
                 /\ LeftOf(walked, i) \subseteq EscapedOf(walked, i)
      BY AroundIs, EscapedInside DEF LeftOf
    <3>4. \A i : n \in EscapedOf(walked, i) /\ n \notin LeftOf(walked, i) =>
                   walked[i].do = "break" /\ walked[i].v = 0 /\ n \in AroundOf(walked, i)
      BY DEF EscapedOf
    <3>5. ASSUME n \in reported, NEW i \in DOMAIN walked, n \in Left(i)
          PROVE  walked[i].do = "continue"
      BY <3>2, <3>3, <3>5
    <3>6. ASSUME \A i \in DOMAIN walked : n \notin Left(i), NEW i \in DOMAIN walked
          PROVE  n \notin LeftOf(walked, i)
      BY <3>3, <3>6
    <3>7. ASSUME walked[n].form = "loop", n \notin reported, \A i \in DOMAIN walked : n \notin Left(i)
          PROVE  \E i \in DOMAIN walked :
                   walked[i].do = "break" /\ walked[i].v = 0 /\ n \in LoopsAround(i)
      BY <3>2, <3>3, <3>4, <3>6, <3>7
    <3> QED BY <3>2, <3>5, <3>7
  <2>2. IndexedLoopsReported
    BY DepthIs DEF LoopInv, IndexedKnown, IndexedLoopsReported
  <2>3. RepeatedWorkReported
    BY DEF LoopInv, RepeatedWorkReported
  <2> QED BY <2>1, <2>2, <2>3 DEF LoopsJudged
<1> QED BY <1>1, LoopInvariant, PTL

-----------------------------------------------------------------------------
(* The detectors of unguarded operations: division-by-zero.                   *)

DivisionBody(s) == s \in Seq(DivisionConstructs)

\* The body of o ends at n.
EndsAt(s, o, n) == /\ DepthOf(s, o - 1) = DepthOf(s, n) /\ s[o].do \in Opening
                   /\ \A j \in o .. n - 1 : DepthOf(s, j) > DepthOf(s, n)

Ends(s, n, kind, v) == /\ s[n].do = "close"
                       /\ \E o \in 1 .. n : EndsAt(s, o, n) /\ s[o].do = kind /\ s[o].v = v

\* What the construct at n says of v: that it is not zero, or not empty.
Guards(s, n, v) == (s[n].do \in {"then", "let"} /\ s[n].v = v) \/ Ends(s, n, "zero", v)

Fills(s, n, v) == Ends(s, n, "empty", v)

GuardedAt(s, i) == {v \in Locals : \E n \in 1 .. i - 1 : Guards(s, n, v) /\ Scoped(s, n, i)}

FilledAt(s, i) == {v \in Locals : \E n \in 1 .. i - 1 : Fills(s, n, v) /\ Scoped(s, n, i)}

Scopes == [opened : DivisionConstructs, inserted : SUBSET Locals, guarded : SUBSET Locals,
           nonempty : SUBSET Locals]

DivisionMemory == [guarded : SUBSET Locals, nonempty : SUBSET Locals, scopes : Seq(Scopes)]

DivisionType == /\ DivisionBody(walked) /\ reported \subseteq DOMAIN walked
                /\ memory \in DivisionMemory

\* A scope tells what held where it began.
ScopeTrue(s, n, f) == /\ f.opened = s[n]
                      /\ f.guarded = GuardedAt(s, n + 1)
                      /\ f.inserted = GuardedAt(s, n + 1) \ GuardedAt(s, n)
                      /\ f.nonempty = FilledAt(s, n)

\* One scope for each level; they are the constructs that are open.
Leveled(s, depth) ==
  /\ DepthOf(s, Len(s)) = depth
  /\ \A n \in 0 .. Len(s) : DepthOf(s, n) >= 0
  /\ \A k \in 1 .. depth : \E n \in Open(s) : DepthOf(s, n) = k

\* What the detector keeps of s: what guards a divisor here, and a true scope for
\* each construct that is open.
Keeps(m, s) == /\ m.guarded = GuardedAt(s, Len(s) + 1)
               /\ m.nonempty = FilledAt(s, Len(s) + 1)
               /\ Leveled(s, Len(m.scopes))
               /\ \A n \in Open(s) : ScopeTrue(s, n, m.scopes[DepthOf(s, n)])

DivisionInv == DivisionType /\ Keeps(memory, walked) /\ DivisionsReported

LEMMA DivisionConstructsAre ==
  ASSUME NEW e \in DivisionConstructs
  PROVE  /\ e.do \in {"block", "close", "then", "zero", "empty", "let"} \cup Divisions
         /\ e.do \in Opening <=> e.do \in {"block", "then", "zero", "empty"}
         /\ e.do \in {"block", "close"} \/ e.v \in Locals
BY DEF DivisionConstructs, Divisions, Opening

\* What is passed later does not change what was said.
LEMMA SaysBefore ==
  ASSUME NEW E, NEW s \in Seq(E), NEW e, NEW n \in 1 .. Len(s), NEW v
  PROVE  /\ Guards(Append(s, e), n, v) <=> Guards(s, n, v)
         /\ Fills(Append(s, e), n, v) <=> Fills(s, n, v)
<1> DEFINE t == Append(s, e)
<1>1. Len(s) \in Nat /\ \A i \in 1 .. Len(s) : t[i] = s[i]
  OBVIOUS
<1>2. \A i \in 0 .. Len(s) : DepthOf(t, i) = DepthOf(s, i)
  BY DepthAppend
<1> HIDE DEF t
<1>3. \A o \in 1 .. n : EndsAt(t, o, n) <=> EndsAt(s, o, n)
  BY <1>1, <1>2 DEF EndsAt
<1>4. \A kind : Ends(t, n, kind, v) <=> Ends(s, n, kind, v)
  BY <1>1, <1>3 DEF Ends
<1>5. t[n] = s[n]
  BY <1>1
<1> QED BY <1>4, <1>5 DEF Guards, Fills, t

LEMMA SaidBefore ==
  ASSUME NEW E, NEW s \in Seq(E), NEW e, NEW i \in 0 .. Len(s) + 1
  PROVE  /\ GuardedAt(Append(s, e), i) = GuardedAt(s, i)
         /\ FilledAt(Append(s, e), i) = FilledAt(s, i)
<1> DEFINE t == Append(s, e)
<1>1. \A n \in 1 .. i - 1 : n \in 1 .. Len(s) /\ n \in Nat
  OBVIOUS
<1>2. \A n \in 1 .. i - 1 : Scoped(t, n, i) <=> Scoped(s, n, i)
  BY <1>1, ScopedAppend
<1>3. \A v : \A n \in 1 .. i - 1 : /\ Guards(t, n, v) <=> Guards(s, n, v)
                                   /\ Fills(t, n, v) <=> Fills(s, n, v)
  BY <1>1, SaysBefore
<1> HIDE DEF t
<1>4. GuardedAt(t, i) = GuardedAt(s, i)
  BY <1>2, <1>3 DEF GuardedAt
<1>5. FilledAt(t, i) = FilledAt(s, i)
  BY <1>2, <1>3 DEF FilledAt
<1> QED BY <1>4, <1>5 DEF t

\* Where a construct is passed that ends no body, what held before it holds still.
LEMMA SaidOnward ==
  ASSUME NEW s, NEW i \in Nat \ {0}, s[i].do # "close"
  PROVE  /\ GuardedAt(s, i + 1) = GuardedAt(s, i) \cup
                                    {v \in Locals : s[i].do \in {"then", "let"} /\ s[i].v = v}
         /\ FilledAt(s, i + 1) = FilledAt(s, i)
<1>1. \A n \in 1 .. i : n = i \/ n \in 1 .. i - 1
  OBVIOUS
<1>2. \A n \in 1 .. i - 1 : Scoped(s, n, i + 1) <=> Scoped(s, n, i)
  <2> SUFFICES ASSUME NEW n \in 1 .. i - 1 PROVE Scoped(s, n, i + 1) <=> Scoped(s, n, i)
    OBVIOUS
  <2>1. Scoped(s, n, i) => DepthOf(s, i) >= DepthOf(s, n)
    BY ScopedInside
  <2>2. \A j : j \in n .. (i + 1) - 1 <=> j \in n .. i - 1 \/ j = i
    OBVIOUS
  <2> QED BY <2>1, <2>2 DEF Scoped
<1>3. Scoped(s, i, i + 1)
  BY DepthStep DEF Scoped
<1>4. \A v : /\ Guards(s, i, v) <=> s[i].do \in {"then", "let"} /\ s[i].v = v
             /\ ~Fills(s, i, v)
  BY DEF Guards, Fills, Ends
<1>5. (i + 1) - 1 = i /\ i \in 1 .. i /\ 1 .. i - 1 \subseteq 1 .. i
  OBVIOUS
<1>6. \A v : /\ (\E n \in 1 .. i : Guards(s, n, v) /\ Scoped(s, n, i + 1)) <=>
                  \/ \E n \in 1 .. i - 1 : Guards(s, n, v) /\ Scoped(s, n, i)
                  \/ Guards(s, i, v)
             /\ (\E n \in 1 .. i : Fills(s, n, v) /\ Scoped(s, n, i + 1)) <=>
                  \E n \in 1 .. i - 1 : Fills(s, n, v) /\ Scoped(s, n, i)
  BY <1>1, <1>2, <1>3, <1>4, <1>5
<1>7. \A v : v \in GuardedAt(s, i + 1) <=>
               v \in GuardedAt(s, i) \/ (v \in Locals /\ s[i].do \in {"then", "let"} /\ s[i].v = v)
  BY <1>4, <1>5, <1>6 DEF GuardedAt
<1>8. \A v : v \in FilledAt(s, i + 1) <=> v \in FilledAt(s, i)
  BY <1>5, <1>6 DEF FilledAt
<1> QED BY <1>7, <1>8

\* What holds in front of a body holds in it.
LEMMA SaidInside ==
  ASSUME NEW s, NEW o \in Nat \ {0}, s[o].do # "close", NEW i \in Nat, i > o, Scoped(s, o, i)
  PROVE  GuardedAt(s, o) \subseteq GuardedAt(s, i)
<1> SUFFICES ASSUME NEW v \in Locals, NEW n \in 1 .. o - 1, Guards(s, n, v), Scoped(s, n, o)
             PROVE  n \in 1 .. i - 1 /\ Scoped(s, n, i)
  BY DEF GuardedAt
<1>1. n \in Nat /\ n < o /\ n \in 1 .. i - 1
  OBVIOUS
<1> QED BY <1>1, ScopedInside

\* After a body has ended, what held in front of it holds again, and what its end says.
LEMMA SaidAfter ==
  ASSUME NEW s, NEW o \in Nat \ {0}, s[o].do # "close", NEW c \in Nat, c > o, EndsAt(s, o, c)
  PROVE  /\ GuardedAt(s, c + 1) = GuardedAt(s, o) \cup {v \in Locals : Guards(s, c, v)}
         /\ FilledAt(s, c + 1) = FilledAt(s, o) \cup {v \in Locals : Fills(s, c, v)}
<1>1. \A j \in Nat : DepthOf(s, j) \in Int
  BY DepthNext
<1>2. DepthOf(s, o - 1) = DepthOf(s, c) /\ \A j \in o .. c - 1 : DepthOf(s, j) > DepthOf(s, c)
  BY DEF EndsAt
<1>3. ASSUME NEW n \in 1 .. o - 1 PROVE Scoped(s, n, c + 1) <=> Scoped(s, n, o)
  <2>1. Scoped(s, n, c + 1) => Scoped(s, n, o)
    <3>1. \A j : j \in n .. o - 1 => j \in n .. (c + 1) - 1
      BY <1>3
    <3> QED BY <3>1 DEF Scoped
  <2>2. ASSUME Scoped(s, n, o), NEW j \in n .. (c + 1) - 1 PROVE DepthOf(s, j) >= DepthOf(s, n)
    <3>1. DepthOf(s, o - 1) >= DepthOf(s, n)
      BY <1>3, <2>2 DEF Scoped
    <3>2. j \in n .. o - 1 \/ j \in o .. c - 1 \/ j = c
      BY <1>3, <2>2
    <3>3. j \in n .. o - 1 => DepthOf(s, j) >= DepthOf(s, n)
      BY <2>2 DEF Scoped
    <3>4. j \in Nat /\ n \in Nat /\ o - 1 \in Nat
      BY <1>3, <2>2
    <3> QED BY <1>1, <1>2, <3>1, <3>2, <3>3, <3>4
  <2> QED BY <2>1, <2>2 DEF Scoped
<1>4. ASSUME NEW n \in o .. c - 1 PROVE ~Scoped(s, n, c + 1)
  <2>1. c \in n .. (c + 1) - 1 /\ n \in Nat
    BY <1>4
  <2>2. DepthOf(s, n) > DepthOf(s, c)
    BY <1>2, <1>4
  <2> QED BY <1>1, <2>1, <2>2 DEF Scoped
<1>5. Scoped(s, c, c + 1)
  BY <1>1 DEF Scoped
<1>6. \A n \in 1 .. (c + 1) - 1 : n \in 1 .. o - 1 \/ n \in o .. c - 1 \/ n = c
  OBVIOUS
<1>7. c \in 1 .. (c + 1) - 1 /\ \A n \in 1 .. o - 1 : n \in 1 .. (c + 1) - 1
  OBVIOUS
<1>8. \A v : v \in GuardedAt(s, c + 1) <=> v \in GuardedAt(s, o) \/ (v \in Locals /\ Guards(s, c, v))
  BY <1>3, <1>4, <1>5, <1>6, <1>7 DEF GuardedAt
<1>9. \A v : v \in FilledAt(s, c + 1) <=> v \in FilledAt(s, o) \/ (v \in Locals /\ Fills(s, c, v))
  BY <1>3, <1>4, <1>5, <1>6, <1>7 DEF FilledAt
<1> QED BY <1>8, <1>9

\* A construct ends one body only.
LEMMA EndsOnce ==
  ASSUME NEW s, NEW c \in Nat, NEW o \in 1 .. c, NEW p \in 1 .. c, EndsAt(s, o, c), EndsAt(s, p, c),
         s[c].do = "close"
  PROVE  o = p
<1>1. \A j \in Nat : DepthOf(s, j) \in Int
  BY DepthNext
<1>2. o # c /\ p # c
  BY DEF EndsAt, Opening
<1>3. ASSUME o < p PROVE FALSE
  <2>1. p - 1 \in o .. c - 1
    BY <1>2, <1>3
  <2>2. DepthOf(s, p - 1) > DepthOf(s, c) /\ DepthOf(s, p - 1) = DepthOf(s, c)
    BY <2>1 DEF EndsAt
  <2> QED BY <1>1, <2>2
<1>4. ASSUME p < o PROVE FALSE
  <2>1. o - 1 \in p .. c - 1
    BY <1>2, <1>4
  <2>2. DepthOf(s, o - 1) > DepthOf(s, c) /\ DepthOf(s, o - 1) = DepthOf(s, c)
    BY <2>1 DEF EndsAt
  <2> QED BY <1>1, <2>2
<1> QED BY <1>3, <1>4

LEMMA LeveledAppend ==
  ASSUME NEW E, NEW s \in Seq(E), NEW e, NEW depth \in Nat, Leveled(s, depth)
  PROVE  LET t == Append(s, e)
         IN  /\ e.do \in Opening => /\ Leveled(t, depth + 1)
                                    /\ DepthOf(t, Len(s) + 1) = depth + 1
                                    /\ Open(t) = Open(s) \cup {Len(s) + 1}
             /\ e.do = "close" /\ depth > 0 =>
                  /\ Leveled(t, depth - 1)
                  /\ Open(t) = {n \in Open(s) : DepthOf(s, n) < depth}
                  /\ \E o \in Open(s) : DepthOf(s, o) = depth /\ EndsAt(t, o, Len(s) + 1)
             /\ e.do \notin Opening \cup {"close"} => Leveled(t, depth) /\ Open(t) = Open(s)
             /\ \A n \in Open(s) : DepthOf(s, n) \in 1 .. depth /\ DepthOf(t, n) = DepthOf(s, n)
<1> DEFINE t == Append(s, e)
<1>1. /\ Len(s) \in Nat /\ Len(t) = Len(s) + 1 /\ DOMAIN s = 1 .. Len(s)
      /\ \A n \in 1 .. Len(s) : t[n] = s[n]
  OBVIOUS
<1>2. /\ \A n \in 0 .. Len(s) : DepthOf(t, n) = DepthOf(s, n)
      /\ e.do \in Opening => /\ DepthOf(t, Len(t)) = DepthOf(s, Len(s)) + 1
                             /\ Open(t) = Open(s) \cup {Len(t)}
      /\ e.do = "close" => /\ DepthOf(t, Len(t)) = DepthOf(s, Len(s)) - 1
                           /\ Open(t) = {n \in Open(s) : DepthOf(s, n) < DepthOf(s, Len(s))}
      /\ e.do \notin Opening \cup {"close"} => /\ DepthOf(t, Len(t)) = DepthOf(s, Len(s))
                                               /\ Open(t) = Open(s)
  BY OpenAppend
<1>3. /\ DepthOf(s, Len(s)) = depth
      /\ \A n \in 0 .. Len(s) : DepthOf(s, n) >= 0
      /\ \A k \in 1 .. depth : \E n \in Open(s) : DepthOf(s, n) = k
  BY DEF Leveled
<1>4. \A n \in Nat : DepthOf(s, n) \in Int
  BY DepthNext
<1>5. \A n \in Open(s) : /\ n \in 1 .. Len(s) /\ s[n].do \in Opening
                         /\ \A j \in n .. Len(s) : DepthOf(s, j) >= DepthOf(s, n)
  BY <1>1 DEF Open, Scoped
<1>6. \A n \in Open(s) : DepthOf(s, n) = DepthOf(s, n - 1) + 1
  <2> SUFFICES ASSUME NEW n \in Open(s) PROVE DepthOf(s, n) = DepthOf(s, n - 1) + 1
    OBVIOUS
  <2>1. n \in Nat \ {0} /\ s[n].do \in Opening
    BY <1>1, <1>5
  <2> QED BY <2>1, DepthStep
<1>7. \A n \in Open(s) : DepthOf(s, n) \in 1 .. depth
  <2> SUFFICES ASSUME NEW n \in Open(s) PROVE DepthOf(s, n) \in 1 .. depth
    OBVIOUS
  <2>1. n - 1 \in 0 .. Len(s) /\ n \in Nat /\ n - 1 \in Nat /\ Len(s) \in n .. Len(s)
    BY <1>1, <1>5
  <2>2. DepthOf(s, n - 1) >= 0 /\ DepthOf(s, n) <= depth
    BY <1>3, <1>5, <2>1
  <2> QED BY <1>4, <1>6, <2>1, <2>2
<1> HIDE DEF t
<1>8. \A n \in Open(s) : DepthOf(t, n) = DepthOf(s, n)
  BY <1>1, <1>2, <1>5
<1>9. \A d \in Nat : DepthOf(t, Len(t)) = d => \A n \in 0 .. Len(t) : DepthOf(t, n) >= 0
  BY <1>1, <1>2, <1>3
<1>10. CASE e.do \in Opening
  <2>1. DepthOf(t, Len(t)) = depth + 1 /\ Open(t) = Open(s) \cup {Len(t)}
    BY <1>2, <1>3, <1>10
  <2>2. \A k \in 1 .. depth + 1 : \E n \in Open(t) : DepthOf(t, n) = k
    <3>1. \A k \in 1 .. depth + 1 : k \in 1 .. depth \/ k = depth + 1
      OBVIOUS
    <3> QED BY <1>3, <1>8, <2>1, <3>1
  <2>3. Leveled(t, depth + 1)
    BY <1>9, <2>1, <2>2 DEF Leveled
  <2>4. e.do # "close"
    BY <1>10 DEF Opening
  <2> QED BY <1>1, <1>7, <1>8, <1>10, <2>1, <2>3, <2>4 DEF t
<1>11. CASE e.do = "close"
  <2>1. e.do \notin Opening
    BY <1>11 DEF Opening
  <2>2. DepthOf(t, Len(t)) = depth - 1 /\ Open(t) = {n \in Open(s) : DepthOf(s, n) < depth}
    BY <1>2, <1>3, <1>11
  <2>3. ASSUME depth > 0
        PROVE  Leveled(t, depth - 1) /\ \E o \in Open(s) : DepthOf(s, o) = depth /\ EndsAt(t, o, Len(s) + 1)
    <3>1. \A k \in 1 .. depth - 1 : \E n \in Open(t) : DepthOf(t, n) = k
      <4>1. \A k \in 1 .. depth - 1 : k \in 1 .. depth /\ k < depth
        OBVIOUS
      <4> QED BY <1>3, <1>8, <2>2, <4>1
    <3>2. Leveled(t, depth - 1)
      BY <1>9, <2>2, <2>3, <3>1 DEF Leveled
    <3>3. PICK o \in Open(s) : DepthOf(s, o) = depth
      BY <1>3, <2>3
    <3>4. o - 1 \in 0 .. Len(s) /\ o \in Nat /\ o - 1 \in Nat
      BY <1>1, <1>5
    <3>5. DepthOf(t, o - 1) = DepthOf(t, Len(t))
      BY <1>2, <1>4, <1>6, <2>2, <3>3, <3>4
    <3>6. \A j \in o .. Len(t) - 1 : DepthOf(t, j) > DepthOf(t, Len(t))
      <4> SUFFICES ASSUME NEW j \in o .. Len(t) - 1 PROVE DepthOf(t, j) > DepthOf(t, Len(t))
        OBVIOUS
      <4>1. j \in 0 .. Len(s) /\ j \in o .. Len(s) /\ j \in Nat
        BY <1>1, <3>4
      <4>2. DepthOf(s, j) >= depth /\ DepthOf(t, j) = DepthOf(s, j)
        BY <1>2, <1>5, <3>3, <4>1
      <4> QED BY <1>4, <2>2, <4>1, <4>2
    <3>7. t[o].do \in Opening
      BY <1>1, <1>5
    <3> QED BY <1>1, <3>2, <3>3, <3>5, <3>6, <3>7 DEF EndsAt
  <2> QED BY <1>7, <1>8, <1>11, <2>1, <2>2, <2>3 DEF t
<1>12. CASE e.do \notin Opening \cup {"close"}
  <2>1. DepthOf(t, Len(t)) = depth /\ Open(t) = Open(s)
    BY <1>2, <1>3, <1>12
  <2>2. Leveled(t, depth)
    BY <1>3, <1>8, <1>9, <2>1 DEF Leveled
  <2> QED BY <1>7, <1>8, <1>12, <2>1, <2>2 DEF t
<1> QED BY <1>10, <1>11, <1>12

\* A check that dominates a division is one that guards its divisor there.
ChecksRight ==
  \A i \in Nat :
    walked[i].do \in {"divide", "divide by len"} /\ walked[i].v \in Locals =>
      ((\E n \in 1 .. i - 1 : Checks(n, i)) <=>
         IF walked[i].do = "divide" THEN walked[i].v \in GuardedAt(walked, i)
                                    ELSE walked[i].v \in FilledAt(walked, i))

LEMMA Earlier == \A i \in Nat : \A n \in 1 .. i - 1 : i > n
OBVIOUS

LEMMA ChecksAreRight == ChecksRight
<1> SUFFICES ASSUME NEW i \in Nat, walked[i].do \in {"divide", "divide by len"},
                    walked[i].v \in Locals
             PROVE  (\E n \in 1 .. i - 1 : Checks(n, i)) <=>
                      IF walked[i].do = "divide" THEN walked[i].v \in GuardedAt(walked, i)
                                                 ELSE walked[i].v \in FilledAt(walked, i)
  BY DEF ChecksRight
<1>1. \A n, o : (Opens(o, n) <=> EndsAt(walked, o, n)) /\ (InScope(n, i) <=> Scoped(walked, n, i))
  BY DepthIs DEF Opens, EndsAt
<1>2. ASSUME NEW n \in 1 .. i - 1
      PROVE  Checks(n, i) <=> /\ Scoped(walked, n, i)
                              /\ IF walked[i].do = "divide" THEN Guards(walked, n, walked[i].v)
                                                             ELSE Fills(walked, n, walked[i].v)
  <2>0. i > n
    BY Earlier, Zenon
  <2>1. CASE walked[n].do = "then"
    BY <1>1, <2>0, <2>1 DEF Checks, Guards, Fills, Ends
  <2>2. CASE walked[n].do = "let"
    BY <1>1, <2>0, <2>2 DEF Checks, Guards, Fills, Ends
  <2>3. CASE walked[n].do = "close"
    BY <1>1, <2>0, <2>3 DEF Checks, Guards, Fills, Ends
  <2>4. CASE walked[n].do \notin {"then", "let", "close"}
    BY <1>1, <2>4 DEF Checks, Guards, Fills, Ends
  <2> QED BY <2>1, <2>2, <2>3, <2>4
<1>3. CASE walked[i].do = "divide"
  BY <1>2, <1>3 DEF GuardedAt
<1>4. CASE walked[i].do = "divide by len"
  BY <1>2, <1>4 DEF FilledAt
<1> QED BY <1>3, <1>4

DivisionPass(e) ==
  /\ e \in DivisionConstructs
  /\ Pass(e, DivisionStep(memory, e), Mark(DivisorIsUnsafe(memory, e)))

LEMMA VisitDivisionIs == VisitDivision => (\E e : DivisionPass(e)) /\ lint = "division-by-zero"
BY DEF VisitDivision, DivisionPass, Works

LEMMA Popped ==
  ASSUME NEW F, NEW q \in Seq(F), Len(q) > 0
  PROVE  /\ Pop(q) \in Seq(F) /\ Len(Pop(q)) = Len(q) - 1
         /\ \A k \in 1 .. Len(q) - 1 : Pop(q)[k] = q[k]
<1>1. Len(q) \in Nat /\ Len(q) - 1 \in Int /\ \A i \in 1 .. Len(q) - 1 : q[i] \in F
  OBVIOUS
<1> DEFINE p == SubSeq(q, 1, Len(q) - 1)
<1>2. /\ p \in Seq(F)
      /\ Len(p) = IF 1 <= Len(q) - 1 THEN (Len(q) - 1) - 1 + 1 ELSE 0
      /\ \A k \in 1 .. (Len(q) - 1) - 1 + 1 : p[k] = q[1 + k - 1]
  <2>1. 1 \in Int
    OBVIOUS
  <2> QED BY <1>1, <2>1, SubSeqProperties
<1> HIDE DEF p
<1>3. Len(p) = Len(q) - 1
  <2>1. ASSUME NEW n \in Nat, n > 0 PROVE (IF 1 <= n - 1 THEN (n - 1) - 1 + 1 ELSE 0) = n - 1
    BY <2>1
  <2> QED BY <1>1, <1>2, <2>1, Zenon
<1>4. \A k \in 1 .. Len(q) - 1 : p[k] = q[k]
  <2> SUFFICES ASSUME NEW k \in 1 .. Len(q) - 1 PROVE p[k] = q[k]
    OBVIOUS
  <2>1. k \in 1 .. (Len(q) - 1) - 1 + 1 /\ 1 + k - 1 = k
    BY <1>1
  <2> QED BY <1>2, <2>1
<1> QED BY <1>2, <1>3, <1>4 DEF Pop, p

\* What the detector keeps when it enters a body, and when it leaves one.
LEMMA EnterLeave ==
  ASSUME NEW m \in DivisionMemory,
         NEW e \in DivisionConstructs
  PROVE  LET next == DivisionStep(m, e)
             d == Len(m.scopes)
             top == m.scopes[d]
         IN  /\ e.do \in Opening =>
                  LET inserted == IF e.do = "then" THEN {e.v} \ m.guarded ELSE {}
                  IN  /\ next.guarded = m.guarded \cup inserted
                      /\ next.nonempty = m.nonempty
                      /\ next.scopes \in Seq(Scopes) /\ Len(next.scopes) = d + 1
                      /\ next.scopes[d + 1] = [opened |-> e, inserted |-> inserted,
                                               guarded |-> m.guarded \cup inserted,
                                               nonempty |-> m.nonempty]
                      /\ \A k \in 1 .. d : next.scopes[k] = m.scopes[k]
             /\ e.do = "close" /\ d > 0 =>
                  /\ next.guarded = ((m.guarded \cap top.guarded) \ top.inserted)
                                       \cup IF top.opened.do = "zero" THEN {top.opened.v} ELSE {}
                  /\ next.nonempty = top.nonempty \cup IF top.opened.do = "empty" THEN {top.opened.v}
                                                                               ELSE {}
                  /\ next.scopes \in Seq(Scopes) /\ Len(next.scopes) = d - 1
                  /\ \A k \in 1 .. d - 1 : next.scopes[k] = m.scopes[k]
             /\ e.do = "let" => /\ next.guarded = m.guarded \cup {e.v}
                                /\ next.nonempty = m.nonempty /\ next.scopes = m.scopes
             /\ e.do \notin Opening \cup {"close", "let"} => next = m
<1> DEFINE next == DivisionStep(m, e)
           d == Len(m.scopes)
<1>1. /\ m.scopes \in Seq(Scopes) /\ d \in Nat /\ m.guarded \subseteq Locals
      /\ m.nonempty \subseteq Locals
      /\ m = [guarded |-> m.guarded, nonempty |-> m.nonempty, scopes |-> m.scopes]
  BY DEF DivisionMemory
<1>2. CASE e.do \in Opening
  <2> DEFINE inserted == IF e.do = "then" THEN {e.v} \ m.guarded ELSE {}
             f == [opened |-> e, inserted |-> inserted, guarded |-> m.guarded \cup inserted,
                   nonempty |-> m.nonempty]
             fs == Append(m.scopes, f)
  <2>1. inserted \subseteq Locals
    BY DivisionConstructsAre
  <2>2. f \in Scopes
    <3> HIDE DEF inserted
    <3> QED BY <1>1, <2>1 DEF Scopes
  <2>3. next = [m EXCEPT !.guarded = m.guarded \cup inserted, !.scopes = fs]
    <3>1. Inserted(m, e) = inserted
      BY DEF Inserted
    <3>2. next = EnterBlock(m, e, inserted)
      <4>1. e.do \notin {"close", "let"}
        BY <1>2 DEF Opening
      <4> HIDE DEF inserted
      <4> QED BY <1>2, <3>1, <4>1 DEF DivisionStep
    <3> HIDE DEF inserted, next
    <3> QED BY <3>2 DEF EnterBlock
  <2>4. fs \in Seq(Scopes) /\ Len(fs) = d + 1 /\ fs[d + 1] = f /\ \A k \in 1 .. d : fs[k] = m.scopes[k]
    <3> HIDE DEF f
    <3> QED BY <1>1, <2>2
  <2>5. e.do \notin {"close", "let"}
    BY <1>2 DEF Opening
  <2> HIDE DEF fs, next
  <2>6. next.guarded = m.guarded \cup inserted /\ next.nonempty = m.nonempty /\ next.scopes = fs
    <3> HIDE DEF inserted
    <3> QED BY <1>1, <2>3
  <2> HIDE DEF inserted
  <2> QED BY <1>2, <2>4, <2>5, <2>6 DEF next, inserted
<1>3. CASE e.do = "close" /\ d > 0
  <2> DEFINE top == m.scopes[d]
             fs == SubSeq(m.scopes, 1, d - 1)
  <2>1. e.do \notin Opening
    BY <1>3 DEF Opening
  <2>2. next = [guarded |-> ((m.guarded \cap top.guarded) \ top.inserted)
                              \cup IF top.opened.do = "zero" THEN {top.opened.v} ELSE {},
                nonempty |-> top.nonempty \cup IF top.opened.do = "empty" THEN {top.opened.v} ELSE {},
                scopes |-> fs]
    BY <1>3, <2>1 DEF DivisionStep, LeaveBlock, Top, Pop
  <2>3. fs \in Seq(Scopes) /\ Len(fs) = d - 1 /\ \A k \in 1 .. d - 1 : fs[k] = m.scopes[k]
    <3>1. fs = Pop(m.scopes)
      BY DEF Pop
    <3>2. m.scopes \in Seq(Scopes) /\ Len(m.scopes) > 0
      BY <1>1, <1>3
    <3> HIDE DEF fs
    <3>3. /\ Pop(m.scopes) \in Seq(Scopes) /\ Len(Pop(m.scopes)) = Len(m.scopes) - 1
          /\ \A k \in 1 .. Len(m.scopes) - 1 : Pop(m.scopes)[k] = m.scopes[k]
      BY <3>2, Popped
    <3> QED BY <3>1, <3>3
  <2> HIDE DEF fs, next, top
  <2> QED BY <1>3, <2>1, <2>2, <2>3 DEF next, top
<1>4. CASE e.do = "let"
  <2>1. e.do \notin Opening
    BY <1>4 DEF Opening
  <2>2. next = [m EXCEPT !.guarded = m.guarded \cup {e.v}]
    BY <1>4, <2>1 DEF DivisionStep
  <2> QED BY <1>1, <1>4, <2>1, <2>2
<1>5. CASE e.do \notin Opening \cup {"close", "let"}
  BY <1>5 DEF DivisionStep
<1>6. CASE e.do = "close" /\ ~(d > 0)
  <2>1. e.do \notin Opening
    BY <1>6 DEF Opening
  <2> QED BY <1>6, <2>1
<1> QED BY <1>2, <1>3, <1>4, <1>5, <1>6

LEMMA DivisionKeeps ==
  ASSUME NEW s \in Seq(DivisionConstructs), NEW e \in DivisionConstructs,
         NEW m \in DivisionMemory, Keeps(m, s), e.do = "close" => DepthOf(s, Len(s)) > 0
  PROVE  DivisionStep(m, e) \in DivisionMemory /\ Keeps(DivisionStep(m, e), Append(s, e))
<1> DEFINE t == Append(s, e)
           next == DivisionStep(m, e)
           d == Len(m.scopes)
           c == Len(s) + 1
<1>1. /\ Len(s) \in Nat /\ c \in Nat \ {0} /\ Len(t) = c /\ t[c] = e
      /\ DOMAIN s = 1 .. Len(s) /\ \A n \in 1 .. Len(s) : t[n] = s[n]
  OBVIOUS
<1>2. /\ d \in Nat /\ m.guarded \subseteq Locals /\ m.nonempty \subseteq Locals
      /\ m.scopes \in Seq(Scopes)
  BY DEF DivisionMemory
<1>3. /\ m.guarded = GuardedAt(s, c) /\ m.nonempty = FilledAt(s, c)
      /\ Leveled(s, d) /\ DepthOf(s, Len(s)) = d
      /\ \A n \in Open(s) : ScopeTrue(s, n, m.scopes[DepthOf(s, n)])
  BY DEF Keeps, Leveled
<1>4. \A n \in Open(s) : /\ n \in 1 .. Len(s) /\ s[n].do \in Opening /\ s[n].do # "close"
                         /\ Scoped(s, n, c)
  BY <1>1 DEF Open, Opening
<1>5. \A i \in 0 .. c : GuardedAt(t, i) = GuardedAt(s, i) /\ FilledAt(t, i) = FilledAt(s, i)
  BY <1>1, SaidBefore
<1>6. e.do \in {"block", "close", "then", "zero", "empty", "let"} \cup Divisions
      /\ (e.do \in Opening <=> e.do \in {"block", "then", "zero", "empty"})
      /\ (e.do \in {"block", "close"} \/ e.v \in Locals)
  BY DivisionConstructsAre
<1>7. e.do \in Opening => /\ Leveled(t, d + 1)
                          /\ DepthOf(t, c) = d + 1
                          /\ Open(t) = Open(s) \cup {c}
  BY <1>2, <1>3, LeveledAppend
<1>8. e.do = "close" /\ d > 0 =>
        /\ Leveled(t, d - 1)
        /\ Open(t) = {n \in Open(s) : DepthOf(s, n) < d}
        /\ \E o \in Open(s) : DepthOf(s, o) = d /\ EndsAt(t, o, c)
  BY <1>2, <1>3, LeveledAppend
<1>9. e.do \notin Opening \cup {"close"} => Leveled(t, d) /\ Open(t) = Open(s)
  BY <1>2, <1>3, LeveledAppend
<1>10. \A n \in Open(s) : DepthOf(s, n) \in 1 .. d /\ DepthOf(t, n) = DepthOf(s, n)
  BY <1>2, <1>3, LeveledAppend
<1>11. \A f : \A n \in Open(s) : ScopeTrue(s, n, f) => ScopeTrue(t, n, f)
  <2> SUFFICES ASSUME NEW n \in Open(s), NEW f, ScopeTrue(s, n, f) PROVE ScopeTrue(t, n, f)
    OBVIOUS
  <2>1. n \in 1 .. Len(s) /\ n \in 0 .. c /\ n + 1 \in 0 .. c
    BY <1>1, <1>4
  <2> HIDE DEF t, c
  <2>2. GuardedAt(t, n) = GuardedAt(s, n) /\ FilledAt(t, n) = FilledAt(s, n)
        /\ GuardedAt(t, n + 1) = GuardedAt(s, n + 1) /\ t[n] = s[n]
    BY <1>1, <1>5, <2>1
  <2> QED BY <2>2 DEF ScopeTrue
<1>12. e.do # "close" =>
         /\ GuardedAt(t, c + 1) = m.guarded \cup {v \in Locals : e.do \in {"then", "let"} /\ e.v = v}
         /\ FilledAt(t, c + 1) = m.nonempty
  <2> HIDE DEF t, c
  <2>1. c \in 0 .. c
    BY <1>1
  <2> QED BY <1>1, <1>3, <1>5, <2>1, SaidOnward
<1> HIDE DEF t, next, d, c
<1>13. CASE e.do \in Opening
  <2> DEFINE inserted == IF e.do = "then" THEN {e.v} \ m.guarded ELSE {}
             f == [opened |-> e, inserted |-> inserted, guarded |-> m.guarded \cup inserted,
                   nonempty |-> m.nonempty]
  <2>1. /\ next.guarded = m.guarded \cup inserted /\ next.nonempty = m.nonempty
        /\ next.scopes \in Seq(Scopes) /\ Len(next.scopes) = d + 1
        /\ next.scopes[d + 1] = f
        /\ \A k \in 1 .. d : next.scopes[k] = m.scopes[k]
    BY <1>13, EnterLeave DEF next, d
  <2>2. e.do # "close" /\ e.do # "let"
    BY <1>13 DEF Opening
  <2>3. GuardedAt(t, c + 1) = m.guarded \cup inserted /\ inserted \subseteq Locals
    <3>1. CASE e.do = "then"
      BY <1>2, <1>6, <1>12, <2>2, <3>1
    <3>2. CASE e.do # "then"
      BY <1>12, <2>2, <3>2
    <3> QED BY <3>1, <3>2
  <2>4. inserted = (m.guarded \cup inserted) \ m.guarded
    OBVIOUS
  <2>5. ScopeTrue(t, c, f)
    <3>1. /\ f.opened = e /\ f.inserted = inserted /\ f.guarded = m.guarded \cup inserted
          /\ f.nonempty = m.nonempty
      OBVIOUS
    <3>2. c \in 0 .. c
      BY <1>1
    <3>3. GuardedAt(t, c) = m.guarded /\ FilledAt(t, c) = m.nonempty /\ t[c] = e
      BY <1>1, <1>3, <1>5, <3>2
    <3> HIDE DEF f, inserted
    <3> QED BY <2>3, <2>4, <3>1, <3>3 DEF ScopeTrue
  <2> HIDE DEF f
  <2>6. \A n \in Open(t) : ScopeTrue(t, n, next.scopes[DepthOf(t, n)])
    <3> SUFFICES ASSUME NEW n \in Open(t) PROVE ScopeTrue(t, n, next.scopes[DepthOf(t, n)])
      OBVIOUS
    <3>1. CASE n = c
      BY <1>7, <1>13, <2>1, <2>5, <3>1
    <3>2. CASE n \in Open(s)
      <4>1. DepthOf(s, n) \in 1 .. d /\ DepthOf(t, n) = DepthOf(s, n)
        BY <1>10, <3>2
      <4>2. next.scopes[DepthOf(t, n)] = m.scopes[DepthOf(s, n)]
        BY <2>1, <4>1
      <4> QED BY <1>3, <1>11, <3>2, <4>2
    <3> QED BY <1>7, <1>13, <3>1, <3>2
  <2>7. Keeps(next, t)
    BY <1>1, <1>7, <1>12, <1>13, <2>1, <2>2, <2>3, <2>6 DEF Keeps
  <2>8. next \in DivisionMemory
    <3>1. DivisionStep(m, e) = EnterBlock(m, e, Inserted(m, e))
      BY <1>13, <2>2 DEF DivisionStep
    <3>2. next = [guarded |-> next.guarded, nonempty |-> next.nonempty, scopes |-> next.scopes]
      BY <1>2, <3>1 DEF EnterBlock, DivisionMemory, next
    <3>3. next.guarded \subseteq Locals /\ next.nonempty \subseteq Locals
      BY <1>2, <2>1, <2>3
    <3> QED BY <2>1, <3>2, <3>3 DEF DivisionMemory
  <2> QED BY <2>7, <2>8 DEF next, t
<1>14. CASE e.do = "close"
  <2> DEFINE top == m.scopes[d]
  <2>1. d > 0
    BY <1>3, <1>14
  <2>2. /\ next.guarded = ((m.guarded \cap top.guarded) \ top.inserted)
                             \cup IF top.opened.do = "zero" THEN {top.opened.v} ELSE {}
        /\ next.nonempty = top.nonempty \cup IF top.opened.do = "empty" THEN {top.opened.v} ELSE {}
        /\ next.scopes \in Seq(Scopes) /\ Len(next.scopes) = d - 1
        /\ \A k \in 1 .. d - 1 : next.scopes[k] = m.scopes[k]
    BY <1>14, <2>1, EnterLeave DEF next, d
  <2>3. PICK o \in Open(s) : DepthOf(s, o) = d /\ EndsAt(t, o, c)
    BY <1>8, <1>14, <2>1
  <2>4. /\ o \in 1 .. Len(s) /\ o \in Nat \ {0} /\ o \in 1 .. c /\ c > o /\ o \in 0 .. c
        /\ s[o].do # "close" /\ t[o] = s[o]
        /\ Scoped(s, o, c) /\ ScopeTrue(s, o, top)
    BY <1>1, <1>3, <1>4, <2>3 DEF c
  <2>5. top.opened = s[o] /\ top.opened \in DivisionConstructs
    BY <1>1, <2>4 DEF ScopeTrue
  <2>6. /\ top.opened.do = "zero" => top.opened.v \in Locals
        /\ top.opened.do = "empty" => top.opened.v \in Locals
    BY <2>5, DivisionConstructsAre
  <2>7. /\ GuardedAt(t, c + 1) = GuardedAt(t, o) \cup {v \in Locals : Guards(t, c, v)}
        /\ FilledAt(t, c + 1) = FilledAt(t, o) \cup {v \in Locals : Fills(t, c, v)}
    BY <1>1, <2>3, <2>4, SaidAfter
  <2>8. GuardedAt(t, o) = GuardedAt(s, o) /\ FilledAt(t, o) = FilledAt(s, o)
    BY <1>5, <2>4
  <2>9. \A kind, v : Ends(t, c, kind, v) <=> top.opened.do = kind /\ top.opened.v = v
    <3>1. \A p \in 1 .. c : EndsAt(t, p, c) => p = o
      BY <1>1, <1>14, <2>3, <2>4, EndsOnce
    <3> QED BY <1>1, <1>14, <2>3, <2>4, <2>5, <3>1 DEF Ends
  <2>10. \A v : /\ Guards(t, c, v) <=> top.opened.do = "zero" /\ top.opened.v = v
                /\ Fills(t, c, v) <=> top.opened.do = "empty" /\ top.opened.v = v
    BY <1>1, <1>14, <2>9 DEF Guards, Fills
  <2>11. /\ top.guarded = GuardedAt(s, o + 1) /\ top.nonempty = FilledAt(s, o)
         /\ top.inserted = GuardedAt(s, o + 1) \ GuardedAt(s, o)
    BY <2>4 DEF ScopeTrue
  <2>12. GuardedAt(s, o) \subseteq GuardedAt(s, o + 1)
    BY <2>4, SaidOnward
  <2>13. GuardedAt(s, o) \subseteq m.guarded
    BY <1>1, <1>3, <2>4, SaidInside
  <2> HIDE DEF top
  <2>14. (m.guarded \cap top.guarded) \ top.inserted = GuardedAt(s, o)
    BY <2>11, <2>12, <2>13
  <2>15. next.guarded = GuardedAt(t, c + 1)
    <3>1. {v \in Locals : Guards(t, c, v)} = IF top.opened.do = "zero" THEN {top.opened.v} ELSE {}
      BY <2>6, <2>10
    <3> QED BY <2>2, <2>7, <2>8, <2>14, <3>1
  <2>16. next.nonempty = FilledAt(t, c + 1)
    <3>1. {v \in Locals : Fills(t, c, v)} = IF top.opened.do = "empty" THEN {top.opened.v} ELSE {}
      BY <2>6, <2>10
    <3> QED BY <2>2, <2>7, <2>8, <2>11, <3>1
  <2>17. \A n \in Open(t) : ScopeTrue(t, n, next.scopes[DepthOf(t, n)])
    <3> SUFFICES ASSUME NEW n \in Open(t) PROVE ScopeTrue(t, n, next.scopes[DepthOf(t, n)])
      OBVIOUS
    <3>1. n \in Open(s) /\ DepthOf(s, n) < d
      BY <1>8, <1>14, <2>1
    <3>2. DepthOf(s, n) \in 1 .. d - 1 /\ DepthOf(t, n) = DepthOf(s, n)
      BY <1>2, <1>10, <3>1
    <3>3. next.scopes[DepthOf(t, n)] = m.scopes[DepthOf(s, n)]
      BY <2>2, <3>2
    <3> QED BY <1>3, <1>11, <3>1, <3>3
  <2>18. Keeps(next, t)
    BY <1>1, <1>8, <1>14, <2>1, <2>2, <2>15, <2>16, <2>17 DEF Keeps
  <2>19. next \in DivisionMemory
    <3>1. e.do \notin Opening
      BY <1>14 DEF Opening
    <3>2. DivisionStep(m, e) = LeaveBlock(m)
      BY <1>14, <3>1 DEF DivisionStep
    <3>3. next = [guarded |-> next.guarded, nonempty |-> next.nonempty, scopes |-> next.scopes]
      BY <3>2 DEF LeaveBlock, next
    <3>4. next.guarded \subseteq Locals /\ next.nonempty \subseteq Locals
      BY <2>15, <2>16 DEF GuardedAt, FilledAt
    <3> QED BY <2>2, <3>3, <3>4 DEF DivisionMemory
  <2> QED BY <2>18, <2>19 DEF next, t
<1>15. CASE e.do \notin Opening \cup {"close"}
  <2>1. /\ next.scopes = m.scopes /\ next.nonempty = m.nonempty /\ next \in DivisionMemory
        /\ next.guarded = m.guarded \cup {v \in Locals : e.do \in {"then", "let"} /\ e.v = v}
    <3>1. e.do # "then"
      BY <1>15 DEF Opening
    <3>2. CASE e.do = "let"
      <4>1. next = [m EXCEPT !.guarded = m.guarded \cup {e.v}]
        BY <1>15, <3>2 DEF DivisionStep, next
      <4>2. {v \in Locals : e.do \in {"then", "let"} /\ e.v = v} = {e.v}
        BY <1>6, <3>2
      <4> QED BY <1>6, <3>2, <4>1, <4>2 DEF DivisionMemory
    <3>3. CASE e.do # "let"
      <4>1. next = m
        BY <1>15, <3>3 DEF DivisionStep, next
      <4>2. {v \in Locals : e.do \in {"then", "let"} /\ e.v = v} = {}
        BY <3>1, <3>3
      <4> QED BY <4>1, <4>2 DEF DivisionMemory
    <3> QED BY <3>2, <3>3
  <2>2. e.do # "close" /\ Open(t) = Open(s)
    BY <1>9, <1>15
  <2>3. \A n \in Open(t) : ScopeTrue(t, n, next.scopes[DepthOf(t, n)])
    BY <1>3, <1>10, <1>11, <2>1, <2>2
  <2>4. Keeps(next, t)
    BY <1>1, <1>9, <1>12, <1>15, <2>1, <2>2, <2>3 DEF Keeps, d
  <2> QED BY <2>1, <2>4 DEF next, t
<1> QED BY <1>13, <1>14, <1>15

LEMMA DivisionFollows ==
  ASSUME DivisionInv, lint = "division-by-zero", NEW e, DivisionPass(e)
  PROVE  DivisionInv'
<1>1. /\ walked \in Seq(DivisionConstructs) /\ reported \subseteq DOMAIN walked
      /\ memory \in DivisionMemory /\ Keeps(memory, walked)
  BY DEF DivisionInv, DivisionType, DivisionBody
<1>2. /\ e \in DivisionConstructs /\ walked' = Append(walked, e)
      /\ memory' = DivisionStep(memory, e)
      /\ reported' = reported \cup (IF DivisorIsUnsafe(memory, e) THEN {Here} ELSE {})
      /\ e.do = "close" => DepthOf(walked, Len(walked)) > 0
  BY DepthIs DEF DivisionPass, Pass, Mark
<1>3. memory' \in DivisionMemory /\ Keeps(memory', walked')
  BY <1>1, <1>2, DivisionKeeps
<1>4. /\ Len(walked) \in Nat /\ Len(walked') = Here /\ walked'[Here] = e /\ Here \in Nat
      /\ walked' \in Seq(DivisionConstructs) /\ DOMAIN walked = 1 .. Len(walked)
      /\ DOMAIN walked' = 1 .. Here /\ walked' # <<>>
  BY <1>1, <1>2 DEF Here
<1>5. DivisionType'
  <2>1. reported' \subseteq DOMAIN walked'
    BY <1>1, <1>2, <1>4 DEF Here
  <2> QED BY <1>3, <1>4, <2>1 DEF DivisionType, DivisionBody
<1>6. DivisionsReported'
  <2>1. Latest' = {Here}
    BY <1>4 DEF Latest
  <2>2. ChecksRight'
    BY ChecksAreRight, PTL
  <2>3. GuardedAt(walked', Here) = memory.guarded /\ FilledAt(walked', Here) = memory.nonempty
    <3>1. Here \in 0 .. Len(walked) + 1
      BY <1>4 DEF Here
    <3> QED BY <1>1, <1>2, <3>1, SaidBefore DEF Keeps, Here
  <2>4. Here \notin reported
    BY <1>1, <1>4 DEF Here
  <2>5. Here \in reported' <=> DivisorIsUnsafe(memory, e)
    BY <1>2, <2>4
  <2>6. ASSUME NEW i \in Latest', walked'[i].do \in Divisions
        PROVE  i \in reported' <=> /\ walked'[i].do # "divide in condition"
                                  /\ ~\E n \in 1 .. i - 1 : Checks(n, i)'
    <3>1. i = Here /\ walked'[i] = e /\ i \in Nat
      BY <1>4, <2>1
    <3>c. CASE e.do = "divide in condition"
      BY <2>5, <3>1, <3>c DEF DivisorIsUnsafe
    <3> SUFFICES ASSUME e.do \in {"divide", "divide by len"}
                 PROVE  i \in reported' <=> ~\E n \in 1 .. i - 1 : Checks(n, i)'
      BY <2>6, <3>1, <3>c DEF Divisions
    <3>2. e.v \in Locals /\ e.do \in {"divide", "divide by len"}
      BY <1>2, <2>6, <3>1, DivisionConstructsAre
    <3>3. (\E n \in 1 .. i - 1 : Checks(n, i)') <=>
            IF e.do = "divide" THEN e.v \in GuardedAt(walked', i) ELSE e.v \in FilledAt(walked', i)
      BY <2>2, <3>1, <3>2 DEF ChecksRight
    <3> QED BY <2>3, <2>5, <3>1, <3>2, <3>3 DEF DivisorIsUnsafe
  <2> QED BY <2>6 DEF DivisionsReported
<1> QED BY <1>3, <1>5, <1>6 DEF DivisionInv

-----------------------------------------------------------------------------
(* The detectors of unguarded operations: unsafe-unwrap and unsafe-expect.    *)

UnwrapFrames == [cond : Conditions, in_else : BOOLEAN, others : SUBSET Present]

UnwrapMemory == [conditional : SUBSET UNION Conditions, checked : SUBSET Locals,
                 frames : Seq(UnwrapFrames), reach : SUBSET Present, panics : SUBSET Nat]

\* The visitor has seen the condition of the k-th frame, and is still under it.
Seen(fs, k) == k \in 1 .. Len(fs) /\ \A j \in 1 .. k : ~fs[j].in_else

\* What a `?` proves at a depth of k or more.
Tried(s, k) == {v \in Locals : \E n \in 1 .. Len(s) : /\ s[n].do = "try" /\ s[n].v = v
                                                      /\ DepthOf(s, n) >= k}

\* What the visitor learnt from a `?` before it came to an else branch.
Hidden(s, fs) == UNION {Tried(s, k) : k \in {k \in 1 .. Len(fs) : fs[k].in_else}}

\* What the conditions from the k-th on say is there.
Safes(fs, k) == UNION {Safe(fs[j].cond) : j \in {j \in k .. Len(fs) : Seen(fs, j)}}

Misled(s, n, i) == \/ s[n].do = "if" /\ Cardinality(s[n].v) > 1
                   \/ s[n].do = "return" /\ DepthOf(s, n) > 1
                   \/ s[n].do = "try" /\ ~Scoped(s, n, i)

Trusty(s) == ~\E n \in 1 .. Len(s) : Misled(s, n, Len(s) + 1)

\* What is checked is there, here and where the conditions of the open `if`s fail.
CheckedHere(m, s) == \A v \in m.checked \ Hidden(s, m.frames), p \in m.reach : p[v]

CheckedAside(m, s) ==
  \A k \in 1 .. Len(m.frames) :
    \A v \in m.checked \ (Safes(m.frames, k) \cup Hidden(s, m.frames) \cup Tried(s, k)) :
      \A p \in m.frames[k].others : p[v]

\* There is an else at that depth, whose branch has not ended.
ElseFor(s, k) ==
  \E n \in 1 .. Len(s) : s[n].do = "else" /\ DepthOf(s, n) = k /\ Scoped(s, n, Len(s) + 1)

ElsesPassed(s, fs) == \A k \in 1 .. Len(fs) : fs[k].in_else => ElseFor(s, k)

\* The others of an `if` are the values for which its condition fails.
OthersFail(fs) ==
  \A k \in 1 .. Len(fs) :
    ~fs[k].in_else =>
      \A p \in fs[k].others, c \in fs[k].cond : p[c[2]] # (c[1] = "is_some")

ConditionsOpen(m) == m.conditional \subseteq
                       UNION {m.frames[k].cond : k \in {k \in 1 .. Len(m.frames) : Seen(m.frames, k)}}

Believes(m, s) == /\ Len(m.frames) = DepthOf(s, Len(s))
                  /\ m.panics \subseteq 1 .. Len(s)
                  /\ ElsesPassed(s, m.frames) /\ OthersFail(m.frames) /\ ConditionsOpen(m)
                  /\ Trusty(s) => CheckedHere(m, s) /\ CheckedAside(m, s)

UnwrapType == /\ walked \in Seq(UnwrapConstructs) /\ reported \subseteq DOMAIN walked
              /\ memory \in UnwrapMemory

UnwrapInv == UnwrapType /\ Believes(memory, walked) /\ UnwrapsReported

LEMMA UnwrapConstructsAre ==
  ASSUME NEW e \in UnwrapConstructs
  PROVE  /\ e.do \in {"if", "else", "close", "return", "try", "unwrap", "test"}
         /\ e.do \in Opening <=> e.do = "if"
         /\ e.do = "if" => e.v \in Conditions
         /\ e.do \in {"try", "unwrap", "test"} => e.v \in Locals
BY DEF UnwrapConstructs, Opening

LEMMA FewAreOne ==
  ASSUME NEW S, IsFiniteSet(S), ~(Cardinality(S) > 1)
  PROVE  \A c, d \in S : c = d
<1> SUFFICES ASSUME NEW c \in S, NEW d \in S, c # d PROVE FALSE
  OBVIOUS
<1>1. IsFiniteSet({c}) /\ Cardinality({c}) = 1
  BY FS_Singleton
<1>2. IsFiniteSet({c} \cup {d}) /\ Cardinality({c} \cup {d}) = 1 + 1
  <2>1. d \notin {c}
    OBVIOUS
  <2> QED BY <1>1, <2>1, FS_AddElement
<1>3. {c} \cup {d} \subseteq S
  OBVIOUS
<1>4. Cardinality({c} \cup {d}) <= Cardinality(S) /\ Cardinality(S) \in Nat
  BY <1>3, FS_Subset, FS_CardinalityType
<1> QED BY <1>2, <1>4

LEMMA ConditionsAre ==
  ASSUME NEW cond \in Conditions
  PROVE  /\ Safe(cond) \subseteq Locals /\ Halting(cond) \subseteq Locals
         /\ \A c \in cond : c[2] \in Locals
         /\ ~(Cardinality(cond) > 1) => \A c, d \in cond : c = d
<1>1. \A c \in cond : c[2] \in Locals
  BY DEF Conditions
<1>2. IsFiniteSet(cond)
  <2>1. CASE cond \in {{<<c, v>>} : c \in {"is_some", "is_none"}, v \in Locals}
    <3>1. PICK c, v : cond = {<<c, v>>}
      BY <2>1
    <3> QED BY <3>1, FS_Singleton
  <2>2. CASE cond \in {{<<c, v>> : v \in Locals} : c \in {"is_some", "is_none"}}
    <3>1. PICK c : cond = {<<c, v>> : v \in Locals}
      BY <2>2
    <3> DEFINE f == [v \in Locals |-> <<c, v>>]
    <3>2. f \in Surjection(Locals, cond)
      BY <3>1 DEF Surjection
    <3> HIDE DEF f
    <3> QED BY <3>2, LocalsAssumption, FS_Surjection
  <2>3. CASE cond = {}
    BY <2>3, FS_EmptySet
  <2> QED BY <2>1, <2>2, <2>3 DEF Conditions
<1>3. ~(Cardinality(cond) > 1) => \A c, d \in cond : c = d
  BY <1>2, FewAreOne
<1> QED BY <1>1, <1>3 DEF Safe, Halting

LEMMA TriedAppend ==
  ASSUME NEW s \in Seq(UnwrapConstructs), NEW e \in UnwrapConstructs, NEW k \in Nat
  PROVE  \A v : v \in Tried(Append(s, e), k) <=>
                  \/ v \in Tried(s, k)
                  \/ e.do = "try" /\ e.v = v /\ DepthOf(Append(s, e), Len(s) + 1) >= k
<1> DEFINE t == Append(s, e)
           c == Len(s) + 1
<1>1. /\ Len(s) \in Nat /\ Len(t) = c /\ t[c] = e
      /\ \A n \in 1 .. Len(s) : t[n] = s[n] /\ n \in 1 .. c
      /\ \A n \in 1 .. c : n = c \/ n \in 1 .. Len(s)
      /\ c \in 1 .. c
  OBVIOUS
<1>2. \A n \in 1 .. Len(s) : DepthOf(t, n) = DepthOf(s, n)
  BY DepthAppend
<1>3. e.do = "try" => e.v \in Locals
  BY UnwrapConstructsAre
<1> HIDE DEF t, c
<1> QED BY <1>1, <1>2, <1>3 DEF Tried, t, c

\* Whoever trusts the detector after a construct, did so before.
LEMMA TrustedBefore ==
  ASSUME NEW s \in Seq(UnwrapConstructs), NEW e \in UnwrapConstructs, Trusty(Append(s, e))
  PROVE  /\ Trusty(s)
         /\ ~Misled(Append(s, e), Len(s) + 1, Len(s) + 2)
         /\ e.do = "close" => Tried(s, DepthOf(s, Len(s))) = {}
<1> DEFINE t == Append(s, e)
           c == Len(s) + 1
<1>1. /\ Len(s) \in Nat /\ Len(t) = c /\ t[c] = e
      /\ \A n \in 1 .. Len(s) : t[n] = s[n] /\ n \in 1 .. c /\ n \in Nat
      /\ c \in 1 .. c /\ Len(s) + 2 = c + 1 /\ c \in 0 .. Len(s) + 1
  OBVIOUS
<1>2. \A n \in 0 .. Len(s) : DepthOf(t, n) = DepthOf(s, n)
  BY DepthAppend
<1>3. \A n \in 1 .. Len(s) : Scoped(t, n, c) <=> Scoped(s, n, c)
  BY <1>1, ScopedAppend
<1> HIDE DEF t, c
<1>4. \A n \in 1 .. Len(s) : Scoped(t, n, c + 1) => Scoped(t, n, c) /\ DepthOf(t, c) >= DepthOf(t, n)
  <2> SUFFICES ASSUME NEW n \in 1 .. Len(s), Scoped(t, n, c + 1)
               PROVE  Scoped(t, n, c) /\ DepthOf(t, c) >= DepthOf(t, n)
    OBVIOUS
  <2>1. c \in n .. (c + 1) - 1 /\ \A j \in n .. c - 1 : j \in n .. (c + 1) - 1
    BY <1>1 DEF c
  <2> QED BY <2>1 DEF Scoped
<1>5. \A n \in 1 .. c : ~Misled(t, n, c + 1)
  BY <1>1 DEF Trusty, t
<1>6. ASSUME NEW n \in 1 .. Len(s) PROVE ~Misled(s, n, c)
  <2>1. n \in 1 .. c /\ n \in 0 .. Len(s)
    BY <1>1
  <2> QED BY <1>1, <1>2, <1>3, <1>4, <1>5, <2>1 DEF Misled
<1>7. ASSUME e.do = "close", NEW v \in Tried(s, DepthOf(s, Len(s))) PROVE FALSE
  <2>1. PICK n \in 1 .. Len(s) : s[n].do = "try" /\ DepthOf(s, n) >= DepthOf(s, Len(s))
    BY DEF Tried
  <2>2. DepthOf(t, c) = DepthOf(s, Len(s)) - 1
    BY <1>1, <1>7, OpenAppend DEF t
  <2>3. DepthOf(t, n) = DepthOf(s, n) /\ DepthOf(s, n) \in Int /\ DepthOf(s, Len(s)) \in Int
        /\ t[n].do = "try" /\ n \in 1 .. c
    <3>1. n \in 0 .. Len(s) /\ n \in Nat
      OBVIOUS
    <3> QED BY <1>1, <1>2, <2>1, <3>1, DepthNext
  <2>4. ~Scoped(t, n, c + 1)
    BY <1>4, <2>1, <2>2, <2>3
  <2> QED BY <1>5, <2>3, <2>4 DEF Misled
<1>8. ~Misled(t, c, c + 1)
  BY <1>1, <1>5
<1> QED BY <1>1, <1>6, <1>7, <1>8 DEF Trusty, t, c

\* An else stays until its `if` ends.
LEMMA ElseStays ==
  ASSUME NEW s \in Seq(UnwrapConstructs), NEW e \in UnwrapConstructs
  PROVE  /\ \A k \in Nat : ElseFor(s, k) /\ k <= DepthOf(Append(s, e), Len(s) + 1)
                             => ElseFor(Append(s, e), k)
         /\ e.do = "else" => ElseFor(Append(s, e), DepthOf(Append(s, e), Len(s) + 1))
<1> DEFINE t == Append(s, e)
           c == Len(s) + 1
<1>1. /\ Len(s) \in Nat /\ Len(t) = c /\ t[c] = e /\ c \in Nat
      /\ \A n \in 1 .. Len(s) : t[n] = s[n] /\ n \in 1 .. c /\ n \in Nat /\ n \in 0 .. Len(s)
      /\ c \in 1 .. c /\ c \in 0 .. Len(s) + 1
  OBVIOUS
<1>2. \A n \in 0 .. Len(s) : DepthOf(t, n) = DepthOf(s, n)
  BY DepthAppend
<1>3. \A n \in 1 .. Len(s) : Scoped(t, n, c) <=> Scoped(s, n, c)
  BY <1>1, ScopedAppend
<1>4. \A n \in Nat : DepthOf(t, n) \in Int
  BY DepthNext
<1> HIDE DEF t, c
<1>5. ASSUME NEW k \in Nat, ElseFor(s, k), k <= DepthOf(t, c) PROVE ElseFor(t, k)
  <2>1. PICK n \in 1 .. Len(s) : s[n].do = "else" /\ DepthOf(s, n) = k /\ Scoped(s, n, c)
    BY <1>5 DEF ElseFor, c
  <2>2. Scoped(t, n, c) /\ DepthOf(t, n) = k
    BY <1>1, <1>2, <1>3, <2>1
  <2>3. \A j \in n .. (c + 1) - 1 : j = c \/ j \in n .. c - 1
    BY <1>1
  <2>4. Scoped(t, n, c + 1)
    BY <1>5, <2>2, <2>3 DEF Scoped
  <2> QED BY <1>1, <2>1, <2>2, <2>4 DEF ElseFor
<1>6. ASSUME e.do = "else" PROVE ElseFor(t, DepthOf(t, c))
  <2>1. Scoped(t, c, c + 1)
    BY <1>1, <1>4 DEF Scoped
  <2> QED BY <1>1, <1>6, <2>1 DEF ElseFor
<1> QED BY <1>5, <1>6 DEF t, c

LEMMA BlindIs == \A m : Blind(m) <=> \E k \in DOMAIN m.frames : m.frames[k].in_else
BY DEF Blind

LEMMA HiddenIs ==
  \A s, fs, v : v \in Hidden(s, fs) <=>
                      \E k \in 1 .. Len(fs) : fs[k].in_else /\ v \in Tried(s, k)
BY DEF Hidden

LEMMA SafesAre ==
  \A fs, k, v : v \in Safes(fs, k) <=>
                      \E j \in k .. Len(fs) : Seen(fs, j) /\ v \in Safe(fs[j].cond)
BY DEF Safes

LEMMA ConditionsOpenIs ==
  \A m : ConditionsOpen(m) <=>
           \A c \in m.conditional :
             \E k \in 1 .. Len(m.frames) : Seen(m.frames, k) /\ c \in m.frames[k].cond
BY DEF ConditionsOpen

LEMMA SatisfyIs ==
  ASSUME NEW reach, NEW cond \in Conditions
  PROVE  /\ Satisfy(reach, cond) \subseteq reach
         /\ \A p \in reach \ Satisfy(reach, cond) : \A c \in cond : p[c[2]] # (c[1] = "is_some")
         /\ ~(Cardinality(cond) > 1) => \A v \in Safe(cond) : \A p \in Satisfy(reach, cond) : p[v]
<1>1. ASSUME ~(Cardinality(cond) > 1), NEW v \in Safe(cond), NEW p \in Satisfy(reach, cond)
      PROVE  p[v]
  <2>1. PICK c \in cond : c[1] = "is_some" /\ c[2] = v
    BY DEF Safe
  <2>2. PICK d \in cond : p[d[2]] = (d[1] = "is_some")
    BY DEF Satisfy
  <2>3. c = d
    BY <1>1, ConditionsAre
  <2> QED BY <2>1, <2>2, <2>3
<1> QED BY <1>1 DEF Satisfy

LEMMA SatisfySome ==
  ASSUME NEW reach \in SUBSET Present, NEW v \in Locals
  PROVE  \A p : p \in Satisfy(reach, {<<"is_some", v>>}) <=> p \in reach /\ p[v]
<1> SUFFICES ASSUME NEW p \in reach PROVE p \in Satisfy(reach, {<<"is_some", v>>}) <=> p[v]
  BY DEF Satisfy
<1> DEFINE c == <<"is_some", v>>
<1>1. p[v] \in BOOLEAN
  BY DEF Present
<1>2. c[1] = "is_some" /\ c[2] = v
  OBVIOUS
<1> HIDE DEF c
<1>3. p \in Satisfy(reach, {c}) <=> p[c[2]] = (c[1] = "is_some")
  BY DEF Satisfy
<1>4. (c[1] = "is_some") = TRUE
  BY <1>2
<1>5. p \in Satisfy(reach, {c}) <=> p[v] = TRUE
  BY <1>2, <1>3, <1>4
<1> QED BY <1>1, <1>5 DEF c

LEMMA FulfilIs ==
  ASSUME NEW reach, NEW cond \in Conditions
  PROVE  /\ Fulfil(reach, cond) \subseteq reach /\ Refuse(reach, cond) \subseteq reach
         /\ \A p \in Refuse(reach, cond) : \A c \in cond : p[c[2]] # (c[1] = "is_some")
         /\ ~(Cardinality(cond) > 1) => \A v \in Safe(cond) : \A p \in Fulfil(reach, cond) : p[v]
<1>1. CASE cond = {}
  <2>1. Safe(cond) = {} /\ Fulfil(reach, cond) = reach /\ Refuse(reach, cond) = reach
    BY <1>1 DEF Safe, Fulfil, Refuse
  <2> QED BY <1>1, <2>1
<1>2. CASE cond # {}
  <2>1. Fulfil(reach, cond) = Satisfy(reach, cond) /\ Refuse(reach, cond) = reach \ Satisfy(reach, cond)
    BY <1>2 DEF Fulfil, Refuse
  <2> QED BY <2>1, SatisfyIs
<1> QED BY <1>1, <1>2

LEMMA UnwrapIf ==
  ASSUME NEW s \in Seq(UnwrapConstructs), NEW m \in UnwrapMemory, Believes(m, s),
         NEW cond \in Conditions, NEW e \in UnwrapConstructs, e.do = "if", e.v = cond
  PROVE  /\ EnterIf(m, cond) \in UnwrapMemory /\ Believes(EnterIf(m, cond), Append(s, e))
         /\ EnterIf(m, cond).panics = m.panics
<1> DEFINE t == Append(s, e)
           next == EnterIf(m, cond)
           fs == m.frames
           gs == next.frames
           d == Len(fs)
           f == [cond |-> cond, in_else |-> FALSE, others |-> Refuse(m.reach, cond)]
<1>1. /\ fs \in Seq(UnwrapFrames) /\ d \in Nat /\ m.conditional \subseteq UNION Conditions
      /\ m.checked \subseteq Locals /\ m.reach \subseteq Present /\ m.panics \subseteq Nat
      /\ DOMAIN fs = 1 .. d
  BY DEF UnwrapMemory
<1>2. Fulfil(m.reach, cond) \subseteq m.reach /\ Refuse(m.reach, cond) \subseteq m.reach /\ Safe(cond) \subseteq Locals
  BY FulfilIs, ConditionsAre
<1>3. f \in UnwrapFrames
  BY <1>1, <1>2 DEF UnwrapFrames
<1>4. /\ next.conditional = IF Blind(m) THEN m.conditional ELSE m.conditional \cup cond
      /\ next.checked = IF Blind(m) THEN m.checked ELSE m.checked \cup Safe(cond)
      /\ next.frames = Append(fs, f) /\ next.reach = Fulfil(m.reach, cond)
      /\ next.panics = m.panics
      /\ next = [conditional |-> next.conditional, checked |-> next.checked,
                 frames |-> next.frames, reach |-> next.reach, panics |-> next.panics]
  <2> DEFINE D == IF ~Blind(m) THEN m.conditional \cup cond ELSE m.conditional
             C == IF ~Blind(m) THEN m.checked \cup Safe(cond) ELSE m.checked
             F == Append(fs, f)
             R == Fulfil(m.reach, cond)
  <2>1. next = [m EXCEPT !.conditional = D, !.checked = C, !.frames = F, !.reach = R]
    <3> HIDE DEF next
    <3> QED BY DEF EnterIf, next
  <2> HIDE DEF D, C, F, R, f, next
  <2>2. /\ next.conditional = D /\ next.checked = C /\ next.frames = F /\ next.reach = R
        /\ next.panics = m.panics
        /\ next = [conditional |-> next.conditional, checked |-> next.checked,
                   frames |-> next.frames, reach |-> next.reach, panics |-> next.panics]
    BY <2>1 DEF UnwrapMemory
  <2> QED BY <2>2 DEF D, C, F, R
<1>5. /\ gs \in Seq(UnwrapFrames) /\ Len(gs) = d + 1 /\ gs[d + 1] = f
      /\ \A k \in 1 .. d : gs[k] = fs[k]
      /\ d + 1 \in 1 .. d + 1 /\ \A k \in 1 .. d : k \in 1 .. d + 1
      /\ \A k \in 1 .. d + 1 : k = d + 1 \/ k \in 1 .. d
  <2> HIDE DEF f, next
  <2> QED BY <1>1, <1>3, <1>4
<1>6. next \in UnwrapMemory
  <2>1. cond \subseteq UNION Conditions
    OBVIOUS
  <2>2. next.conditional \subseteq UNION Conditions /\ next.checked \subseteq Locals
        /\ next.reach \subseteq Present
    BY <1>1, <1>2, <1>4, <2>1
  <2> HIDE DEF next
  <2> QED BY <1>1, <1>4, <1>5, <2>2 DEF UnwrapMemory
<1>7. f.cond = cond /\ f.in_else = FALSE /\ f.others = Refuse(m.reach, cond)
  OBVIOUS
<1>8. e.do # "try" /\ e.do # "close" /\ e.do \in Opening /\ e.do # "else"
  BY UnwrapConstructsAre
<1>9. /\ d = DepthOf(s, Len(s)) /\ m.panics \subseteq 1 .. Len(s)
      /\ ElsesPassed(s, fs) /\ OthersFail(fs) /\ ConditionsOpen(m)
      /\ Trusty(s) => CheckedHere(m, s) /\ CheckedAside(m, s)
  BY DEF Believes
<1>10. Len(s) \in Nat /\ Len(t) = Len(s) + 1 /\ t[Len(s) + 1] = e
  OBVIOUS
<1>11. DepthOf(t, Len(s) + 1) = d + 1
  BY <1>8, <1>9, <1>10, OpenAppend
<1>12. \A k \in Nat : Tried(t, k) = Tried(s, k)
  <2> SUFFICES ASSUME NEW k \in Nat PROVE \A v : v \in Tried(t, k) <=> v \in Tried(s, k)
    OBVIOUS
  <2> QED BY <1>8, TriedAppend
<1>13. \A k \in 1 .. d + 1 : k \in Nat
  OBVIOUS
<1> HIDE DEF t, next, f, d
<1>14. /\ \A k \in 1 .. d : Seen(gs, k) <=> Seen(fs, k)
       /\ Seen(gs, d + 1) <=> ~Blind(m)
  <2>1. ASSUME NEW k \in 1 .. d PROVE Seen(gs, k) <=> Seen(fs, k)
    <3>1. \A j \in 1 .. k : j \in 1 .. d /\ gs[j] = fs[j]
      BY <1>5
    <3> QED BY <1>5, <3>1 DEF Seen, d
  <2>2. Seen(gs, d + 1) <=> \A j \in 1 .. d : ~fs[j].in_else
    BY <1>5, <1>7 DEF Seen
  <2>3. Blind(m) <=> \E j \in 1 .. d : fs[j].in_else
    BY <1>1, BlindIs
  <2> QED BY <2>1, <2>2, <2>3
<1>15. ElsesPassed(t, gs)
  <2> SUFFICES ASSUME NEW k \in 1 .. d + 1, gs[k].in_else PROVE ElseFor(t, k)
    BY <1>5 DEF ElsesPassed
  <2>1. k \in 1 .. d /\ fs[k].in_else /\ k <= d + 1 /\ k \in Nat
    BY <1>5, <1>7, <1>13
  <2>2. ElseFor(s, k)
    BY <1>9, <2>1 DEF ElsesPassed, d
  <2> QED BY <1>11, <2>1, <2>2, ElseStays DEF t
<1>16. OthersFail(gs)
  <2>1. \A p \in f.others, c \in f.cond : p[c[2]] # (c[1] = "is_some")
    BY <1>7, FulfilIs
  <2> SUFFICES ASSUME NEW k \in 1 .. d + 1, ~gs[k].in_else, NEW p \in gs[k].others, NEW c \in gs[k].cond
               PROVE  p[c[2]] # (c[1] = "is_some")
    BY <1>5 DEF OthersFail
  <2>2. CASE k = d + 1
    BY <1>5, <2>1, <2>2
  <2>3. CASE k \in 1 .. d
    <3>1. gs[k] = fs[k] /\ k \in 1 .. Len(fs)
      BY <1>5, <2>3 DEF d
    <3> QED BY <1>9, <3>1 DEF OthersFail
  <2> QED BY <1>5, <2>2, <2>3
<1>17. ConditionsOpen(next)
  <2> SUFFICES ASSUME NEW c \in next.conditional
               PROVE  \E k \in 1 .. Len(gs) : Seen(gs, k) /\ c \in gs[k].cond
    BY ConditionsOpenIs
  <2>1. CASE c \in m.conditional
    <3>1. PICK k \in 1 .. d : Seen(fs, k) /\ c \in fs[k].cond
      BY <1>9, <2>1, ConditionsOpenIs DEF d
    <3> QED BY <1>5, <1>14, <3>1
  <2>2. CASE c \notin m.conditional
    <3>1. ~Blind(m) /\ c \in cond
      BY <1>4, <2>2
    <3> QED BY <1>5, <1>7, <1>14, <3>1
  <2> QED BY <2>1, <2>2
<1>18. ASSUME Trusty(t) PROVE CheckedHere(next, t) /\ CheckedAside(next, t)
  <2>1. Trusty(s) /\ ~Misled(t, Len(s) + 1, Len(s) + 2)
    BY <1>18, TrustedBefore DEF t
  <2>2. ~(Cardinality(cond) > 1)
    BY <1>8, <1>10, <2>1 DEF Misled
  <2>3. \A v \in Safe(cond) : \A p \in Fulfil(m.reach, cond) : p[v]
    BY <2>2, FulfilIs
  <2>4. CheckedHere(m, s) /\ CheckedAside(m, s)
    BY <1>9, <2>1
  <2>5. \A v : v \in Hidden(t, gs) <=> v \in Hidden(s, fs)
    BY <1>5, <1>7, <1>12, <1>13, HiddenIs DEF d
  <2>6. CheckedHere(next, t)
    <3> SUFFICES ASSUME NEW v \in next.checked, v \notin Hidden(t, gs), NEW p \in next.reach
                 PROVE  p[v]
      BY DEF CheckedHere
    <3>1. p \in Fulfil(m.reach, cond) /\ p \in m.reach
      BY <1>2, <1>4
    <3>2. CASE v \in m.checked
      BY <2>4, <2>5, <3>1, <3>2 DEF CheckedHere
    <3>3. CASE v \in Safe(cond)
      BY <2>3, <3>1, <3>3
    <3> QED BY <1>4, <3>2, <3>3
  <2>7. CheckedAside(next, t)
    <3> SUFFICES ASSUME NEW k \in 1 .. d + 1, NEW v \in next.checked, v \notin Safes(gs, k),
                        v \notin Hidden(t, gs), v \notin Tried(t, k), NEW p \in gs[k].others
                 PROVE  p[v]
      BY <1>5 DEF CheckedAside
    <3>1. v \in m.checked
      <4>1. CASE Blind(m)
        BY <1>4, <4>1
      <4>2. CASE ~Blind(m)
        <5>1. d + 1 \in k .. Len(gs)
          BY <1>5, <1>1
        <5>2. v \notin Safe(cond)
          BY <1>5, <1>7, <1>14, <4>2, <5>1, SafesAre
        <5> QED BY <1>4, <4>2, <5>2
      <4> QED BY <4>1, <4>2
    <3>2. CASE k = d + 1
      <4>1. p \in m.reach
        BY <1>2, <1>5, <1>7, <3>2
      <4> QED BY <2>4, <2>5, <3>1, <4>1 DEF CheckedHere
    <3>3. CASE k \in 1 .. d
      <4>1. v \notin Safes(fs, k)
        <5>1. \A j \in k .. d : j \in 1 .. d /\ j \in k .. d + 1
          BY <3>3, <1>1
        <5>2. Len(fs) = d /\ Len(gs) = d + 1
          BY <1>5 DEF d
        <5> QED BY <1>5, <1>14, <5>1, <5>2, SafesAre
      <4>2. v \notin Hidden(s, fs) /\ v \notin Tried(s, k) /\ p \in fs[k].others
        BY <1>5, <1>12, <1>13, <2>5, <3>3
      <4> QED BY <2>4, <3>1, <3>3, <4>1, <4>2 DEF CheckedAside, d
    <3> QED BY <1>5, <3>2, <3>3
  <2> QED BY <2>6, <2>7
<1>19. Len(gs) = DepthOf(t, Len(t)) /\ next.panics \subseteq 1 .. Len(t)
  BY <1>4, <1>5, <1>9, <1>10, <1>11
<1> QED BY <1>4, <1>6, <1>15, <1>16, <1>17, <1>18, <1>19 DEF Believes, t, next

LEMMA ForgetIs ==
  ASSUME NEW m \in UnwrapMemory, NEW cond
  PROVE  LET next == Forget(m, cond)
         IN  /\ next.conditional = IF Blind(m) THEN m.conditional ELSE m.conditional \ cond
             /\ next.checked = IF Blind(m) THEN m.checked ELSE m.checked \ Safe(cond)
             /\ next.frames = m.frames /\ next.reach = m.reach /\ next.panics = m.panics
             /\ next \in UnwrapMemory
<1>1. CASE Blind(m)
  BY <1>1 DEF Forget
<1>2. CASE ~Blind(m)
  <2> DEFINE D == m.conditional \ cond
             C == m.checked \ Safe(cond)
  <2>1. Forget(m, cond) = [m EXCEPT !.conditional = D, !.checked = C]
    BY <1>2 DEF Forget
  <2>2. D \subseteq m.conditional /\ C \subseteq m.checked
    OBVIOUS
  <2> HIDE DEF D, C
  <2>3. m.conditional \subseteq UNION Conditions /\ m.checked \subseteq Locals
    BY DEF UnwrapMemory
  <2>4. /\ Forget(m, cond) \in UnwrapMemory /\ Forget(m, cond).conditional = D
        /\ Forget(m, cond).checked = C /\ Forget(m, cond).frames = m.frames
        /\ Forget(m, cond).reach = m.reach /\ Forget(m, cond).panics = m.panics
    BY <2>1, <2>2, <2>3 DEF UnwrapMemory
  <2> QED BY <1>2, <2>4 DEF D, C
<1> QED BY <1>1, <1>2

LEMMA TopReplaced ==
  ASSUME NEW F, NEW q \in Seq(F), Len(q) > 0, NEW x \in F
  PROVE  /\ ReplaceTop(q, x) \in Seq(F) /\ Len(ReplaceTop(q, x)) = Len(q)
         /\ ReplaceTop(q, x)[Len(q)] = x
         /\ \A k \in 1 .. Len(q) - 1 : ReplaceTop(q, x)[k] = q[k]
<1> DEFINE p == Pop(q)
<1>1. /\ p \in Seq(F) /\ Len(p) = Len(q) - 1
      /\ \A k \in 1 .. Len(q) - 1 : p[k] = q[k]
  BY Popped
<1>2. Len(q) \in Nat
  OBVIOUS
<1> HIDE DEF p
<1>3. Append(p, x) \in Seq(F) /\ Len(Append(p, x)) = Len(p) + 1
      /\ Append(p, x)[Len(p) + 1] = x /\ \A k \in 1 .. Len(p) : Append(p, x)[k] = p[k]
  BY <1>1
<1> QED BY <1>1, <1>2, <1>3 DEF ReplaceTop, p

LEMMA UnwrapElse ==
  ASSUME NEW s \in Seq(UnwrapConstructs), NEW m \in UnwrapMemory, Believes(m, s),
         NEW e \in UnwrapConstructs, e.do = "else",
         Len(m.frames) > 0, ~m.frames[Len(m.frames)].in_else
  PROVE  /\ EnterElse(m) \in UnwrapMemory /\ Believes(EnterElse(m), Append(s, e))
         /\ EnterElse(m).panics = m.panics
<1> DEFINE t == Append(s, e)
           next == EnterElse(m)
           fs == m.frames
           gs == next.frames
           d == Len(fs)
           top == fs[d]
           f == [cond |-> top.cond, in_else |-> TRUE, others |-> m.reach]
<1>1. /\ fs \in Seq(UnwrapFrames) /\ d \in Nat /\ d > 0 /\ d \in 1 .. d /\ top \in UnwrapFrames
      /\ m.reach \subseteq Present /\ DOMAIN fs = 1 .. d
  BY DEF UnwrapMemory
<1>2. top.cond \in Conditions /\ top.others \subseteq Present /\ f \in UnwrapFrames
  BY <1>1 DEF UnwrapFrames
<1>3. /\ f.cond = top.cond /\ f.in_else = TRUE /\ f.others = m.reach
  OBVIOUS
<1>4. /\ next.conditional = IF Blind(m) THEN m.conditional ELSE m.conditional \ top.cond
      /\ next.checked = IF Blind(m) THEN m.checked ELSE m.checked \ Safe(top.cond)
      /\ gs = ReplaceTop(fs, f) /\ next.reach = top.others /\ next.panics = m.panics
      /\ gs \in Seq(UnwrapFrames) /\ next \in UnwrapMemory
  <2> DEFINE g == Forget(m, top.cond)
             F == ReplaceTop(fs, f)
             R == top.others
  <2>1. /\ g.conditional = IF Blind(m) THEN m.conditional ELSE m.conditional \ top.cond
        /\ g.checked = IF Blind(m) THEN m.checked ELSE m.checked \ Safe(top.cond)
        /\ g.frames = fs /\ g.panics = m.panics /\ g \in UnwrapMemory
    BY ForgetIs
  <2>2. next = [g EXCEPT !.frames = F, !.reach = R]
    <3>1. next = [g EXCEPT !.frames = ReplaceTop(g.frames, f), !.reach = R]
      <4> HIDE DEF next
      <4> QED BY DEF EnterElse, Top, next
    <3> HIDE DEF next, g, f, R
    <3> QED BY <2>1, <3>1
  <2>3. F \in Seq(UnwrapFrames) /\ R \subseteq Present
    <3> HIDE DEF f
    <3> QED BY <1>1, <1>2, TopReplaced
  <2> HIDE DEF next, g, F, R
  <2>4. /\ next.conditional = g.conditional /\ next.checked = g.checked /\ next.frames = F
        /\ next.reach = R /\ next.panics = g.panics /\ next \in UnwrapMemory
    BY <2>1, <2>2, <2>3 DEF UnwrapMemory
  <2> QED BY <2>1, <2>3, <2>4 DEF F, R
<1>5. /\ Len(gs) = d /\ gs[d] = f
      /\ \A k \in 1 .. d - 1 : gs[k] = fs[k] /\ k \in 1 .. d /\ k < d
      /\ \A k \in 1 .. d : k = d \/ k \in 1 .. d - 1
  <2> HIDE DEF f, next
  <2>1. /\ Len(ReplaceTop(fs, f)) = Len(fs) /\ ReplaceTop(fs, f)[Len(fs)] = f
        /\ \A k \in 1 .. Len(fs) - 1 : ReplaceTop(fs, f)[k] = fs[k]
    <3>1. fs \in Seq(UnwrapFrames) /\ Len(fs) > 0 /\ f \in UnwrapFrames
      BY <1>1, <1>2
    <3> HIDE DEF fs
    <3> QED BY <3>1, TopReplaced
  <2>2. /\ \A k \in 1 .. d - 1 : k \in 1 .. d /\ k < d
        /\ \A k \in 1 .. d : k = d \/ k \in 1 .. d - 1
    <3> HIDE DEF d
    <3> QED BY <1>1
  <2> QED BY <1>4, <2>1, <2>2
<1>6. e.do # "try" /\ e.do \notin Opening \cup {"close"}
  BY UnwrapConstructsAre
<1>7. /\ d = DepthOf(s, Len(s)) /\ m.panics \subseteq 1 .. Len(s)
      /\ ElsesPassed(s, fs) /\ OthersFail(fs) /\ ConditionsOpen(m)
      /\ Trusty(s) => CheckedHere(m, s) /\ CheckedAside(m, s)
  BY DEF Believes
<1>8. Len(s) \in Nat /\ Len(t) = Len(s) + 1
  OBVIOUS
<1>9. DepthOf(t, Len(s) + 1) = d
  BY <1>6, <1>7, <1>8, OpenAppend
<1>10. \A k \in Nat : Tried(t, k) = Tried(s, k)
  <2> SUFFICES ASSUME NEW k \in Nat PROVE \A v : v \in Tried(t, k) <=> v \in Tried(s, k)
    OBVIOUS
  <2> QED BY <1>6, TriedAppend
<1>11. \A k \in 1 .. d : k \in Nat
  OBVIOUS
<1> HIDE DEF t, next, f, d, top
<1>12. /\ \A k \in 1 .. d - 1 : Seen(gs, k) <=> Seen(fs, k)
       /\ ~Seen(gs, d)
       /\ Seen(fs, d) <=> ~Blind(m)
  <2>1. ASSUME NEW k \in 1 .. d - 1 PROVE Seen(gs, k) <=> Seen(fs, k)
    <3>1. \A j \in 1 .. k : j \in 1 .. d - 1
      BY <1>1
    <3> QED BY <1>1, <1>5, <2>1, <3>1 DEF Seen, d
  <2>2. Blind(m) <=> \E j \in 1 .. d : fs[j].in_else
    BY <1>1, BlindIs
  <2>3. ~Seen(gs, d)
    BY <1>1, <1>3, <1>5 DEF Seen
  <2>4. Seen(fs, d) <=> \A j \in 1 .. d : ~fs[j].in_else
    BY <1>1 DEF Seen, d
  <2> QED BY <2>1, <2>2, <2>3, <2>4
<1>13. ElsesPassed(t, gs)
  <2> SUFFICES ASSUME NEW k \in 1 .. d, gs[k].in_else PROVE ElseFor(t, k)
    BY <1>5 DEF ElsesPassed
  <2>1. CASE k = d
    BY <1>9, <2>1, ElseStays DEF t
  <2>2. CASE k \in 1 .. d - 1
    <3>1. fs[k].in_else /\ k <= d /\ k \in Nat
      BY <1>5, <2>2
    <3>2. ElseFor(s, k)
      BY <1>7, <3>1 DEF ElsesPassed, d
    <3> QED BY <1>9, <3>1, <3>2, ElseStays DEF t
  <2> QED BY <1>5, <2>1, <2>2
<1>14. OthersFail(gs)
  <2> SUFFICES ASSUME NEW k \in 1 .. d, ~gs[k].in_else
               PROVE  \A p \in gs[k].others, c \in gs[k].cond : p[c[2]] # (c[1] = "is_some")
    BY <1>5 DEF OthersFail
  <2>1. k \in 1 .. d - 1 /\ gs[k] = fs[k]
    BY <1>3, <1>5
  <2> QED BY <1>7, <2>1 DEF OthersFail, d
<1>15. ConditionsOpen(next)
  <2> SUFFICES ASSUME NEW c \in next.conditional
               PROVE  \E k \in 1 .. Len(gs) : Seen(gs, k) /\ c \in gs[k].cond
    BY ConditionsOpenIs
  <2>1. c \in m.conditional
    BY <1>4
  <2>2. PICK k \in 1 .. d : Seen(fs, k) /\ c \in fs[k].cond
    BY <1>7, <2>1, ConditionsOpenIs DEF d
  <2>3. k # d
    <3>1. ASSUME k = d PROVE FALSE
      <4>1. ~Blind(m) /\ c \in top.cond
        BY <1>12, <2>2, <3>1 DEF top
      <4> QED BY <1>4, <4>1
    <3> QED BY <3>1
  <2> QED BY <1>5, <1>12, <2>2, <2>3
<1>16. ASSUME Trusty(t) PROVE CheckedHere(next, t) /\ CheckedAside(next, t)
  <2>1. Trusty(s)
    BY <1>16, TrustedBefore DEF t
  <2>2. CheckedHere(m, s) /\ CheckedAside(m, s)
    BY <1>7, <2>1
  <2>3. \A v : v \in Hidden(s, fs) \/ v \in Tried(s, d) => v \in Hidden(t, gs)
    <3>1. \A v, k : k \in 1 .. d /\ fs[k].in_else /\ v \in Tried(s, k) => v \in Hidden(t, gs)
      <4> SUFFICES ASSUME NEW v, NEW k \in 1 .. d, fs[k].in_else, v \in Tried(s, k)
                   PROVE  v \in Hidden(t, gs)
        OBVIOUS
      <4>1. gs[k].in_else /\ v \in Tried(t, k)
        BY <1>3, <1>5, <1>10, <1>11
      <4> QED BY <1>5, <4>1, HiddenIs
    <3>2. \A v : v \in Tried(s, d) => v \in Hidden(t, gs)
      BY <1>1, <1>3, <1>5, <1>10, HiddenIs
    <3> QED BY <3>1, <3>2, HiddenIs DEF d
  <2>4. \A v \in next.checked : v \in m.checked /\ (v \notin Safe(top.cond) \/ Blind(m))
    BY <1>4
  <2>5. ASSUME NEW k \in 1 .. d, NEW v \in next.checked, v \in Safes(fs, k)
        PROVE  v \in Safes(gs, k)
    <3>1. PICK j \in k .. d : Seen(fs, j) /\ v \in Safe(fs[j].cond)
      BY <2>5, SafesAre DEF d
    <3>2. j \in 1 .. d
      BY <1>1, <3>1
    <3>3. j # d
      <4>1. ASSUME j = d PROVE FALSE
        <5>1. Seen(fs, d) /\ v \in Safe(top.cond)
          BY <3>1, <4>1 DEF top
        <5> QED BY <1>12, <2>4, <2>5, <5>1
      <4> QED BY <4>1
    <3>4. Seen(gs, j) /\ gs[j] = fs[j] /\ j \in k .. Len(gs)
      BY <1>5, <1>12, <3>1, <3>2, <3>3
    <3> QED BY <3>1, <3>4, SafesAre
  <2>6. CheckedHere(next, t)
    <3> SUFFICES ASSUME NEW v \in next.checked, v \notin Hidden(t, gs), NEW p \in next.reach
                 PROVE  p[v]
      BY DEF CheckedHere
    <3>1. p \in fs[d].others /\ d \in 1 .. Len(fs)
      BY <1>1, <1>4 DEF top, d
    <3>2. v \notin Safes(fs, d)
      <4>1. ASSUME v \in Safes(fs, d) PROVE FALSE
        <5>1. PICK j \in d .. d : Seen(gs, j)
          BY <1>1, <1>5, <2>5, <4>1, SafesAre
        <5> QED BY <1>1, <1>12, <5>1
      <4> QED BY <4>1
    <3> QED BY <2>2, <2>3, <2>4, <3>1, <3>2 DEF CheckedAside
  <2>7. CheckedAside(next, t)
    <3> SUFFICES ASSUME NEW k \in 1 .. d, NEW v \in next.checked, v \notin Safes(gs, k),
                        v \notin Hidden(t, gs), v \notin Tried(t, k), NEW p \in gs[k].others
                 PROVE  p[v]
      BY <1>5 DEF CheckedAside
    <3>1. v \in m.checked /\ v \notin Hidden(s, fs)
      BY <2>3, <2>4
    <3>2. CASE k = d
      BY <1>3, <1>5, <2>2, <3>1, <3>2 DEF CheckedHere
    <3>3. CASE k \in 1 .. d - 1
      <4>1. v \notin Safes(fs, k) /\ v \notin Tried(s, k) /\ p \in fs[k].others /\ k \in 1 .. Len(fs)
        BY <1>5, <1>10, <1>11, <2>5, <3>3 DEF d
      <4> QED BY <2>2, <3>1, <4>1 DEF CheckedAside
    <3> QED BY <1>5, <3>2, <3>3
  <2> QED BY <2>6, <2>7
<1>17. Len(gs) = DepthOf(t, Len(t)) /\ next.panics \subseteq 1 .. Len(t)
  BY <1>4, <1>5, <1>7, <1>8, <1>9
<1> QED BY <1>4, <1>13, <1>14, <1>15, <1>16, <1>17 DEF Believes, t, next

LEMMA UnwrapClose ==
  ASSUME NEW s \in Seq(UnwrapConstructs), NEW m \in UnwrapMemory, Believes(m, s),
         NEW e \in UnwrapConstructs, e.do = "close", DepthOf(s, Len(s)) > 0
  PROVE  /\ LeaveIf(m) \in UnwrapMemory /\ Believes(LeaveIf(m), Append(s, e))
         /\ LeaveIf(m).panics = m.panics
<1> DEFINE t == Append(s, e)
           next == LeaveIf(m)
           fs == m.frames
           gs == next.frames
           d == Len(fs)
           top == fs[d]
           sees == ~Blind(m) /\ ~top.in_else
<1>1. /\ d = DepthOf(s, Len(s)) /\ m.panics \subseteq 1 .. Len(s)
      /\ ElsesPassed(s, fs) /\ OthersFail(fs) /\ ConditionsOpen(m)
      /\ Trusty(s) => CheckedHere(m, s) /\ CheckedAside(m, s)
  BY DEF Believes
<1>2. /\ fs \in Seq(UnwrapFrames) /\ d \in Nat /\ d > 0 /\ d \in 1 .. d /\ top \in UnwrapFrames
      /\ m.reach \subseteq Present /\ DOMAIN fs = 1 .. d
  BY <1>1 DEF UnwrapMemory
<1>3. top.cond \in Conditions /\ top.others \subseteq Present
  BY <1>2 DEF UnwrapFrames
<1>4. /\ next.conditional = IF sees THEN m.conditional \ top.cond ELSE m.conditional
      /\ next.checked = IF sees THEN m.checked \ Safe(top.cond) ELSE m.checked
      /\ gs = Pop(fs) /\ next.reach = m.reach \cup top.others /\ next.panics = m.panics
      /\ gs \in Seq(UnwrapFrames) /\ next \in UnwrapMemory
  <2> DEFINE g == IF top.in_else THEN m ELSE Forget(m, top.cond)
             F == Pop(fs)
             R == m.reach \cup top.others
  <2>1. /\ g.conditional = IF sees THEN m.conditional \ top.cond ELSE m.conditional
        /\ g.checked = IF sees THEN m.checked \ Safe(top.cond) ELSE m.checked
        /\ g.frames = fs /\ g.reach = m.reach /\ g.panics = m.panics /\ g \in UnwrapMemory
    <3>1. CASE top.in_else
      BY <3>1
    <3>2. CASE ~top.in_else
      BY <3>2, ForgetIs
    <3> QED BY <3>1, <3>2
  <2>2. next = [g EXCEPT !.frames = F, !.reach = R]
    <3>1. next = [g EXCEPT !.frames = Pop(g.frames), !.reach = g.reach \cup top.others]
      <4> HIDE DEF next
      <4> QED BY DEF LeaveIf, Top, next
    <3> HIDE DEF next, g
    <3> QED BY <2>1, <3>1
  <2>3. F \in Seq(UnwrapFrames) /\ R \subseteq Present
    BY <1>2, <1>3, Popped
  <2> HIDE DEF next, g, F, R, sees
  <2>4. /\ next.conditional = g.conditional /\ next.checked = g.checked /\ next.frames = F
        /\ next.reach = R /\ next.panics = g.panics /\ next \in UnwrapMemory
    BY <2>1, <2>2, <2>3 DEF UnwrapMemory
  <2> QED BY <2>1, <2>3, <2>4 DEF F, R
<1>5. /\ Len(gs) = d - 1 /\ d - 1 \in Nat
      /\ \A k \in 1 .. d - 1 : gs[k] = fs[k] /\ k \in 1 .. d /\ k < d /\ k \in Nat
      /\ \A k \in 1 .. d : k = d \/ k \in 1 .. d - 1
  <2> HIDE DEF next
  <2>1. /\ Len(Pop(fs)) = Len(fs) - 1
        /\ \A k \in 1 .. Len(fs) - 1 : Pop(fs)[k] = fs[k]
    BY <1>2, Popped
  <2>2. /\ \A k \in 1 .. d - 1 : k \in 1 .. d /\ k < d /\ k \in Nat
        /\ \A k \in 1 .. d : k = d \/ k \in 1 .. d - 1
        /\ d - 1 \in Nat
    <3> HIDE DEF d
    <3> QED BY <1>2
  <2> QED BY <1>4, <2>1, <2>2
<1>6. e.do # "try" /\ e.do = "close"
  OBVIOUS
<1>7. Len(s) \in Nat /\ Len(t) = Len(s) + 1
  OBVIOUS
<1>8. DepthOf(t, Len(s) + 1) = d - 1
  BY <1>1, <1>6, <1>7, OpenAppend
<1>9. \A k \in Nat : Tried(t, k) = Tried(s, k)
  <2> SUFFICES ASSUME NEW k \in Nat PROVE \A v : v \in Tried(t, k) <=> v \in Tried(s, k)
    OBVIOUS
  <2> QED BY <1>6, TriedAppend
<1> HIDE DEF t, next, d, top, sees
<1>10. /\ \A k \in 1 .. d - 1 : Seen(gs, k) <=> Seen(fs, k)
       /\ Seen(fs, d) <=> sees
  <2>1. ASSUME NEW k \in 1 .. d - 1 PROVE Seen(gs, k) <=> Seen(fs, k)
    <3>1. \A j \in 1 .. k : j \in 1 .. d - 1
      BY <1>5
    <3> QED BY <1>5, <2>1, <3>1 DEF Seen, d
  <2>2. Blind(m) <=> \E j \in 1 .. d : fs[j].in_else
    BY <1>2, BlindIs
  <2>3. Seen(fs, d) <=> \A j \in 1 .. d : ~fs[j].in_else
    BY <1>2 DEF Seen, d
  <2> QED BY <1>2, <2>1, <2>2, <2>3 DEF sees, top
<1>11. ElsesPassed(t, gs)
  <2> SUFFICES ASSUME NEW k \in 1 .. d - 1, gs[k].in_else PROVE ElseFor(t, k)
    BY <1>5 DEF ElsesPassed
  <2>1. fs[k].in_else /\ k \in 1 .. Len(fs) /\ k <= d - 1 /\ k \in Nat
    BY <1>5 DEF d
  <2>2. ElseFor(s, k)
    BY <1>1, <2>1 DEF ElsesPassed
  <2> QED BY <1>8, <2>1, <2>2, ElseStays DEF t
<1>12. OthersFail(gs)
  <2> SUFFICES ASSUME NEW k \in 1 .. d - 1, ~gs[k].in_else
               PROVE  \A p \in gs[k].others, c \in gs[k].cond : p[c[2]] # (c[1] = "is_some")
    BY <1>5 DEF OthersFail
  <2>1. gs[k] = fs[k] /\ k \in 1 .. Len(fs)
    BY <1>5 DEF d
  <2> QED BY <1>1, <2>1 DEF OthersFail
<1>13. ConditionsOpen(next)
  <2> SUFFICES ASSUME NEW c \in next.conditional
               PROVE  \E k \in 1 .. Len(gs) : Seen(gs, k) /\ c \in gs[k].cond
    BY ConditionsOpenIs
  <2>1. c \in m.conditional
    BY <1>4
  <2>2. PICK k \in 1 .. d : Seen(fs, k) /\ c \in fs[k].cond
    BY <1>1, <2>1, ConditionsOpenIs DEF d
  <2>3. k # d
    <3>1. ASSUME k = d PROVE FALSE
      <4>1. sees /\ c \in top.cond
        BY <1>10, <2>2, <3>1 DEF top
      <4> QED BY <1>4, <4>1
    <3> QED BY <3>1
  <2> QED BY <1>5, <1>10, <2>2, <2>3
<1>14. ASSUME Trusty(t) PROVE CheckedHere(next, t) /\ CheckedAside(next, t)
  <2>1. Trusty(s) /\ Tried(s, d) = {}
    BY <1>1, <1>6, <1>14, TrustedBefore DEF t
  <2>2. CheckedHere(m, s) /\ CheckedAside(m, s)
    BY <1>1, <2>1
  <2>3. \A v : v \in Hidden(s, fs) => v \in Hidden(t, gs)
    <3> SUFFICES ASSUME NEW v, NEW k \in 1 .. d, fs[k].in_else, v \in Tried(s, k)
                 PROVE  v \in Hidden(t, gs)
      BY HiddenIs DEF d
    <3>1. k \in 1 .. d - 1
      BY <1>5, <2>1
    <3>2. gs[k].in_else /\ v \in Tried(t, k) /\ k \in 1 .. Len(gs)
      BY <1>5, <1>9, <3>1
    <3> QED BY <3>2, HiddenIs
  <2>4. \A v \in next.checked : v \in m.checked /\ (v \notin Safe(top.cond) \/ ~sees)
    BY <1>4
  <2>5. ASSUME NEW k \in 1 .. d, NEW v \in next.checked, v \in Safes(fs, k)
        PROVE  v \in Safes(gs, k) /\ k # d
    <3>1. PICK j \in k .. d : Seen(fs, j) /\ v \in Safe(fs[j].cond)
      BY <2>5, SafesAre DEF d
    <3>2. j \in 1 .. d /\ k <= j
      BY <1>2, <3>1
    <3>3. j # d
      <4>1. ASSUME j = d PROVE FALSE
        <5>1. Seen(fs, d) /\ v \in Safe(top.cond)
          BY <3>1, <4>1 DEF top
        <5> QED BY <1>10, <2>4, <2>5, <5>1
      <4> QED BY <4>1
    <3>4. Seen(gs, j) /\ gs[j] = fs[j] /\ j \in k .. Len(gs)
      BY <1>5, <1>10, <3>1, <3>2, <3>3
    <3>5. k # d
      BY <1>2, <3>2, <3>3
    <3> QED BY <3>1, <3>4, <3>5, SafesAre
  <2>6. CheckedHere(next, t)
    <3> SUFFICES ASSUME NEW v \in next.checked, v \notin Hidden(t, gs), NEW p \in next.reach
                 PROVE  p[v]
      BY DEF CheckedHere
    <3>1. v \in m.checked /\ v \notin Hidden(s, fs)
      BY <2>3, <2>4
    <3>2. CASE p \in m.reach
      BY <2>2, <3>1, <3>2 DEF CheckedHere
    <3>3. CASE p \in top.others
      <4>1. p \in fs[d].others /\ d \in 1 .. Len(fs)
        BY <1>2, <3>3 DEF top, d
      <4>2. v \notin Safes(fs, d)
        BY <1>2, <2>5
      <4> QED BY <2>1, <2>2, <3>1, <4>1, <4>2 DEF CheckedAside
    <3> QED BY <1>4, <3>2, <3>3
  <2>7. CheckedAside(next, t)
    <3> SUFFICES ASSUME NEW k \in 1 .. d - 1, NEW v \in next.checked, v \notin Safes(gs, k),
                        v \notin Hidden(t, gs), v \notin Tried(t, k), NEW p \in gs[k].others
                 PROVE  p[v]
      BY <1>5 DEF CheckedAside
    <3>1. v \in m.checked /\ v \notin Hidden(s, fs)
      BY <2>3, <2>4
    <3>2. v \notin Safes(fs, k) /\ v \notin Tried(s, k) /\ p \in fs[k].others /\ k \in 1 .. Len(fs)
      BY <1>5, <1>9, <2>5 DEF d
    <3> QED BY <2>2, <3>1, <3>2 DEF CheckedAside
  <2> QED BY <2>6, <2>7
<1>15. Len(gs) = DepthOf(t, Len(t)) /\ next.panics \subseteq 1 .. Len(t)
  BY <1>1, <1>4, <1>5, <1>7, <1>8
<1> QED BY <1>4, <1>11, <1>12, <1>13, <1>14, <1>15 DEF Believes, t, next

LEMMA UnwrapReturn ==
  ASSUME NEW s \in Seq(UnwrapConstructs), NEW m \in UnwrapMemory, Believes(m, s),
         NEW e \in UnwrapConstructs, e.do = "return"
  PROVE  /\ HandleIfExpressions(m) \in UnwrapMemory
         /\ Believes(HandleIfExpressions(m), Append(s, e))
         /\ HandleIfExpressions(m).panics = m.panics
<1> DEFINE t == Append(s, e)
           next == HandleIfExpressions(m)
           fs == m.frames
           d == Len(fs)
<1>1. /\ d = DepthOf(s, Len(s)) /\ m.panics \subseteq 1 .. Len(s)
      /\ ElsesPassed(s, fs) /\ OthersFail(fs) /\ ConditionsOpen(m)
      /\ Trusty(s) => CheckedHere(m, s) /\ CheckedAside(m, s)
  BY DEF Believes
<1>2. /\ fs \in Seq(UnwrapFrames) /\ d \in Nat /\ m.conditional \subseteq UNION Conditions
      /\ \A k \in 1 .. d : fs[k].others \subseteq Present /\ k \in Nat
  <2>1. fs \in Seq(UnwrapFrames) /\ d \in Nat /\ m.conditional \subseteq UNION Conditions
    BY DEF UnwrapMemory
  <2>2. \A k \in 1 .. d : fs[k] \in UnwrapFrames /\ k \in Nat
    BY <2>1
  <2>3. \A f \in UnwrapFrames : f.others \subseteq Present
    BY DEF UnwrapFrames
  <2> QED BY <2>1, <2>2, <2>3
<1>3. Halting(m.conditional) \subseteq Locals
  <2> SUFFICES ASSUME NEW c \in m.conditional PROVE c[2] \in Locals
    BY DEF Halting
  <2> QED BY <1>2, ConditionsAre
<1>4. /\ next.conditional = m.conditional /\ next.frames = fs /\ next.panics = m.panics
      /\ next.checked = IF Blind(m) THEN m.checked ELSE m.checked \cup Halting(m.conditional)
      /\ next.reach = {} /\ next \in UnwrapMemory
  <2> DEFINE C == IF Blind(m) THEN m.checked ELSE m.checked \cup Halting(m.conditional)
  <2>1. next = [m EXCEPT !.checked = C, !.reach = {}]
    <3> HIDE DEF next
    <3> QED BY DEF HandleIfExpressions, next
  <2>2. C \subseteq Locals
    BY <1>3 DEF UnwrapMemory
  <2> HIDE DEF next, C
  <2>3. /\ next.conditional = m.conditional /\ next.frames = fs /\ next.panics = m.panics
        /\ next.checked = C /\ next.reach = {} /\ next \in UnwrapMemory
    BY <2>1, <2>2 DEF UnwrapMemory
  <2> QED BY <2>3 DEF C
<1>5. e.do # "try" /\ e.do \notin Opening \cup {"close"}
  BY UnwrapConstructsAre
<1>6. Len(s) \in Nat /\ Len(t) = Len(s) + 1 /\ t[Len(s) + 1] = e
  OBVIOUS
<1>7. DepthOf(t, Len(s) + 1) = d
  BY <1>1, <1>5, <1>6, OpenAppend
<1>8. \A k \in Nat : Tried(t, k) = Tried(s, k)
  <2> SUFFICES ASSUME NEW k \in Nat PROVE \A v : v \in Tried(t, k) <=> v \in Tried(s, k)
    OBVIOUS
  <2> QED BY <1>5, TriedAppend
<1> HIDE DEF t, next, d
<1>9. ElsesPassed(t, next.frames)
  <2> SUFFICES ASSUME NEW k \in 1 .. d, fs[k].in_else PROVE ElseFor(t, k)
    BY <1>4 DEF ElsesPassed, d
  <2>1. k <= d /\ k \in Nat /\ ElseFor(s, k)
    BY <1>1, <1>2 DEF ElsesPassed, d
  <2> QED BY <1>7, <2>1, ElseStays DEF t
<1>10. OthersFail(next.frames) /\ ConditionsOpen(next)
  BY <1>1, <1>4 DEF ConditionsOpen
<1>11. ASSUME Trusty(t) PROVE CheckedHere(next, t) /\ CheckedAside(next, t)
  <2>1. Trusty(s) /\ ~Misled(t, Len(s) + 1, Len(s) + 2)
    BY <1>11, TrustedBefore DEF t
  <2>2. d <= 1
    BY <1>2, <1>5, <1>6, <1>7, <2>1 DEF Misled
  <2>3. CheckedAside(m, s)
    BY <1>1, <2>1
  <2>4. CheckedHere(next, t)
    BY <1>4 DEF CheckedHere
  <2>5. CheckedAside(next, t)
    <3> SUFFICES ASSUME NEW k \in 1 .. d, NEW v \in next.checked, v \notin Safes(fs, k),
                        v \notin Hidden(t, fs), v \notin Tried(t, k), NEW p \in fs[k].others
                 PROVE  p[v]
      BY <1>4 DEF CheckedAside, d
    <3>1. CASE v \in m.checked
      <4>1. v \notin Hidden(s, fs) /\ v \notin Tried(s, k) /\ k \in 1 .. Len(fs)
        <5>1. \A j \in 1 .. Len(fs) : Tried(t, j) = Tried(s, j)
          BY <1>2, <1>8 DEF d
        <5> QED BY <5>1, HiddenIs DEF d
      <4> QED BY <2>3, <3>1, <4>1 DEF CheckedAside
    <3>2. CASE v \notin m.checked
      <4>1. ~Blind(m) /\ v \in Halting(m.conditional)
        BY <1>4, <3>2
      <4>2. PICK c \in m.conditional : c[1] = "is_none" /\ c[2] = v
        BY <4>1 DEF Halting
      <4>3. PICK j \in 1 .. d : Seen(fs, j) /\ c \in fs[j].cond
        BY <1>1, <4>2, ConditionsOpenIs DEF d
      <4>4. j = k /\ k \in 1 .. Len(fs)
        BY <1>2, <2>2, <4>3 DEF d
      <4>5. ~fs[k].in_else
        BY <4>3, <4>4 DEF Seen
      <4>6. p[v] # ("is_none" = "is_some")
        BY <1>1, <4>2, <4>3, <4>4, <4>5 DEF OthersFail
      <4>7. p[v] \in BOOLEAN
        <5>1. p \in Present /\ v \in Locals
          BY <1>2, <1>3, <4>1
        <5> QED BY <5>1 DEF Present
      <4> QED BY <4>6, <4>7
    <3> QED BY <3>1, <3>2
  <2> QED BY <2>4, <2>5
<1>12. Len(next.frames) = DepthOf(t, Len(t)) /\ next.panics \subseteq 1 .. Len(t)
  BY <1>1, <1>4, <1>6, <1>7 DEF d
<1> QED BY <1>4, <1>9, <1>10, <1>11, <1>12 DEF Believes, t, next

LEMMA UnwrapTry ==
  ASSUME NEW s \in Seq(UnwrapConstructs), NEW m \in UnwrapMemory, Believes(m, s),
         NEW e \in UnwrapConstructs, e.do = "try"
  PROVE  /\ CheckForTry(m, e.v) \in UnwrapMemory /\ Believes(CheckForTry(m, e.v), Append(s, e))
         /\ CheckForTry(m, e.v).panics = m.panics
<1> DEFINE t == Append(s, e)
           next == CheckForTry(m, e.v)
           fs == m.frames
           d == Len(fs)
<1>1. /\ d = DepthOf(s, Len(s)) /\ m.panics \subseteq 1 .. Len(s)
      /\ ElsesPassed(s, fs) /\ OthersFail(fs) /\ ConditionsOpen(m)
      /\ Trusty(s) => CheckedHere(m, s) /\ CheckedAside(m, s)
  BY DEF Believes
<1>2. fs \in Seq(UnwrapFrames) /\ d \in Nat /\ e.v \in Locals /\ \A k \in 1 .. d : k \in Nat
  BY UnwrapConstructsAre DEF UnwrapMemory
<1>3. /\ Satisfy(m.reach, {<<"is_some", e.v>>}) \subseteq m.reach
      /\ \A p \in Satisfy(m.reach, {<<"is_some", e.v>>}) : p[e.v]
  BY <1>2, SatisfySome DEF UnwrapMemory
<1>4. /\ next.conditional = m.conditional /\ next.frames = fs /\ next.panics = m.panics
      /\ next.checked = IF Blind(m) THEN m.checked ELSE m.checked \cup {e.v}
      /\ next.reach = Satisfy(m.reach, {<<"is_some", e.v>>}) /\ next \in UnwrapMemory
  <2> DEFINE C == IF Blind(m) THEN m.checked ELSE m.checked \cup {e.v}
             R == Satisfy(m.reach, {<<"is_some", e.v>>})
  <2>1. next = [m EXCEPT !.checked = C, !.reach = R]
    <3> HIDE DEF next
    <3> QED BY DEF CheckForTry, next
  <2>2. C \subseteq Locals /\ R \subseteq Present
    <3>1. m.checked \subseteq Locals /\ m.reach \subseteq Present
      BY DEF UnwrapMemory
    <3> QED BY <1>2, <1>3, <3>1
  <2> HIDE DEF next, C, R
  <2>3. /\ next.conditional = m.conditional /\ next.frames = fs /\ next.panics = m.panics
        /\ next.checked = C /\ next.reach = R /\ next \in UnwrapMemory
    BY <2>1, <2>2 DEF UnwrapMemory
  <2> QED BY <2>3 DEF C, R
<1>5. e.do \notin Opening \cup {"close"}
  BY UnwrapConstructsAre
<1>6. Len(s) \in Nat /\ Len(t) = Len(s) + 1
  OBVIOUS
<1>7. DepthOf(t, Len(s) + 1) = d
  BY <1>1, <1>5, <1>6, OpenAppend
<1>8. \A k \in 1 .. d : Tried(s, k) \subseteq Tried(t, k) /\ e.v \in Tried(t, k)
  <2> SUFFICES ASSUME NEW k \in 1 .. d PROVE Tried(s, k) \subseteq Tried(t, k) /\ e.v \in Tried(t, k)
    OBVIOUS
  <2>1. k \in Nat /\ d >= k
    BY <1>2
  <2> HIDE DEF d
  <2> QED BY <1>7, <2>1, TriedAppend
<1> HIDE DEF t, next, d
<1>9. ElsesPassed(t, next.frames)
  <2> SUFFICES ASSUME NEW k \in 1 .. d, fs[k].in_else PROVE ElseFor(t, k)
    BY <1>4 DEF ElsesPassed, d
  <2>1. k <= d /\ k \in Nat /\ ElseFor(s, k)
    BY <1>1, <1>2 DEF ElsesPassed, d
  <2> QED BY <1>7, <2>1, ElseStays DEF t
<1>10. OthersFail(next.frames) /\ ConditionsOpen(next)
  BY <1>1, <1>4 DEF ConditionsOpen
<1>11. ASSUME Trusty(t) PROVE CheckedHere(next, t) /\ CheckedAside(next, t)
  <2>1. Trusty(s)
    BY <1>11, TrustedBefore DEF t
  <2>2. CheckedHere(m, s) /\ CheckedAside(m, s)
    BY <1>1, <2>1
  <2>3. \A v : v \in Hidden(s, fs) => v \in Hidden(t, fs)
    BY <1>8, HiddenIs DEF d
  <2>4. CheckedHere(next, t)
    <3> SUFFICES ASSUME NEW v \in next.checked, v \notin Hidden(t, fs), NEW p \in next.reach
                 PROVE  p[v]
      BY <1>4 DEF CheckedHere
    <3>1. v = e.v \/ v \in m.checked
      BY <1>4
    <3> QED BY <1>3, <1>4, <2>2, <2>3, <3>1 DEF CheckedHere
  <2>5. CheckedAside(next, t)
    <3> SUFFICES ASSUME NEW k \in 1 .. d, NEW v \in next.checked, v \notin Safes(fs, k),
                        v \notin Hidden(t, fs), v \notin Tried(t, k), NEW p \in fs[k].others
                 PROVE  p[v]
      BY <1>4 DEF CheckedAside, d
    <3>1. v \in m.checked /\ v \notin Tried(s, k) /\ v \notin Hidden(s, fs)
      BY <1>4, <1>8, <2>3
    <3>2. k \in 1 .. Len(fs)
      BY DEF d
    <3> QED BY <2>2, <3>1, <3>2 DEF CheckedAside
  <2> QED BY <2>4, <2>5
<1>12. Len(next.frames) = DepthOf(t, Len(t)) /\ next.panics \subseteq 1 .. Len(t)
  BY <1>1, <1>4, <1>6, <1>7 DEF d
<1> QED BY <1>4, <1>9, <1>10, <1>11, <1>12 DEF Believes, t, next

LEMMA UnwrapUnwrap ==
  ASSUME NEW s \in Seq(UnwrapConstructs), NEW m \in UnwrapMemory, Believes(m, s),
         NEW e \in UnwrapConstructs, e.do \in {"unwrap", "test"},
         NEW next \in UnwrapMemory, next.conditional = m.conditional, next.checked = m.checked,
         next.frames = m.frames, next.reach \subseteq m.reach,
         next.panics \subseteq m.panics \cup {Len(s) + 1}
  PROVE  Believes(next, Append(s, e))
<1> DEFINE t == Append(s, e)
           fs == m.frames
           d == Len(fs)
<1>1. /\ d = DepthOf(s, Len(s)) /\ m.panics \subseteq 1 .. Len(s)
      /\ ElsesPassed(s, fs) /\ OthersFail(fs) /\ ConditionsOpen(m)
      /\ Trusty(s) => CheckedHere(m, s) /\ CheckedAside(m, s)
  BY DEF Believes
<1>2. fs \in Seq(UnwrapFrames) /\ d \in Nat /\ \A k \in 1 .. d : k \in Nat
  BY DEF UnwrapMemory
<1>3. e.do # "try" /\ e.do \notin Opening \cup {"close"}
  BY UnwrapConstructsAre
<1>4. Len(s) \in Nat /\ Len(t) = Len(s) + 1
  OBVIOUS
<1>5. DepthOf(t, Len(s) + 1) = d
  BY <1>1, <1>3, <1>4, OpenAppend
<1>6. \A k \in Nat : Tried(t, k) = Tried(s, k)
  <2> SUFFICES ASSUME NEW k \in Nat PROVE \A v : v \in Tried(t, k) <=> v \in Tried(s, k)
    OBVIOUS
  <2> QED BY <1>3, TriedAppend
<1> HIDE DEF t, d
<1>7. ElsesPassed(t, fs)
  <2> SUFFICES ASSUME NEW k \in 1 .. d, fs[k].in_else PROVE ElseFor(t, k)
    BY DEF ElsesPassed, d
  <2>1. k <= d /\ k \in Nat /\ ElseFor(s, k)
    BY <1>1, <1>2 DEF ElsesPassed, d
  <2> QED BY <1>5, <2>1, ElseStays DEF t
<1>8. ConditionsOpen(next)
  BY <1>1 DEF ConditionsOpen
<1>9. ASSUME Trusty(t) PROVE CheckedHere(next, t) /\ CheckedAside(next, t)
  <2>1. Trusty(s)
    BY <1>9, TrustedBefore DEF t
  <2>2. CheckedHere(m, s) /\ CheckedAside(m, s)
    BY <1>1, <2>1
  <2>3. \A v : v \in Hidden(s, fs) => v \in Hidden(t, fs)
    BY <1>2, <1>6, HiddenIs DEF d
  <2>4. CheckedHere(next, t)
    BY <2>2, <2>3 DEF CheckedHere
  <2>5. CheckedAside(next, t)
    <3> SUFFICES ASSUME NEW k \in 1 .. d, NEW v \in next.checked, v \notin Safes(fs, k),
                        v \notin Hidden(t, fs), v \notin Tried(t, k), NEW p \in fs[k].others
                 PROVE  p[v]
      BY DEF CheckedAside, d
    <3>1. v \notin Tried(s, k) /\ v \notin Hidden(s, fs) /\ k \in 1 .. Len(fs)
      BY <1>2, <1>6, <2>3 DEF d
    <3> QED BY <2>2, <3>1 DEF CheckedAside
  <2> QED BY <2>4, <2>5
<1>10. Len(fs) = DepthOf(t, Len(t)) /\ next.panics \subseteq 1 .. Len(t)
  BY <1>1, <1>4, <1>5 DEF d
<1> QED BY <1>1, <1>7, <1>8, <1>9, <1>10 DEF Believes, t

LEMMA UnwrappedIs ==
  ASSUME NEW m \in UnwrapMemory, NEW present \in SUBSET m.reach, Here \in Nat
  PROVE  LET next == Unwrapped(m, present)
         IN  /\ next \in UnwrapMemory
             /\ next.conditional = m.conditional /\ next.checked = m.checked
             /\ next.frames = m.frames /\ next.reach = present
             /\ next.panics = IF present = m.reach THEN m.panics ELSE m.panics \cup {Here}
<1> DEFINE next == Unwrapped(m, present)
           P == IF present = m.reach THEN m.panics ELSE m.panics \cup {Here}
<1>1. next = [m EXCEPT !.reach = present, !.panics = P]
  <2> HIDE DEF next
  <2> QED BY DEF Unwrapped, next
<1>2. P \subseteq Nat /\ present \subseteq Present
  BY DEF UnwrapMemory
<1> HIDE DEF next, P
<1>3. /\ next \in UnwrapMemory
      /\ next.conditional = m.conditional /\ next.checked = m.checked
      /\ next.frames = m.frames /\ next.reach = present /\ next.panics = P
  BY <1>1, <1>2 DEF UnwrapMemory
<1> QED BY <1>3 DEF next, P

UnwrapPass(e) ==
  /\ e \in UnwrapConstructs
  /\ e.do = "else" => memory.frames # <<>> /\ ~Top(memory.frames).in_else
  /\ Pass(e, UnwrapStep(memory, e), Mark(IsMethodCallUnsafe(memory, e)))

LEMMA VisitUnwrapIs == VisitUnwrap => (\E e : UnwrapPass(e)) /\ lint = "unsafe-unwrap"
BY DEF VisitUnwrap, UnwrapPass, Works

LEMMA UnwrapFollows ==
  ASSUME UnwrapInv, lint = "unsafe-unwrap", NEW e, UnwrapPass(e)
  PROVE  UnwrapInv'
<1>1. /\ walked \in Seq(UnwrapConstructs) /\ reported \subseteq DOMAIN walked
      /\ memory \in UnwrapMemory /\ Believes(memory, walked)
  BY DEF UnwrapInv, UnwrapType
<1>2. /\ e \in UnwrapConstructs /\ walked' = Append(walked, e)
      /\ memory' = UnwrapStep(memory, e)
      /\ reported' = reported \cup (IF IsMethodCallUnsafe(memory, e) THEN {Here} ELSE {})
      /\ e.do = "close" => DepthOf(walked, Len(walked)) > 0
      /\ e.do = "else" => memory.frames # <<>> /\ ~memory.frames[Len(memory.frames)].in_else
  BY DepthIs DEF UnwrapPass, Pass, Mark, Top
<1>3. /\ Len(walked) \in Nat /\ Here = Len(walked) + 1 /\ Len(walked') = Here
      /\ walked'[Here] = e /\ Here \in Nat
      /\ walked' \in Seq(UnwrapConstructs) /\ DOMAIN walked = 1 .. Len(walked)
      /\ DOMAIN walked' = 1 .. Here /\ walked' # <<>>
  BY <1>1, <1>2 DEF Here
<1>4. /\ memory' \in UnwrapMemory /\ Believes(memory', walked')
      /\ e.do \notin {"unwrap", "test"} => memory'.panics = memory.panics
  <2>1. CASE e.do = "if"
    <3>1. e.v \in Conditions /\ memory' = EnterIf(memory, e.v)
      BY <1>2, <2>1, UnwrapConstructsAre DEF UnwrapStep
    <3> QED BY <1>1, <1>2, <2>1, <3>1, UnwrapIf
  <2>2. CASE e.do = "else"
    <3>1. memory' = EnterElse(memory)
      BY <1>2, <2>2 DEF UnwrapStep
    <3>2. Len(memory.frames) > 0
      <4>1. memory.frames \in Seq(UnwrapFrames)
        BY <1>1 DEF UnwrapMemory
      <4> QED BY <1>2, <2>2, <4>1
    <3> QED BY <1>1, <1>2, <2>2, <3>1, <3>2, UnwrapElse
  <2>3. CASE e.do = "close"
    <3>1. memory' = LeaveIf(memory)
      BY <1>2, <2>3 DEF UnwrapStep
    <3> QED BY <1>1, <1>2, <2>3, <3>1, UnwrapClose
  <2>4. CASE e.do = "return"
    <3>1. memory' = HandleIfExpressions(memory)
      BY <1>2, <2>4 DEF UnwrapStep
    <3> QED BY <1>1, <1>2, <2>4, <3>1, UnwrapReturn
  <2>5. CASE e.do = "try"
    <3>1. memory' = CheckForTry(memory, e.v)
      BY <1>2, <2>5 DEF UnwrapStep
    <3> QED BY <1>1, <1>2, <2>5, <3>1, UnwrapTry
  <2>6. CASE e.do \in {"unwrap", "test"}
    <3> DEFINE present == Satisfy(memory.reach, {<<"is_some", e.v>>})
    <3>1. memory' = Unwrapped(memory, present)
      BY <1>2, <2>6 DEF UnwrapStep
    <3>2. present \in SUBSET memory.reach
      BY DEF Satisfy
    <3> HIDE DEF present
    <3>3. /\ memory' \in UnwrapMemory
          /\ memory'.conditional = memory.conditional /\ memory'.checked = memory.checked
          /\ memory'.frames = memory.frames /\ memory'.reach = present
          /\ memory'.panics = IF present = memory.reach THEN memory.panics
                                                        ELSE memory.panics \cup {Here}
      BY <1>1, <1>3, <3>1, <3>2, UnwrappedIs
    <3>4. memory'.panics \subseteq memory.panics \cup {Len(walked) + 1}
      BY <1>3, <3>3
    <3> QED BY <1>1, <1>2, <2>6, <3>2, <3>3, <3>4, UnwrapUnwrap
  <2> QED BY <1>2, <2>1, <2>2, <2>3, <2>4, <2>5, <2>6, UnwrapConstructsAre
<1>5. UnwrapType'
  <2>1. reported' \subseteq DOMAIN walked'
    BY <1>1, <1>2, <1>3
  <2> QED BY <1>3, <1>4, <2>1 DEF UnwrapType
<1>6. ASSUME NEW i, i = Here, i \in memory'.panics, i \notin reported'
      PROVE  \/ walked'[i].do = "test"
             \/ \E n \in 1 .. i : walked'[n].do = "else" /\ Scoped(walked', n, i)
             \/ \E n \in 1 .. i : walked'[n].do = "if" /\ Cardinality(walked'[n].v) > 1
             \/ \E n \in 1 .. i : walked'[n].do = "return" /\ DepthOf(walked', n) > 1
             \/ \E n \in 1 .. i : walked'[n].do = "try" /\ ~Scoped(walked', n, i)
  <2>1. i \notin memory.panics
    BY <1>1, <1>3, <1>6 DEF Believes
  <2>c. CASE e.do = "test"
    BY <1>3, <1>6, <2>c
  <2> SUFFICES ASSUME e.do # "test"
               PROVE  \/ \E n \in 1 .. i : walked'[n].do = "else" /\ Scoped(walked', n, i)
                      \/ \E n \in 1 .. i : walked'[n].do = "if" /\ Cardinality(walked'[n].v) > 1
                      \/ \E n \in 1 .. i : walked'[n].do = "return" /\ DepthOf(walked', n) > 1
                      \/ \E n \in 1 .. i : walked'[n].do = "try" /\ ~Scoped(walked', n, i)
    BY <2>c
  <2>2. e.do = "unwrap" /\ e.v \in Locals
    BY <1>2, <1>4, <1>6, <2>1, UnwrapConstructsAre
  <2> DEFINE present == Satisfy(memory.reach, {<<"is_some", e.v>>})
  <2>3. memory' = Unwrapped(memory, present)
    BY <1>2, <2>2 DEF UnwrapStep
  <2>4. present # memory.reach
    <3>1. present \in SUBSET memory.reach
      BY DEF Satisfy
    <3> HIDE DEF present
    <3> QED BY <1>1, <1>3, <1>6, <2>1, <2>3, <3>1, UnwrappedIs
  <2>5. memory.reach \in SUBSET Present
    BY <1>1 DEF UnwrapMemory
  <2>6. PICK p \in memory.reach : ~p[e.v]
    <3>1. \A p : p \in present <=> p \in memory.reach /\ p[e.v]
      BY <2>2, <2>5, SatisfySome
    <3> HIDE DEF present
    <3> QED BY <2>4, <3>1
  <2>7. Blind(memory) \/ e.v \in memory.checked
    BY <1>2, <1>6, <2>2 DEF IsMethodCallUnsafe
  <2>8. \A n \in 1 .. Len(walked) : /\ walked'[n] = walked[n] /\ n \in 1 .. i /\ n \in Nat
                                    /\ n \in 0 .. Len(walked)
    BY <1>1, <1>2, <1>3, <1>6
  <2>9. \A n \in 1 .. Len(walked) : /\ DepthOf(walked', n) = DepthOf(walked, n)
                                    /\ Scoped(walked', n, i) <=> Scoped(walked, n, i)
    <3>1. i \in 0 .. Len(walked) + 1
      BY <1>3, <1>6
    <3> QED BY <1>1, <1>2, <2>8, <3>1, DepthAppend, ScopedAppend
  <2>10. CASE Blind(memory)
    <3>1. PICK k \in DOMAIN memory.frames : memory.frames[k].in_else
      BY <2>10, BlindIs
    <3>2. k \in 1 .. Len(memory.frames)
      <4>1. memory.frames \in Seq(UnwrapFrames)
        BY <1>1 DEF UnwrapMemory
      <4> QED BY <4>1
    <3>3. PICK n \in 1 .. Len(walked) : walked[n].do = "else" /\ Scoped(walked, n, i)
      BY <1>1, <1>3, <1>6, <3>1, <3>2 DEF Believes, ElsesPassed, ElseFor
    <3> QED BY <2>8, <2>9, <3>3
  <2>11. CASE ~Blind(memory)
    <3>1. \A v : v \notin Hidden(walked, memory.frames)
      <4>1. memory.frames \in Seq(UnwrapFrames)
        BY <1>1 DEF UnwrapMemory
      <4>2. DOMAIN memory.frames = 1 .. Len(memory.frames)
        BY <4>1
      <4> QED BY <2>11, <4>2, BlindIs, HiddenIs
    <3>2. ~CheckedHere(memory, walked)
      BY <2>6, <2>7, <2>11, <3>1 DEF CheckedHere
    <3>3. PICK n \in 1 .. Len(walked) : Misled(walked, n, i)
      BY <1>1, <1>3, <1>6, <3>2 DEF Believes, Trusty
    <3> QED BY <2>8, <2>9, <3>3 DEF Misled
  <2> QED BY <2>10, <2>11
<1>7. UnwrapsReported'
  <2>1. /\ \A n : Depth(n)' = DepthOf(walked', n)
        /\ \A n, i : InScope(n, i)' <=> Scoped(walked', n, i)
    BY DEF Depth, DepthOf, Opened, Closed, InScope, Scoped
  <2>2. SUFFICES ASSUME NEW i \in Latest', i \in memory'.panics, i \notin reported'
                 PROVE  \/ walked'[i].do = "test"
                        \/ \E n \in 1 .. i : walked'[n].do = "else" /\ InScope(n, i)'
                        \/ \E n \in 1 .. i : walked'[n].do = "if" /\ Cardinality(walked'[n].v) > 1
                        \/ \E n \in 1 .. i : walked'[n].do = "return" /\ Depth(n)' > 1
                        \/ \E n \in 1 .. i : walked'[n].do = "try" /\ ~InScope(n, i)'
    BY DEF UnwrapsReported
  <2>3. i = Here
    BY <1>3 DEF Latest
  <2> QED BY <1>6, <2>1, <2>2, <2>3
<1> QED BY <1>4, <1>5, <1>7 DEF UnwrapInv

-----------------------------------------------------------------------------
GuardInv == /\ lint \in {"division-by-zero"} => DivisionInv
            /\ lint \in {"unsafe-unwrap"} => UnwrapInv

\* A detector that does nothing leaves what is known of it.
LEMMA GuardIdles ==
  ASSUME UNCHANGED walk
  PROVE  /\ DivisionInv' <=> DivisionInv
         /\ UnwrapInv' <=> UnwrapInv
<1>1. lint' = lint /\ walked' = walked /\ memory' = memory /\ reported' = reported
  BY DEF walk
<1>2. /\ \A n : Depth(n)' = Depth(n)
      /\ Latest' = Latest
  BY <1>1 DEF Depth, Latest
<1>3. \A n, i : (InScope(n, i)' <=> InScope(n, i)) /\ (Opens(n, i)' <=> Opens(n, i))
  BY <1>1, <1>2 DEF InScope, Opens
<1>4. \A n, i : Checks(n, i)' <=> Checks(n, i)
  <2> SUFFICES ASSUME NEW n, NEW i PROVE Checks(n, i)' <=> Checks(n, i)
    OBVIOUS
  <2> QED BY <1>1, <1>3 DEF Checks
<1>5. DivisionInv' <=> DivisionInv
  BY <1>1, <1>2, <1>4 DEF DivisionInv, DivisionType, DivisionBody, DivisionsReported
<1>6. UnwrapInv' <=> UnwrapInv
  BY <1>1, <1>2, <1>3 DEF UnwrapInv, UnwrapType, UnwrapsReported
<1> QED BY <1>5, <1>6

LEMMA DivisionInvariant ==
  Follows({"division-by-zero"}, DivisionStart, VisitDivision)
    => [](lint \in {"division-by-zero"} => DivisionInv)
<1>1. (lint \in {"division-by-zero"} => Begin(DivisionStart))
      => (lint \in {"division-by-zero"} => DivisionInv)
  <2> SUFFICES ASSUME lint = "division-by-zero", Begin(DivisionStart) PROVE DivisionInv
    OBVIOUS
  <2>1. /\ walked = <<>> /\ reported = {} /\ Len(walked) = 0
        /\ memory = [guarded |-> {}, nonempty |-> {}, scopes |-> <<>>]
    BY DEF Begin, DivisionStart
  <2>2. Open(walked) = {} /\ DepthOf(walked, 0) = 0 /\ Latest = {}
    BY <2>1, DepthZero DEF Open, Latest
  <2>3. DivisionType
    BY <2>1 DEF DivisionType, DivisionMemory, DivisionBody
  <2>4. GuardedAt(walked, 1) = {} /\ FilledAt(walked, 1) = {}
    BY DEF GuardedAt, FilledAt
  <2>5. Leveled(walked, 0)
    BY <2>1, <2>2 DEF Leveled
  <2>6. Keeps(memory, walked)
    BY <2>1, <2>2, <2>4, <2>5 DEF Keeps
  <2> QED BY <2>2, <2>3, <2>6 DEF DivisionInv, DivisionsReported
<1>2. /\ lint \in {"division-by-zero"} => DivisionInv
      /\ [IF lint \in {"division-by-zero"} THEN VisitDivision ELSE UNCHANGED lint]_walk
      => (lint \in {"division-by-zero"} => DivisionInv)'
  <2> SUFFICES ASSUME lint = "division-by-zero" => DivisionInv,
                      [IF lint \in {"division-by-zero"} THEN VisitDivision ELSE UNCHANGED lint]_walk,
                      lint' = "division-by-zero"
               PROVE  DivisionInv'
    OBVIOUS
  <2>1. lint' = lint
    <3>1. VisitDivision => lint' = lint
      BY DEF VisitDivision, Pass
    <3> QED BY <3>1 DEF walk
  <2>2. lint = "division-by-zero" /\ DivisionInv /\ (VisitDivision \/ UNCHANGED walk)
    BY <2>1
  <2>3. CASE VisitDivision
    <3>1. PICK e : DivisionPass(e)
      BY <2>3, VisitDivisionIs
    <3> QED BY <2>2, <3>1, DivisionFollows
  <2>4. CASE UNCHANGED walk
    BY <2>2, <2>4, GuardIdles
  <2> QED BY <2>2, <2>3, <2>4
<1> QED BY <1>1, <1>2, PTL DEF Follows

LEMMA UnwrapInvariant ==
  Follows({"unsafe-unwrap"}, UnwrapStart, VisitUnwrap)
    => [](lint \in {"unsafe-unwrap"} => UnwrapInv)
<1>1. (lint \in {"unsafe-unwrap"} => Begin(UnwrapStart))
      => (lint \in {"unsafe-unwrap"} => UnwrapInv)
  <2> SUFFICES ASSUME lint = "unsafe-unwrap", Begin(UnwrapStart) PROVE UnwrapInv
    OBVIOUS
  <2>1. /\ walked = <<>> /\ reported = {} /\ Len(walked) = 0
        /\ memory = [conditional |-> {}, checked |-> {}, frames |-> <<>>, reach |-> Present,
                     panics |-> {}]
    BY DEF Begin, UnwrapStart
  <2>2. Open(walked) = {} /\ DepthOf(walked, 0) = 0 /\ Latest = {}
    BY <2>1, DepthZero DEF Open, Latest
  <2>3. UnwrapType
    BY <2>1 DEF UnwrapType, UnwrapMemory
  <2>4. Believes(memory, walked)
    BY <2>1, <2>2 DEF Believes, ElsesPassed, OthersFail, ConditionsOpen, CheckedHere, CheckedAside
  <2> QED BY <2>2, <2>3, <2>4 DEF UnwrapInv, UnwrapsReported
<1>2. /\ lint \in {"unsafe-unwrap"} => UnwrapInv
      /\ [IF lint \in {"unsafe-unwrap"} THEN VisitUnwrap ELSE UNCHANGED lint]_walk
      => (lint \in {"unsafe-unwrap"} => UnwrapInv)'
  <2> SUFFICES ASSUME lint = "unsafe-unwrap" => UnwrapInv,
                      [IF lint \in {"unsafe-unwrap"} THEN VisitUnwrap ELSE UNCHANGED lint]_walk,
                      lint' = "unsafe-unwrap"
               PROVE  UnwrapInv'
    OBVIOUS
  <2>1. lint' = lint
    <3>1. VisitUnwrap => lint' = lint
      BY DEF VisitUnwrap, Pass
    <3> QED BY <3>1 DEF walk
  <2>2. lint = "unsafe-unwrap" /\ UnwrapInv /\ (VisitUnwrap \/ UNCHANGED walk)
    BY <2>1
  <2>3. CASE VisitUnwrap
    <3>1. PICK e : UnwrapPass(e)
      BY <2>3, VisitUnwrapIs
    <3> QED BY <2>2, <3>1, UnwrapFollows
  <2>4. CASE UNCHANGED walk
    BY <2>2, <2>4, GuardIdles
  <2> QED BY <2>2, <2>3, <2>4
<1> QED BY <1>1, <1>2, PTL DEF Follows

LEMMA GuardInvariant == GuardSpec => []GuardInv
BY DivisionInvariant, UnwrapInvariant, PTL DEF GuardSpec, GuardInv

\* The detectors of divisions and of unwraps believe only checks that protect the
\* operation: division-by-zero reports a division exactly when no check of its
\* divisor dominates it, and an unwrap that can panic is passed over only where
\* UnsafeChecks does not follow the program
\* (division-by-zero/src/lib.rs, unsafe-unwrap/src/lib.rs).
THEOREM GuardsAreJudged == GuardSpec => []GuardsJudged
<1>1. GuardInv => GuardsJudged
  BY DEF GuardInv, GuardsJudged, DivisionInv, UnwrapInv, DivisionsReported, UnwrapsReported
<1> QED BY <1>1, GuardInvariant, PTL

-----------------------------------------------------------------------------
(* Transfers of tokens: front-running.                                       *)

FrontBody(s) == s \in Seq(FrontConstructs)

ComparedPairs == {<<Amount, Param>>, <<Param, Amount>>, <<Amount, Other>>}

FrontFrames == [cond : ComparedPairs \cup {<<>>}, in_else : BOOLEAN, init : BOOLEAN]

FrontMemory == [frames : Seq(FrontFrames), conditional_checker : Seq(ComparedPairs),
                checked_hir_ids : SUBSET {Amount, Param, Other}, transfers : SUBSET Nat]

LEMMA ConstructIs ==
  ASSUME NEW e \in FrontConstructs
  PROVE  /\ e.do \in {"if", "else", "close", "return", "transfer", "end"}
         /\ e.cond \in ComparedPairs \cup {<<>>} /\ e.init \in BOOLEAN
         /\ e.do \in Opening <=> e.do = "if"
BY DEF FrontConstructs, ComparedPairs, Opening

LEMMA ComparisonIs ==
  /\ <<>> \notin ComparedPairs
  /\ \A c \in ComparedPairs :
       /\ AddToCheckedHirIds(c) \subseteq {Amount, Param, Other}
       /\ Amount \in AddToCheckedHirIds(c) <=> Param \in {c[k] : k \in DOMAIN c}
<1>1. <<>> \notin ComparedPairs
  BY DEF ComparedPairs
<1>2. ASSUME NEW c \in ComparedPairs
      PROVE  /\ AddToCheckedHirIds(c) \subseteq {Amount, Param, Other}
             /\ Amount \in AddToCheckedHirIds(c) <=> Param \in {c[k] : k \in DOMAIN c}
  <2>1. DOMAIN c = {1, 2} /\ c[1] \in {Amount, Param, Other} /\ c[2] \in {Amount, Param, Other}
    BY DEF ComparedPairs
  <2>2. AddToCheckedHirIds(c) = (IF c[2] = Param THEN {c[1]} ELSE {})
                                \cup (IF c[1] = Param THEN {c[2]} ELSE {})
    BY <2>1 DEF AddToCheckedHirIds
  <2>3. {c[k] : k \in DOMAIN c} = {c[1], c[2]}
    BY <2>1
  <2>4. (c[1] = Amount /\ c[2] \in {Param, Other}) \/ (c[1] = Param /\ c[2] = Amount)
    BY DEF ComparedPairs
  <2> QED BY <2>1, <2>2, <2>3, <2>4, AmountAssumption
<1> QED BY <1>1, <1>2

\* The `if` that the position i stands directly in.
Innermost(s, i, n) == /\ n \in 1 .. i - 1 /\ s[n].do = "if" /\ Scoped(s, n, i)
                      /\ DepthOf(s, n) = DepthOf(s, i - 1)

\* In front of i, the second branch of the `if` at n was begun.
ElseOf(s, i, n) == \E k \in n .. i - 1 : s[k].do = "else" /\ Innermost(s, k, n)

\* The visitor does not come to what stands directly at the position i.
Skipped(s, i) == \E n \in 1 .. i - 1 : /\ s[n].do = "if" /\ Scoped(s, n, i)
                                       /\ s[n].init \/ (s[n].cond # <<>> /\ ElseOf(s, i, n))

Limits(s, n) == Param \in {s[n].cond[k] : k \in DOMAIN s[n].cond}

\* Everything that is open at a position has an innermost one.
Rooted(s) ==
  /\ \A n \in 0 .. Len(s) : DepthOf(s, n) >= 0
  /\ \A i \in 1 .. Len(s) + 1 :
       DepthOf(s, i - 1) > 0 => \E n \in 1 .. i - 1 : Innermost(s, i, n)

\* Of two that are open the inner one is deeper, so none is deeper than the innermost.
LEMMA InnermostIsLast ==
  ASSUME NEW s, Rooted(s), NEW i \in 1 .. Len(s) + 1, Len(s) \in Nat,
         NEW o \in 1 .. i - 1, s[o].do = "if", Scoped(s, o, i)
  PROVE  /\ DepthOf(s, i - 1) > 0
         /\ \A n : Innermost(s, i, n) => o <= n
<1>1. DepthOf(s, o) = DepthOf(s, o - 1) + 1 /\ DepthOf(s, o) \in Int /\ DepthOf(s, o - 1) \in Int
  BY DepthStep DEF Opening
<1>2. DepthOf(s, o - 1) >= 0
  BY DEF Rooted
<1>3. DepthOf(s, i - 1) >= DepthOf(s, o) /\ i - 1 \in Nat
  BY DEF Scoped
<1>4. DepthOf(s, i - 1) \in Int
  BY <1>3, DepthNext
<1>5. ASSUME NEW n, Innermost(s, i, n) PROVE o <= n
  <2>1. /\ n \in 1 .. i - 1 /\ s[n].do = "if" /\ Scoped(s, n, i)
        /\ DepthOf(s, n) = DepthOf(s, i - 1)
    BY <1>5 DEF Innermost
  <2>2. ASSUME n < o PROVE FALSE
    <3>1. Scoped(s, n, o)
      BY <2>1 DEF Scoped
    <3>2. o \in Nat /\ n \in Nat /\ s[o].do # "close" /\ s[o].do \in Opening
      BY <2>1 DEF Opening
    <3>3. DepthOf(s, o) > DepthOf(s, n)
      BY <2>2, <3>1, <3>2, ScopedInside
    <3> QED BY <1>1, <1>3, <1>4, <2>1, <3>3
  <2> QED BY <2>1, <2>2
<1> QED BY <1>1, <1>2, <1>3, <1>4, <1>5

LEMMA AroundWhich ==
  ASSUME Rooted(walked), Len(walked) \in Nat, NEW i \in 1 .. Len(walked) + 1
  PROVE  /\ \A n \in Nat \ {0} : Around(i) = n <=> Innermost(walked, i, n)
         /\ Around(i) \in Nat
         /\ Around(i) = 0 => DepthOf(walked, i - 1) <= 0
<1> DEFINE open == {n \in 1 .. i - 1 : walked[n].do = "if" /\ InScope(n, i)}
<1>1. Around(i) = IF open = {} THEN 0 ELSE CHOOSE n \in open : \A o \in open : o <= n
  BY DEF Around
<1>2. \A o \in open : /\ o \in 1 .. i - 1 /\ walked[o].do = "if" /\ Scoped(walked, o, i)
                      /\ DepthOf(walked, i - 1) > 0
                      /\ \A n : Innermost(walked, i, n) => o <= n
  BY DepthIs, InnermostIsLast
<1>3. \A n : Innermost(walked, i, n) => n \in open /\ n \in Nat \ {0}
  BY DepthIs DEF Innermost
<1>4. i - 1 \in Nat /\ DepthOf(walked, i - 1) \in Int
  BY DepthNext
<1> HIDE DEF open
<1>5. ASSUME NEW n, Innermost(walked, i, n) PROVE Around(i) = n
  <2>1. n \in open /\ \A o \in open : o <= n
    BY <1>2, <1>3, <1>5
  <2>2. \A m \in open : (\A o \in open : o <= m) => m = n
    BY <1>2, <2>1
  <2> QED BY <1>1, <2>1, <2>2
<1>6. CASE DepthOf(walked, i - 1) > 0
  <2>1. PICK n : Innermost(walked, i, n)
    BY <1>6 DEF Rooted
  <2> QED BY <1>3, <1>4, <1>5, <1>6, <2>1
<1>7. CASE ~(DepthOf(walked, i - 1) > 0)
  <2>1. open = {}
    BY <1>2, <1>7
  <2> QED BY <1>1, <1>3, <1>4, <1>7, <2>1
<1> QED BY <1>6, <1>7

\* What is passed later does not change what stood around a position.
LEMMA FrontPrefix ==
  ASSUME NEW s, FrontBody(s), NEW e, NEW i \in 1 .. Len(s) + 1, NEW n
  PROVE  LET t == Append(s, e)
         IN  /\ Innermost(t, i, n) <=> Innermost(s, i, n)
             /\ n \in 1 .. i => (ElseOf(t, i, n) <=> ElseOf(s, i, n))
             /\ Skipped(t, i) <=> Skipped(s, i)
<1> DEFINE t == Append(s, e)
<1>1. /\ s \in Seq(FrontConstructs) /\ Len(s) \in Nat /\ \A k \in 1 .. Len(s) : t[k] = s[k]
      /\ \A k \in 0 .. Len(s) : DepthOf(t, k) = DepthOf(s, k)
      /\ \A m \in Nat, k \in 0 .. Len(s) + 1 : Scoped(t, m, k) <=> Scoped(s, m, k)
  BY OpenAppend DEF FrontBody
<1> HIDE DEF t
<1>2. \A m : \A k \in 1 .. Len(s) + 1 : Innermost(t, k, m) <=> Innermost(s, k, m)
  <2> SUFFICES ASSUME NEW k \in 1 .. Len(s) + 1, NEW m \in 1 .. k - 1
               PROVE  Innermost(t, k, m) <=> Innermost(s, k, m)
    BY DEF Innermost
  <2>1. k - 1 \in 0 .. Len(s) /\ m \in 0 .. Len(s) /\ m \in Nat /\ m \in 1 .. Len(s) /\ k \in 0 .. Len(s) + 1
    BY <1>1
  <2> QED BY <1>1, <2>1 DEF Innermost
<1>3. \A m \in 1 .. i : ElseOf(t, i, m) <=> ElseOf(s, i, m)
  <2> SUFFICES ASSUME NEW m \in 1 .. i, NEW k \in m .. i - 1
               PROVE  t[k].do = "else" /\ Innermost(t, k, m) <=> s[k].do = "else" /\ Innermost(s, k, m)
    BY DEF ElseOf
  <2>1. k \in 1 .. Len(s) /\ k \in 1 .. Len(s) + 1
    BY <1>1
  <2> QED BY <1>1, <1>2, <2>1
<1>4. Skipped(t, i) <=> Skipped(s, i)
  <2> SUFFICES ASSUME NEW m \in 1 .. i - 1
               PROVE  /\ t[m] = s[m] /\ (Scoped(t, m, i) <=> Scoped(s, m, i))
                      /\ ElseOf(t, i, m) <=> ElseOf(s, i, m)
    BY DEF Skipped
  <2>1. m \in 1 .. Len(s) /\ m \in Nat /\ m \in 1 .. i /\ i \in 0 .. Len(s) + 1
    BY <1>1
  <2> QED BY <1>1, <1>3, <2>1
<1> QED BY <1>2, <1>3, <1>4 DEF t

\* The frames are the ifs that are open here, the k-th the one at depth k.
Framed(s, fs) ==
  /\ Len(fs) = DepthOf(s, Len(s))
  /\ \A k \in 1 .. Len(fs) : \E n \in Open(s) : DepthOf(s, n) = k
  /\ \A n \in Open(s) : /\ DepthOf(s, n) \in 1 .. Len(fs)
                        /\ fs[DepthOf(s, n)].cond = s[n].cond /\ fs[DepthOf(s, n)].init = s[n].init
                        /\ fs[DepthOf(s, n)].in_else <=> ElseOf(s, Len(s) + 1, n)

\* The innermost `if` here is the one whose frame is on top.
LEMMA TopIsInnermost ==
  ASSUME NEW s, FrontBody(s), NEW fs, Framed(s, fs), NEW n
  PROVE  /\ n \in Open(s) <=> n \in 1 .. Len(s) /\ s[n].do = "if" /\ Scoped(s, n, Len(s) + 1)
         /\ Innermost(s, Len(s) + 1, n) <=> n \in Open(s) /\ DepthOf(s, n) = Len(fs)
<1>1. s \in Seq(FrontConstructs) /\ Len(s) \in Nat /\ DOMAIN s = 1 .. Len(s)
  BY DEF FrontBody
<1>2. \A k \in 1 .. Len(s) : s[k].do \in Opening <=> s[k].do = "if"
  BY <1>1, ConstructIs
<1>3. n \in Open(s) <=> n \in 1 .. Len(s) /\ s[n].do = "if" /\ Scoped(s, n, Len(s) + 1)
  BY <1>1, <1>2 DEF Open
<1>4. (Len(s) + 1) - 1 = Len(s)
  BY <1>1
<1> QED BY <1>3, <1>4 DEF Innermost, Framed

LEMMA RootedNext ==
  ASSUME NEW s, FrontBody(s), Rooted(s), NEW e, NEW fs, Framed(s, fs),
         NEW gs, Framed(Append(s, e), gs), Len(gs) \in Nat, FrontBody(Append(s, e))
  PROVE  Rooted(Append(s, e))
<1> DEFINE t == Append(s, e)
<1>1. /\ s \in Seq(FrontConstructs) /\ Len(s) \in Nat /\ Len(t) = Len(s) + 1
      /\ \A k \in 0 .. Len(s) : DepthOf(t, k) = DepthOf(s, k)
  BY OpenAppend DEF FrontBody
<1> HIDE DEF t
<1>2. \A n \in 0 .. Len(t) : DepthOf(t, n) >= 0
  <2>1. DepthOf(t, Len(t)) >= 0
    BY DEF Framed, t
  <2> QED BY <1>1, <2>1 DEF Rooted
<1>3. ASSUME NEW i \in 1 .. Len(t) + 1, DepthOf(t, i - 1) > 0
      PROVE  \E n \in 1 .. i - 1 : Innermost(t, i, n)
  <2>1. CASE i \in 1 .. Len(s) + 1
    <3>1. i - 1 \in 0 .. Len(s)
      BY <1>1, <2>1
    <3>2. \E n \in 1 .. i - 1 : Innermost(s, i, n)
      BY <1>1, <1>3, <2>1, <3>1 DEF Rooted
    <3> QED BY <2>1, <3>2, FrontPrefix DEF t
  <2>2. CASE i = Len(t) + 1
    <3>1. i - 1 = Len(t) /\ Len(gs) = DepthOf(t, Len(t))
      BY <1>1, <2>2 DEF Framed, t
    <3>2. PICK n \in Open(t) : DepthOf(t, n) = Len(gs)
      BY <1>3, <3>1 DEF Framed, t
    <3>3. Innermost(t, i, n)
      BY <2>2, <3>2, TopIsInnermost DEF t
    <3> QED BY <3>3 DEF Innermost
  <2> QED BY <1>1, <2>1, <2>2
<1> QED BY <1>2, <1>3 DEF Rooted, t

\* Whether the second branch of an open `if` was begun, when one more is passed.
LEMMA ElseNext ==
  ASSUME NEW s, FrontBody(s), NEW e \in FrontConstructs, NEW fs, Framed(s, fs), NEW n \in 1 .. Len(s)
  PROVE  ElseOf(Append(s, e), Len(s) + 2, n) <=>
           \/ ElseOf(s, Len(s) + 1, n)
           \/ e.do = "else" /\ n \in Open(s) /\ DepthOf(s, n) = Len(fs)
<1> DEFINE t == Append(s, e)
           here == Len(s) + 1
<1>1. /\ s \in Seq(FrontConstructs) /\ Len(s) \in Nat /\ t[here] = e
      /\ (Len(s) + 2) - 1 = here /\ here - 1 = Len(s) /\ here \in 1 .. Len(s) + 1
  BY DEF FrontBody
<1>2. n \in 1 .. here /\ n .. here = (n .. here - 1) \cup {here}
  BY <1>1
<1>3. ElseOf(t, here, n) <=> ElseOf(s, here, n)
  BY <1>1, <1>2, FrontPrefix
<1>4. Innermost(t, here, n) <=> n \in Open(s) /\ DepthOf(s, n) = Len(fs)
  BY <1>1, FrontPrefix, TopIsInnermost
<1> HIDE DEF t, here
<1>5. ElseOf(t, Len(s) + 2, n) <=> ElseOf(t, here, n) \/ (t[here].do = "else" /\ Innermost(t, here, n))
  BY <1>1, <1>2 DEF ElseOf
<1> QED BY <1>1, <1>3, <1>4, <1>5 DEF t, here

\* What becomes of the frames fs when e is passed.
Moved(fs, e, gs) ==
  /\ e.do = "if" => gs = Append(fs, [cond |-> e.cond, in_else |-> FALSE, init |-> e.init])
  /\ e.do = "else" => /\ Len(fs) > 0 /\ Len(gs) = Len(fs)
                      /\ \A k \in 1 .. Len(fs) : gs[k].cond = fs[k].cond /\ gs[k].init = fs[k].init
                      /\ \A k \in 1 .. Len(fs) - 1 : gs[k] = fs[k]
                      /\ gs[Len(fs)].in_else
  /\ e.do = "close" => /\ Len(fs) > 0 /\ Len(gs) = Len(fs) - 1
                       /\ \A k \in 1 .. Len(fs) - 1 : gs[k] = fs[k]
  /\ e.do \notin {"if", "else", "close"} => gs = fs

LEMMA FramedNext ==
  ASSUME NEW s, FrontBody(s), NEW e \in FrontConstructs, NEW fs \in Seq(FrontFrames),
         Framed(s, fs), NEW gs \in Seq(FrontFrames), Moved(fs, e, gs)
  PROVE  Framed(Append(s, e), gs)
<1> DEFINE t == Append(s, e)
           d == Len(fs)
           here == Len(s) + 1
<1>1. /\ s \in Seq(FrontConstructs) /\ Len(s) \in Nat /\ Len(t) = here /\ t[here] = e
      /\ d \in Nat /\ DOMAIN s = 1 .. Len(s) /\ \A k \in 1 .. Len(s) : t[k] = s[k]
      /\ Len(s) + 2 = here + 1
  BY DEF FrontBody
<1>2. /\ \A n \in 0 .. Len(s) : DepthOf(t, n) = DepthOf(s, n)
      /\ e.do = "if" => DepthOf(t, here) = d + 1 /\ Open(t) = Open(s) \cup {here}
      /\ e.do = "close" => /\ DepthOf(t, here) = d - 1
                           /\ Open(t) = {n \in Open(s) : DepthOf(s, n) < d}
      /\ e.do \notin {"if", "close"} => DepthOf(t, here) = d /\ Open(t) = Open(s)
  <2>1. e.do \in Opening <=> e.do = "if"
    BY ConstructIs
  <2>2. DepthOf(s, Len(s)) = d
    BY DEF Framed
  <2> HIDE DEF d
  <2> QED BY <1>1, <2>1, <2>2, OpenAppend
<1>3. \A n \in Open(s) : /\ n \in 1 .. Len(s) /\ DepthOf(s, n) \in 1 .. d
                         /\ fs[DepthOf(s, n)].cond = s[n].cond /\ fs[DepthOf(s, n)].init = s[n].init
                         /\ fs[DepthOf(s, n)].in_else <=> ElseOf(s, here, n)
  BY <1>1 DEF Framed, Open
<1>4. \A k \in 1 .. d : \E n \in Open(s) : DepthOf(s, n) = k
  BY DEF Framed
<1>5. \A n \in Open(s) : ElseOf(t, Len(t) + 1, n) <=>
                           ElseOf(s, here, n) \/ (e.do = "else" /\ DepthOf(s, n) = d)
  BY <1>1, <1>3, ElseNext
<1> HIDE DEF t, d, here
<1>6. CASE e.do = "if"
  <2>1. /\ gs = Append(fs, [cond |-> e.cond, in_else |-> FALSE, init |-> e.init]) /\ Len(gs) = d + 1
        /\ gs[d + 1].cond = e.cond /\ gs[d + 1].in_else = FALSE /\ gs[d + 1].init = e.init
        /\ \A k \in 1 .. d : gs[k] = fs[k]
    BY <1>6 DEF Moved, d
  <2>2. Len(gs) = DepthOf(t, Len(t)) /\ DepthOf(t, here) = d + 1
    BY <1>1, <1>2, <1>6, <2>1
  <2>3. ~ElseOf(t, Len(t) + 1, here)
    <3>1. here .. (Len(t) + 1) - 1 = {here}
      BY <1>1 DEF here
    <3> QED BY <1>1, <1>6, <3>1 DEF ElseOf
  <2>4. \A k \in 1 .. Len(gs) : \E n \in Open(t) : DepthOf(t, n) = k
    <3> SUFFICES ASSUME NEW k \in 1 .. d + 1 PROVE \E n \in Open(t) : DepthOf(t, n) = k
      BY <2>1
    <3>1. CASE k = d + 1
      BY <1>2, <1>6, <2>2, <3>1
    <3>2. CASE k # d + 1
      <4>1. k \in 1 .. d
        BY <1>1, <3>2
      <4>2. PICK n \in Open(s) : DepthOf(s, n) = k
        BY <1>4, <4>1
      <4>3. n \in 0 .. Len(s) /\ n \in Open(t)
        BY <1>2, <1>3, <1>6
      <4> QED BY <1>2, <4>2, <4>3
    <3> QED BY <3>1, <3>2
  <2>5. ASSUME NEW n \in Open(t)
        PROVE  /\ DepthOf(t, n) \in 1 .. Len(gs)
               /\ gs[DepthOf(t, n)].cond = t[n].cond /\ gs[DepthOf(t, n)].init = t[n].init
               /\ gs[DepthOf(t, n)].in_else <=> ElseOf(t, Len(t) + 1, n)
    <3>1. CASE n = here
      BY <1>1, <2>1, <2>2, <2>3, <3>1
    <3>2. CASE n # here
      <4>1. n \in Open(s) /\ n \in 0 .. Len(s)
        BY <1>2, <1>3, <1>6, <3>2
      <4>2. DepthOf(t, n) = DepthOf(s, n) /\ DepthOf(s, n) \in 1 .. d /\ t[n] = s[n]
        BY <1>1, <1>2, <1>3, <4>1
      <4> QED BY <1>1, <1>3, <1>5, <1>6, <2>1, <4>1, <4>2
    <3> QED BY <3>1, <3>2
  <2> QED BY <2>2, <2>4, <2>5 DEF Framed, t
<1>7. CASE e.do = "close"
  <2>1. /\ d > 0 /\ Len(gs) = d - 1 /\ \A k \in 1 .. d - 1 : gs[k] = fs[k]
    BY <1>7 DEF Moved, d
  <2>2. \A n \in Open(t) : /\ n \in Open(s) /\ DepthOf(t, n) = DepthOf(s, n)
                           /\ DepthOf(s, n) \in 1 .. d - 1 /\ t[n] = s[n]
    BY <1>1, <1>2, <1>3, <1>7
  <2>3. \A k \in 1 .. d - 1 : \E n \in Open(t) : DepthOf(t, n) = k
    <3> SUFFICES ASSUME NEW k \in 1 .. d - 1 PROVE \E n \in Open(t) : DepthOf(t, n) = k
      OBVIOUS
    <3>1. PICK n \in Open(s) : DepthOf(s, n) = k
      BY <1>1, <1>4
    <3>2. n \in Open(t)
      BY <1>1, <1>2, <1>7, <3>1
    <3> QED BY <2>2, <3>1, <3>2
  <2>4. ASSUME NEW n \in Open(t)
        PROVE  /\ DepthOf(t, n) \in 1 .. Len(gs)
               /\ gs[DepthOf(t, n)].cond = t[n].cond /\ gs[DepthOf(t, n)].init = t[n].init
               /\ gs[DepthOf(t, n)].in_else <=> ElseOf(t, Len(t) + 1, n)
    BY <1>3, <1>5, <1>7, <2>1, <2>2
  <2>5. Len(gs) = DepthOf(t, Len(t))
    BY <1>1, <1>2, <1>7, <2>1
  <2> QED BY <2>1, <2>3, <2>4, <2>5 DEF Framed, t
<1>8. CASE e.do \notin {"if", "close"}
  <2>1. /\ Len(gs) = d /\ \A k \in 1 .. d : gs[k].cond = fs[k].cond /\ gs[k].init = fs[k].init
        /\ \A k \in 1 .. d : gs[k].in_else <=> fs[k].in_else \/ (e.do = "else" /\ k = d)
    <3>1. CASE e.do = "else"
      <4>1. /\ d > 0 /\ Len(gs) = d /\ \A k \in 1 .. d : gs[k].cond = fs[k].cond /\ gs[k].init = fs[k].init
            /\ \A k \in 1 .. d - 1 : gs[k] = fs[k]
            /\ gs[d].in_else
        BY <3>1 DEF Moved, d
      <4>2. \A k \in 1 .. d : k = d \/ k \in 1 .. d - 1
        BY <1>1
      <4>3. \A k \in 1 .. d - 1 : k # d
        BY <1>1
      <4> QED BY <3>1, <4>1, <4>2, <4>3
    <3>2. CASE e.do # "else"
      BY <1>8, <3>2 DEF Moved, d
    <3> QED BY <3>1, <3>2
  <2>2. /\ Open(t) = Open(s) /\ DepthOf(t, Len(t)) = d
        /\ \A n \in Open(s) : DepthOf(t, n) = DepthOf(s, n) /\ t[n] = s[n]
    BY <1>1, <1>2, <1>3, <1>8
  <2>3. \A n \in Open(s) : gs[DepthOf(s, n)].in_else <=> ElseOf(t, Len(t) + 1, n)
    BY <1>3, <1>5, <2>1
  <2>4. Len(gs) = DepthOf(t, Len(t)) /\ \A k \in 1 .. Len(gs) : \E n \in Open(t) : DepthOf(t, n) = k
    BY <1>4, <2>1, <2>2
  <2>5. ASSUME NEW n \in Open(t)
        PROVE  /\ DepthOf(t, n) \in 1 .. Len(gs)
               /\ gs[DepthOf(t, n)].cond = t[n].cond /\ gs[DepthOf(t, n)].init = t[n].init
               /\ gs[DepthOf(t, n)].in_else <=> ElseOf(t, Len(t) + 1, n)
    <3>1. n \in Open(s) /\ DepthOf(t, n) = DepthOf(s, n) /\ t[n] = s[n]
      BY <2>2
    <3>2. /\ DepthOf(s, n) \in 1 .. d /\ fs[DepthOf(s, n)].cond = s[n].cond
          /\ fs[DepthOf(s, n)].init = s[n].init
      BY <1>3, <3>1
    <3> QED BY <2>1, <2>3, <3>1, <3>2
  <2> QED BY <2>4, <2>5 DEF Framed, t
<1> QED BY <1>6, <1>7, <1>8

-----------------------------------------------------------------------------
\* The comparisons whose first branch this is, and that the visitor came to.
Visited(fs) == {k \in 1 .. Len(fs) : /\ fs[k].cond # <<>>
                                     /\ \A j \in 1 .. k : ~Unvisited(fs[j])}

\* conditions holds those of the frames in V, in their order.
Listed(V, fs, conditions) ==
  \E at \in [1 .. Len(conditions) -> V] :
    /\ \A k \in V : \E j \in 1 .. Len(conditions) : at[j] = k
    /\ \A j, k \in 1 .. Len(conditions) : j < k => at[j] < at[k]
    /\ \A j \in 1 .. Len(conditions) : conditions[j] = fs[at[j]].cond

Hides(fs) == \E k \in 1 .. Len(fs) : Unvisited(fs[k])

LEMMA ListedPush ==
  ASSUME NEW fs, NEW gs, NEW V, V \subseteq Nat, NEW d \in Nat, \A k \in V : k < d /\ gs[k] = fs[k],
         NEW cs \in Seq(ComparedPairs), Listed(V, fs, cs), NEW c \in ComparedPairs, gs[d].cond = c
  PROVE  Listed(V \cup {d}, gs, Append(cs, c))
<1> DEFINE next == Append(cs, c)
           n == Len(cs)
<1>1. PICK at \in [1 .. n -> V] :
        /\ \A k \in V : \E j \in 1 .. n : at[j] = k
        /\ \A j, k \in 1 .. n : j < k => at[j] < at[k]
        /\ \A j \in 1 .. n : cs[j] = fs[at[j]].cond
  BY DEF Listed
<1>2. n \in Nat /\ Len(next) = n + 1 /\ next[n + 1] = c /\ \A j \in 1 .. n : next[j] = cs[j]
  OBVIOUS
<1> DEFINE new == [j \in 1 .. n + 1 |-> IF j = n + 1 THEN d ELSE at[j]]
<1> HIDE DEF next, n
<1>3. \A j \in 1 .. n + 1 : j = n + 1 \/ j \in 1 .. n
  BY <1>2
<1>4. /\ new \in [1 .. n + 1 -> V \cup {d}] /\ new[n + 1] = d
      /\ \A j \in 1 .. n : new[j] = at[j] /\ at[j] \in V
  BY <1>1, <1>2, <1>3
<1> HIDE DEF new
<1>5. \A k \in V \cup {d} : \E j \in 1 .. n + 1 : new[j] = k
  <2>1. n + 1 \in 1 .. n + 1 /\ \A j \in 1 .. n : j \in 1 .. n + 1
    BY <1>2
  <2> QED BY <1>1, <1>4, <2>1
<1>6. ASSUME NEW j \in 1 .. n + 1, NEW k \in 1 .. n + 1, j < k
      PROVE  new[j] < new[k]
  <2>1. j \in 1 .. n
    BY <1>2, <1>6
  <2>2. CASE k = n + 1
    BY <1>4, <2>1, <2>2
  <2>3. CASE k # n + 1
    BY <1>1, <1>3, <1>4, <1>6, <2>1, <2>3
  <2> QED BY <2>2, <2>3
<1>7. ASSUME NEW j \in 1 .. n + 1 PROVE next[j] = gs[new[j]].cond
  <2>1. CASE j = n + 1
    BY <1>2, <1>4, <2>1
  <2>2. CASE j # n + 1
    <3>1. j \in 1 .. n
      BY <1>3, <2>2
    <3>2. next[j] = fs[at[j]].cond /\ new[j] = at[j] /\ at[j] \in V
      BY <1>1, <1>2, <1>4, <3>1
    <3> QED BY <3>2
  <2> QED BY <2>1, <2>2
<1> QED BY <1>2, <1>4, <1>5, <1>6, <1>7 DEF Listed, next

\* The last one listed is the innermost one.
LEMMA ListedTop ==
  ASSUME NEW fs, NEW V, V \subseteq Nat, NEW cs \in Seq(ComparedPairs), Listed(V, fs, cs)
  PROVE  /\ cs = <<>> <=> V = {}
         /\ cs # <<>> => \E k \in V : Top(cs) = fs[k].cond /\ \A j \in V : j <= k
<1>1. PICK at \in [1 .. Len(cs) -> V] :
        /\ \A k \in V : \E j \in 1 .. Len(cs) : at[j] = k
        /\ \A j, k \in 1 .. Len(cs) : j < k => at[j] < at[k]
        /\ \A j \in 1 .. Len(cs) : cs[j] = fs[at[j]].cond
  BY DEF Listed
<1>2. Len(cs) \in Nat /\ (cs = <<>> <=> Len(cs) = 0)
  BY EmptySeq
<1>3. CASE Len(cs) = 0
  BY <1>1, <1>2, <1>3
<1>4. CASE Len(cs) # 0
  <2>1. Len(cs) \in 1 .. Len(cs) /\ at[Len(cs)] \in V
    BY <1>1, <1>2, <1>4
  <2>2. \A k \in V : k <= at[Len(cs)]
    <3> SUFFICES ASSUME NEW k \in V PROVE k <= at[Len(cs)]
      OBVIOUS
    <3>1. PICK j \in 1 .. Len(cs) : at[j] = k
      BY <1>1
    <3>2. CASE j = Len(cs)
      BY <2>1, <3>1, <3>2
    <3>3. CASE j # Len(cs)
      <4>1. j < Len(cs)
        BY <1>2, <3>3
      <4>2. at[j] < at[Len(cs)] /\ at[j] \in Nat /\ at[Len(cs)] \in Nat
        BY <1>1, <2>1, <3>1, <4>1
      <4> QED BY <3>1, <4>2
    <3> QED BY <3>2, <3>3
  <2> QED BY <1>1, <1>2, <1>4, <2>1, <2>2 DEF Top
<1> QED BY <1>3, <1>4

LEMMA ListedPop ==
  ASSUME NEW fs, NEW gs, NEW V, V \subseteq Nat, NEW d \in V,
         \A k \in V : k <= d, \A k \in V \ {d} : gs[k].cond = fs[k].cond,
         NEW cs \in Seq(ComparedPairs), Listed(V, fs, cs)
  PROVE  /\ cs # <<>> /\ Pop(cs) \in Seq(ComparedPairs)
         /\ Listed(V \ {d}, gs, Pop(cs))
<1>1. PICK at \in [1 .. Len(cs) -> V] :
        /\ \A k \in V : \E j \in 1 .. Len(cs) : at[j] = k
        /\ \A j, k \in 1 .. Len(cs) : j < k => at[j] < at[k]
        /\ \A j \in 1 .. Len(cs) : cs[j] = fs[at[j]].cond
  BY DEF Listed
<1>2. PICK last \in 1 .. Len(cs) : at[last] = d
  BY <1>1
<1>3. Len(cs) \in Nat /\ Len(cs) # 0
  BY <1>2
<1>4. last = Len(cs)
  <2> SUFFICES ASSUME last # Len(cs) PROVE FALSE
    OBVIOUS
  <2>1. last < Len(cs) /\ Len(cs) \in 1 .. Len(cs)
    BY <1>3
  <2>2. at[last] < at[Len(cs)] /\ at[Len(cs)] \in V
    BY <1>1, <2>1
  <2>3. at[Len(cs)] <= d /\ at[Len(cs)] \in Nat /\ d \in Nat
    BY <2>2
  <2> QED BY <1>2, <2>2, <2>3
<1> DEFINE next == Pop(cs)
           n == Len(cs) - 1
           new == [j \in 1 .. n |-> at[j]]
<1>5. /\ next \in Seq(ComparedPairs) /\ Len(next) = n /\ n \in Nat
      /\ \A j \in 1 .. n : next[j] = cs[j]
  BY <1>3, Popped
<1>6. \A j \in 1 .. n : j \in 1 .. Len(cs) /\ j < Len(cs)
  BY <1>3
<1> HIDE DEF next, n
<1>7. \A j \in 1 .. n : at[j] \in V \ {d} /\ new[j] = at[j]
  <2>1. \A j \in 1 .. n : at[j] < d /\ at[j] \in V
    BY <1>1, <1>2, <1>4, <1>6
  <2> QED BY <2>1
<1>8. new \in [1 .. n -> V \ {d}]
  BY <1>7
<1>9. \A k \in V \ {d} : \E j \in 1 .. n : new[j] = k
  <2> SUFFICES ASSUME NEW k \in V \ {d} PROVE \E j \in 1 .. n : new[j] = k
    OBVIOUS
  <2>1. PICK j \in 1 .. Len(cs) : at[j] = k
    BY <1>1
  <2>2. j # Len(cs)
    BY <1>2, <1>4, <2>1
  <2>3. j \in 1 .. n
    BY <1>3, <2>2 DEF n
  <2> QED BY <1>7, <2>1, <2>3
<1> HIDE DEF new
<1>10. \A j, k \in 1 .. n : j < k => new[j] < new[k]
  BY <1>1, <1>6, <1>7
<1>11. ASSUME NEW j \in 1 .. n PROVE next[j] = gs[new[j]].cond
  <2>1. next[j] = fs[at[j]].cond /\ new[j] = at[j] /\ at[j] \in V \ {d}
    BY <1>1, <1>5, <1>6, <1>7
  <2> QED BY <2>1
<1>12. Listed(V \ {d}, gs, next)
  BY <1>5, <1>8, <1>9, <1>10, <1>11 DEF Listed
<1> QED BY <1>3, <1>5, <1>12, EmptySeq DEF next

\* Frames that look the same where it matters list the same.
LEMMA ListedSame ==
  ASSUME NEW fs, NEW gs, NEW V, \A k \in V : gs[k].cond = fs[k].cond, NEW cs, Listed(V, fs, cs)
  PROVE  Listed(V, gs, cs)
BY DEF Listed

-----------------------------------------------------------------------------
\* The comparison whose first branch ends here is one that the visitor came to.
LeavesVisited(fs) == Top(fs).cond # <<>> /\ ~Top(fs).in_else /\ ~Top(fs).init /\ ~Hides(Pop(fs))

LEMMA UnseenIs ==
  ASSUME NEW m \in FrontMemory
  PROVE  /\ Unseen(m) <=> Hides(m.frames)
         /\ Len(m.frames) > 0 => (Unseen([m EXCEPT !.frames = Pop(@)]) <=> Hides(Pop(m.frames)))
<1>1. m.frames \in Seq(FrontFrames) /\ DOMAIN m.frames = 1 .. Len(m.frames)
  BY DEF FrontMemory
<1>2. Unseen(m) <=> Hides(m.frames)
  BY <1>1 DEF Unseen, Hides
<1>3. ASSUME Len(m.frames) > 0
      PROVE  Unseen([m EXCEPT !.frames = Pop(@)]) <=> Hides(Pop(m.frames))
  <2> DEFINE before == [m EXCEPT !.frames = Pop(@)]
             p == Pop(m.frames)
  <2>1. before.frames = p
    BY DEF FrontMemory
  <2>2. p \in Seq(FrontFrames)
    BY <1>1, <1>3, Popped
  <2>3. DOMAIN p = 1 .. Len(p)
    BY <2>2
  <2> HIDE DEF before, p
  <2>4. Unseen(before) <=> Hides(p)
    BY <2>1, <2>3 DEF Unseen, Hides
  <2> QED BY <2>4 DEF before, p
<1> QED BY <1>2, <1>3

LEMMA LeaveBranchIs ==
  ASSUME NEW m \in FrontMemory, Len(m.frames) > 0,
         LeavesVisited(m.frames) => m.conditional_checker # <<>>
  PROVE  /\ LeaveBranch(m) \in FrontMemory /\ LeaveBranch(m).frames = m.frames
         /\ LeaveBranch(m).checked_hir_ids = m.checked_hir_ids /\ LeaveBranch(m).transfers = m.transfers
         /\ LeaveBranch(m).conditional_checker
              = IF LeavesVisited(m.frames) THEN Pop(m.conditional_checker) ELSE m.conditional_checker
<1>1. LeaveBranch(m) = IF LeavesVisited(m.frames)
                       THEN [m EXCEPT !.conditional_checker = Pop(m.conditional_checker)] ELSE m
  BY UnseenIs DEF LeaveBranch, LeavesVisited
<1>2. CASE ~LeavesVisited(m.frames)
  BY <1>1, <1>2
<1>3. CASE LeavesVisited(m.frames)
  <2> DEFINE p == Pop(m.conditional_checker)
  <2>1. m.conditional_checker \in Seq(ComparedPairs) /\ Len(m.conditional_checker) > 0
    BY <1>3, EmptySeq DEF FrontMemory
  <2>2. p \in Seq(ComparedPairs)
    BY <2>1, Popped
  <2>3. LeaveBranch(m) = [m EXCEPT !.conditional_checker = p]
    BY <1>1, <1>3
  <2> HIDE DEF p
  <2>4. /\ LeaveBranch(m) \in FrontMemory /\ LeaveBranch(m).frames = m.frames
        /\ LeaveBranch(m).checked_hir_ids = m.checked_hir_ids /\ LeaveBranch(m).transfers = m.transfers
        /\ LeaveBranch(m).conditional_checker = p
    BY <2>2, <2>3 DEF FrontMemory
  <2> QED BY <1>3, <2>4 DEF p
<1> QED BY <1>2, <1>3

\* The memory after a step, by what was passed.
LEMMA FrontStepIs ==
  ASSUME NEW m \in FrontMemory, NEW e \in FrontConstructs, Len(walked) \in Nat,
         e.do = "else" => Len(m.frames) > 0,
         e.do = "close" => Len(m.frames) > 0,
         Len(m.frames) > 0 /\ LeavesVisited(m.frames) => m.conditional_checker # <<>>
  PROVE  LET next == FrontStep(m, e)
         IN  /\ next \in FrontMemory /\ Moved(m.frames, e, next.frames)
             /\ next.conditional_checker =
                  CASE e.do = "if" -> IF e.cond = <<>> \/ e.init \/ Hides(m.frames) THEN m.conditional_checker
                                      ELSE Append(m.conditional_checker, e.cond)
                    [] e.do \in {"else", "close"} ->
                         IF LeavesVisited(m.frames) THEN Pop(m.conditional_checker)
                         ELSE m.conditional_checker
                    [] OTHER -> m.conditional_checker
             /\ next.checked_hir_ids =
                  IF e.do = "return" /\ ~e.init /\ ~Hides(m.frames) /\ m.conditional_checker # <<>>
                  THEN m.checked_hir_ids \cup AddToCheckedHirIds(Top(m.conditional_checker))
                  ELSE m.checked_hir_ids
             /\ next.transfers = IF e.do = "transfer" /\ ~e.init /\ ~Hides(m.frames) THEN m.transfers \cup {Here}
                                 ELSE m.transfers
<1> DEFINE next == FrontStep(m, e)
           fs == m.frames
           cs == m.conditional_checker
           d == Len(fs)
<1>1. /\ fs \in Seq(FrontFrames) /\ cs \in Seq(ComparedPairs) /\ d \in Nat /\ DOMAIN fs = 1 .. d
      /\ m.checked_hir_ids \subseteq {Amount, Param, Other} /\ m.transfers \subseteq Nat
      /\ m = [frames |-> fs, conditional_checker |-> cs, checked_hir_ids |-> m.checked_hir_ids,
              transfers |-> m.transfers]
  BY DEF FrontMemory
<1>2. Unseen(m) <=> Hides(fs)
  BY UnseenIs
<1>3. e.cond \in ComparedPairs \cup {<<>>} /\ e.init \in BOOLEAN /\ Here \in Nat
  BY ConstructIs DEF Here
<1>4. CASE e.do = "if"
  <2> DEFINE f == [cond |-> e.cond, in_else |-> FALSE, init |-> e.init]
             gs == Append(fs, f)
             new == IF e.cond = <<>> \/ e.init \/ Hides(fs) THEN cs ELSE Append(cs, e.cond)
  <2>1. next = [m EXCEPT !.frames = gs, !.conditional_checker = new]
    BY <1>2, <1>4 DEF FrontStep
  <2>2. f \in FrontFrames
    BY <1>3 DEF FrontFrames
  <2>3. gs \in Seq(FrontFrames) /\ new \in Seq(ComparedPairs)
    BY <1>1, <1>3, <2>2
  <2>4. Moved(fs, e, gs)
    BY <1>4 DEF Moved
  <2> HIDE DEF next, gs, new, fs, cs
  <2>5. /\ next \in FrontMemory /\ next.frames = gs /\ next.conditional_checker = new
        /\ next.checked_hir_ids = m.checked_hir_ids /\ next.transfers = m.transfers
    BY <2>1, <2>3 DEF FrontMemory
  <2> QED BY <1>4, <2>4, <2>5 DEF next, new, fs, cs
<1>5. CASE e.do = "else"
  <2> DEFINE b == LeaveBranch(m)
             g == [fs[d] EXCEPT !.in_else = TRUE]
             gs == [fs EXCEPT ![d] = g]
  <2>1. /\ b \in FrontMemory /\ b.frames = fs
        /\ b.checked_hir_ids = m.checked_hir_ids /\ b.transfers = m.transfers
        /\ b.conditional_checker = IF LeavesVisited(fs) THEN Pop(cs) ELSE cs
    BY <1>5, LeaveBranchIs
  <2>2. next = [b EXCEPT !.frames = gs]
    BY <1>5, <2>1 DEF FrontStep, FrontMemory
  <2>3. d \in 1 .. d /\ fs[d] \in FrontFrames
    BY <1>1, <1>5
  <2>4. g \in FrontFrames /\ g.in_else /\ g.cond = fs[d].cond /\ g.init = fs[d].init
    BY <2>3 DEF FrontFrames
  <2> HIDE DEF g, next, b, d
  <2>5. /\ gs \in Seq(FrontFrames) /\ Len(gs) = d /\ gs[d] = g
        /\ \A k \in 1 .. d : k # d => gs[k] = fs[k]
    <3>1. DOMAIN gs = 1 .. d /\ \A k \in 1 .. d : gs[k] = IF k = d THEN g ELSE fs[k]
      BY <1>1
    <3>2. \A k \in 1 .. d : fs[k] \in FrontFrames
      BY <1>1
    <3>3. gs = [k \in 1 .. d |-> IF k = d THEN g ELSE fs[k]]
      BY <1>1
    <3> HIDE DEF gs
    <3>4. gs \in [1 .. d -> FrontFrames]
      BY <2>4, <3>2, <3>3
    <3>5. gs \in Seq(FrontFrames) /\ Len(gs) = d
      BY <1>1, <3>4
    <3> QED BY <2>3, <3>1, <3>5
  <2> HIDE DEF gs
  <2>6. Moved(fs, e, gs)
    <3>1. \A k \in 1 .. d - 1 : k \in 1 .. d /\ k # d
      BY <1>1
    <3>2. \A k \in 1 .. d : gs[k].cond = fs[k].cond /\ gs[k].init = fs[k].init
      BY <2>4, <2>5
    <3> QED BY <1>5, <2>3, <2>4, <2>5, <3>1, <3>2 DEF Moved, d
  <2>7. /\ next \in FrontMemory /\ next.frames = gs
        /\ next.conditional_checker = b.conditional_checker
        /\ next.checked_hir_ids = b.checked_hir_ids /\ next.transfers = b.transfers
    BY <2>1, <2>2, <2>5 DEF FrontMemory
  <2> QED BY <1>5, <2>1, <2>6, <2>7 DEF next
<1>6. CASE e.do = "close"
  <2> DEFINE b == LeaveBranch(m)
             gs == Pop(fs)
  <2>1. /\ b \in FrontMemory /\ b.frames = fs
        /\ b.checked_hir_ids = m.checked_hir_ids /\ b.transfers = m.transfers
        /\ b.conditional_checker = IF LeavesVisited(fs) THEN Pop(cs) ELSE cs
    BY <1>6, LeaveBranchIs
  <2>2. next = [b EXCEPT !.frames = gs]
    BY <1>6, <2>1 DEF FrontStep, FrontMemory
  <2>3. /\ gs \in Seq(FrontFrames) /\ Len(gs) = d - 1 /\ d > 0
        /\ \A k \in 1 .. d - 1 : gs[k] = fs[k]
    BY <1>1, <1>6, Popped
  <2> HIDE DEF next, b, gs
  <2>4. Moved(fs, e, gs)
    BY <1>6, <2>3 DEF Moved
  <2>5. /\ next \in FrontMemory /\ next.frames = gs
        /\ next.conditional_checker = b.conditional_checker
        /\ next.checked_hir_ids = b.checked_hir_ids /\ next.transfers = b.transfers
    BY <2>1, <2>2, <2>3 DEF FrontMemory
  <2> QED BY <1>6, <2>1, <2>4, <2>5 DEF next
<1>7. CASE e.do = "return" /\ ~e.init
  <2>1. Moved(fs, e, fs)
    BY <1>7 DEF Moved
  <2>2. next = IF Hides(fs) \/ cs = <<>> THEN m
               ELSE [m EXCEPT !.checked_hir_ids = m.checked_hir_ids \cup AddToCheckedHirIds(Top(cs))]
    BY <1>2, <1>7 DEF FrontStep, Returned
  <2>3. CASE Hides(fs) \/ cs = <<>>
    BY <1>7, <2>1, <2>2, <2>3
  <2>4. CASE ~(Hides(fs) \/ cs = <<>>)
    <3> DEFINE new == m.checked_hir_ids \cup AddToCheckedHirIds(Top(cs))
    <3>1. Top(cs) \in ComparedPairs
      <4>1. cs \in Seq(ComparedPairs) /\ cs # <<>>
        BY <1>1, <2>4
      <4> HIDE DEF cs
      <4>2. Len(cs) \in 1 .. Len(cs)
        BY <4>1, EmptySeq
      <4>3. cs[Len(cs)] \in ComparedPairs
        BY <4>1, <4>2
      <4> QED BY <4>3 DEF Top
    <3>2. new \subseteq {Amount, Param, Other}
      BY <1>1, <3>1, ComparisonIs
    <3>3. next = [m EXCEPT !.checked_hir_ids = new]
      BY <2>2, <2>4
    <3> HIDE DEF new, next
    <3>4. /\ next \in FrontMemory /\ next.frames = fs /\ next.conditional_checker = cs
          /\ next.checked_hir_ids = new /\ next.transfers = m.transfers
      BY <3>2, <3>3 DEF FrontMemory
    <3> QED BY <1>7, <2>1, <2>4, <3>4 DEF new, next
  <2> QED BY <2>3, <2>4
<1>8. CASE e.do = "transfer" /\ ~e.init
  <2> DEFINE new == IF Hides(fs) THEN m.transfers ELSE m.transfers \cup {Here}
  <2>1. Moved(fs, e, fs)
    BY <1>8 DEF Moved
  <2>2. next = [m EXCEPT !.transfers = new]
    BY <1>2, <1>8 DEF FrontStep
  <2>3. new \subseteq Nat
    BY <1>1, <1>3
  <2> HIDE DEF new, next
  <2>4. /\ next \in FrontMemory /\ next.frames = fs /\ next.conditional_checker = cs
        /\ next.checked_hir_ids = m.checked_hir_ids /\ next.transfers = new
    BY <2>2, <2>3 DEF FrontMemory
  <2> QED BY <1>8, <2>1, <2>4 DEF new, next
<1>9. CASE e.do = "end" \/ (e.do \in {"return", "transfer"} /\ e.init)
  <2>1. next = m /\ Moved(fs, e, fs)
    BY <1>9 DEF FrontStep, Moved
  <2> QED BY <1>9, <2>1
<1> QED BY <1>4, <1>5, <1>6, <1>7, <1>8, <1>9, ConstructIs

LEMMA TopVisited ==
  ASSUME NEW fs \in Seq(FrontFrames), Len(fs) > 0
  PROVE  LeavesVisited(fs) <=> Len(fs) \in Visited(fs)
<1> DEFINE d == Len(fs)
           p == Pop(fs)
<1>1. d \in Nat /\ d \in 1 .. d /\ Len(p) = d - 1 /\ \A k \in 1 .. d - 1 : p[k] = fs[k]
  BY Popped
<1>2. Hides(p) <=> \E k \in 1 .. d - 1 : Unvisited(fs[k])
  BY <1>1 DEF Hides
<1>5. fs[d].cond # <<>> => (Unvisited(fs[d]) <=> fs[d].in_else \/ fs[d].init)
  BY DEF Unvisited
<1>3. 1 .. d = (1 .. d - 1) \cup {d}
  BY <1>1
<1>4. d \in Visited(fs) <=> fs[d].cond # <<>> /\ \A j \in 1 .. d : ~Unvisited(fs[j])
  BY <1>1 DEF Visited
<1> HIDE DEF p
<1> QED BY <1>2, <1>3, <1>4, <1>5 DEF LeavesVisited, Top, p

\* The detector's conditions are always those of the comparisons that it came to and
\* whose first branch this is.
LEMMA ListedNext ==
  ASSUME NEW fs \in Seq(FrontFrames), NEW cs \in Seq(ComparedPairs), Listed(Visited(fs), fs, cs),
         NEW e \in FrontConstructs, NEW gs \in Seq(FrontFrames), Moved(fs, e, gs),
         e.do = "else" => ~Top(fs).in_else, NEW new,
         new = CASE e.do = "if" -> IF e.cond = <<>> \/ e.init \/ Hides(fs) THEN cs ELSE Append(cs, e.cond)
                 [] e.do \in {"else", "close"} -> IF LeavesVisited(fs) THEN Pop(cs) ELSE cs
                 [] OTHER -> cs
  PROVE  Listed(Visited(gs), gs, new)
<1> DEFINE d == Len(fs)
           V == Visited(fs)
<1>1. /\ d \in Nat /\ V \subseteq Nat /\ V \subseteq 1 .. d /\ \A k \in V : k < d + 1 /\ k <= d
      /\ d + 1 \notin 1 .. d /\ (d + 1) - 1 = d
  BY DEF Visited
<1>2. \A k : k \in V <=> /\ k \in 1 .. d /\ fs[k].cond # <<>>
                         /\ \A j \in 1 .. k : ~Unvisited(fs[j])
  BY DEF Visited
<1>3. \A k : k \in Visited(gs) <=> /\ k \in 1 .. Len(gs) /\ gs[k].cond # <<>>
                                   /\ \A j \in 1 .. k : ~Unvisited(gs[j])
  BY DEF Visited
<1>4. \A k \in 1 .. d : \A j \in 1 .. k : j \in 1 .. d
  BY <1>1
<1>5. CASE e.do = "if"
  <2>1. /\ Len(gs) = d + 1 /\ gs[d + 1].cond = e.cond /\ (Unvisited(gs[d + 1]) <=> e.init)
        /\ \A k \in 1 .. d : gs[k] = fs[k]
    BY <1>5, ConstructIs DEF Moved, Unvisited
  <2>2. new = IF e.cond = <<>> \/ e.init \/ Hides(fs) THEN cs ELSE Append(cs, e.cond)
    BY <1>5
  <2> HIDE DEF V, d
  <2>3. \A k \in 1 .. d : k \in Visited(gs) <=> k \in V
    <3> SUFFICES ASSUME NEW k \in 1 .. d PROVE k \in Visited(gs) <=> k \in V
      OBVIOUS
    <3>1. k \in 1 .. Len(gs) /\ gs[k] = fs[k]
      BY <1>1, <2>1
    <3>2. \A j \in 1 .. k : gs[j] = fs[j]
      BY <1>4, <2>1
    <3>3. k \in V <=> fs[k].cond # <<>> /\ \A j \in 1 .. k : ~Unvisited(fs[j])
      BY <1>2
    <3>4. k \in Visited(gs) <=> gs[k].cond # <<>> /\ \A j \in 1 .. k : ~Unvisited(gs[j])
      BY <1>3, <3>1
    <3> QED BY <3>1, <3>2, <3>3, <3>4
  <2>4. d + 1 \in Visited(gs) <=> e.cond # <<>> /\ ~e.init /\ ~Hides(fs)
    <3>1. 1 .. d + 1 = (1 .. d) \cup {d + 1} /\ d + 1 \in 1 .. d + 1
      BY <1>1
    <3>2. Hides(fs) <=> \E k \in 1 .. d : Unvisited(fs[k])
      BY DEF Hides, d
    <3> QED BY <1>3, <2>1, <3>1, <3>2
  <2>5. \A k : k \in Visited(gs) => k \in 1 .. d \/ k = d + 1
    BY <1>1, <1>3, <2>1
  <2>6. CASE e.cond = <<>> \/ e.init \/ Hides(fs)
    <3>1. Visited(gs) = V
      BY <1>1, <2>3, <2>4, <2>5, <2>6
    <3>2. \A k \in V : gs[k].cond = fs[k].cond
      BY <1>1, <2>1
    <3> QED BY <2>2, <2>6, <3>1, <3>2, ListedSame DEF V
  <2>7. CASE ~(e.cond = <<>> \/ e.init \/ Hides(fs))
    <3>1. Visited(gs) = V \cup {d + 1}
      BY <1>1, <2>3, <2>4, <2>5, <2>7
    <3>2. \A k \in V : k < d + 1 /\ gs[k] = fs[k]
      BY <1>1, <2>1
    <3>3. e.cond \in ComparedPairs
      BY <2>7, ConstructIs
    <3>4. Listed(V, fs, cs) /\ d + 1 \in Nat
      BY <1>1 DEF V
    <3>5. Listed(V \cup {d + 1}, gs, Append(cs, e.cond))
      BY <1>1, <2>1, <3>2, <3>3, <3>4, ListedPush
    <3> QED BY <2>2, <2>7, <3>1, <3>5
  <2> QED BY <2>6, <2>7
<1>6. CASE e.do \in {"else", "close"}
  <2>1. new = IF d \in V THEN Pop(cs) ELSE cs
    <3>1. d > 0
      BY <1>6 DEF Moved
    <3> QED BY <1>6, <3>1, TopVisited
  <2>2. \A k \in V \ {d} : gs[k].cond = fs[k].cond
    <3>1. \A k \in V \ {d} : k \in 1 .. d - 1 /\ k \in 1 .. d
      BY <1>1
    <3> QED BY <1>6, <3>1 DEF Moved
  <2>3. ASSUME Visited(gs) = V \ {d} PROVE Listed(Visited(gs), gs, new)
    <3> HIDE DEF V, d
    <3>1. Listed(V, fs, cs)
      BY DEF V
    <3>2. CASE d \in V
      <4>1. Listed(V \ {d}, gs, Pop(cs))
        BY <1>1, <2>2, <3>1, <3>2, ListedPop
      <4> QED BY <2>1, <2>3, <3>2, <4>1
    <3>3. CASE d \notin V
      <4>1. V \ {d} = V
        BY <3>3
      <4>2. Visited(gs) = V /\ new = cs /\ \A k \in V : gs[k].cond = fs[k].cond
        BY <2>1, <2>2, <2>3, <3>3, <4>1
      <4>3. Listed(V, gs, cs)
        BY <3>1, <4>2, ListedSame
      <4> QED BY <4>2, <4>3
    <3> QED BY <3>2, <3>3
  <2>4. CASE e.do = "close"
    <3>1. d > 0 /\ Len(gs) = d - 1 /\ \A k \in 1 .. d - 1 : gs[k] = fs[k]
      BY <2>4 DEF Moved
    <3>2. /\ \A k \in 1 .. d - 1 : k \in 1 .. d /\ k # d /\ \A j \in 1 .. k : j \in 1 .. d - 1
          /\ \A k \in 1 .. d : k = d \/ k \in 1 .. d - 1
      BY <1>1
    <3> HIDE DEF V, d
    <3>3. \A k \in 1 .. d - 1 : k \in Visited(gs) <=> k \in V
      BY <1>2, <1>3, <3>1, <3>2
    <3>4. \A k \in V \ {d} : k \in 1 .. d - 1
      BY <1>1, <3>2
    <3>5. \A k \in Visited(gs) : k \in 1 .. d - 1
      BY <1>3, <3>1
    <3>6. Visited(gs) = V \ {d}
      BY <3>2, <3>3, <3>4, <3>5
    <3> QED BY <2>3, <3>6
  <2>5. CASE e.do = "else"
    <3>1. /\ d > 0 /\ Len(gs) = d /\ \A k \in 1 .. d : gs[k].cond = fs[k].cond
          /\ \A k \in 1 .. d - 1 : gs[k] = fs[k]
          /\ gs[d].in_else /\ ~fs[d].in_else
      BY <2>5 DEF Moved, Top
    <3>2. /\ \A k \in 1 .. d - 1 : k \in 1 .. d /\ k # d /\ \A j \in 1 .. k : j \in 1 .. d - 1
          /\ \A k \in 1 .. d : k = d \/ k \in 1 .. d - 1
          /\ d \in 1 .. d
      BY <1>1, <3>1
    <3> HIDE DEF V, d
    <3>3. \A k \in 1 .. d - 1 : k \in Visited(gs) <=> k \in V
      <4> SUFFICES ASSUME NEW k \in 1 .. d - 1 PROVE k \in Visited(gs) <=> k \in V
        OBVIOUS
      <4>1. k \in 1 .. d /\ k \in 1 .. Len(gs) /\ gs[k] = fs[k]
        BY <3>1, <3>2
      <4>2. \A j \in 1 .. k : gs[j] = fs[j]
        BY <3>1, <3>2
      <4>3. k \in V <=> fs[k].cond # <<>> /\ \A j \in 1 .. k : ~Unvisited(fs[j])
        BY <1>2, <4>1
      <4>4. k \in Visited(gs) <=> gs[k].cond # <<>> /\ \A j \in 1 .. k : ~Unvisited(gs[j])
        BY <1>3, <4>1
      <4> QED BY <4>1, <4>2, <4>3, <4>4
    <3>4. \A k \in Visited(gs) : k \in 1 .. d
      BY <1>3, <3>1
    <3>5. d \notin Visited(gs)
      <4>1. gs[d].cond # <<>> => Unvisited(gs[d])
        BY <3>1 DEF Unvisited
      <4> QED BY <1>3, <3>1, <3>2, <4>1
    <3>6. Visited(gs) = V \ {d}
      BY <1>1, <3>2, <3>3, <3>4, <3>5
    <3> QED BY <2>3, <3>6
  <2> QED BY <1>6, <2>4, <2>5
<1>7. CASE e.do \notin {"if", "else", "close"}
  <2>1. gs = fs /\ new = cs
    BY <1>7 DEF Moved
  <2> QED BY <2>1
<1> QED BY <1>5, <1>6, <1>7

-----------------------------------------------------------------------------
LEMMA HidesIs ==
  ASSUME NEW s, FrontBody(s), NEW fs, Framed(s, fs)
  PROVE  Hides(fs) <=> Skipped(s, Len(s) + 1)
<1>1. Len(s) \in Nat /\ (Len(s) + 1) - 1 = Len(s)
  BY DEF FrontBody
<1>2. ASSUME Hides(fs) PROVE Skipped(s, Len(s) + 1)
  <2>1. PICK k \in 1 .. Len(fs) : Unvisited(fs[k])
    BY <1>2 DEF Hides
  <2>2. PICK n \in Open(s) : DepthOf(s, n) = k
    BY DEF Framed
  <2>3. s[n].init \/ (s[n].cond # <<>> /\ ElseOf(s, Len(s) + 1, n))
    BY <2>1, <2>2 DEF Framed, Unvisited
  <2>4. n \in 1 .. Len(s) /\ s[n].do = "if" /\ Scoped(s, n, Len(s) + 1)
    BY TopIsInnermost
  <2> QED BY <1>1, <2>3, <2>4 DEF Skipped
<1>3. ASSUME Skipped(s, Len(s) + 1) PROVE Hides(fs)
  <2>1. PICK n \in 1 .. Len(s) : /\ s[n].do = "if" /\ Scoped(s, n, Len(s) + 1)
                                 /\ s[n].init \/ (s[n].cond # <<>> /\ ElseOf(s, Len(s) + 1, n))
    BY <1>1, <1>3 DEF Skipped
  <2>2. n \in Open(s)
    BY <2>1, TopIsInnermost
  <2> QED BY <2>1, <2>2 DEF Framed, Hides, Unvisited
<1> QED BY <1>2, <1>3

\* Where the visitor comes, the last condition of the detector is the one of the `if`
\* that it stands in, when that one compares; else it is one that is open.
LEMMA LastCondition ==
  ASSUME NEW s, FrontBody(s), NEW fs, Framed(s, fs), ~Hides(fs), Len(fs) \in Nat,
         NEW cs \in Seq(ComparedPairs), Listed(Visited(fs), fs, cs)
  PROVE  /\ \A n : Innermost(s, Len(s) + 1, n) /\ Limits(s, n) =>
                     cs # <<>> /\ Amount \in AddToCheckedHirIds(Top(cs))
         /\ cs # <<>> /\ Amount \in AddToCheckedHirIds(Top(cs)) =>
              \E n \in 1 .. Len(s) : /\ s[n].do = "if" /\ Limits(s, n)
                                     /\ Scoped(s, n, Len(s) + 1)
<1>1. s \in Seq(FrontConstructs)
  BY DEF FrontBody
<1>2. \A n \in 1 .. Len(s) : s[n].cond \in ComparedPairs \cup {<<>>}
  BY <1>1, ConstructIs
<1>3. \A n \in Open(s) : /\ n \in 1 .. Len(s) /\ DepthOf(s, n) \in 1 .. Len(fs)
                         /\ fs[DepthOf(s, n)].cond = s[n].cond
                         /\ s[n].do = "if" /\ Scoped(s, n, Len(s) + 1)
  BY TopIsInnermost DEF Framed
<1>4. Visited(fs) \subseteq 1 .. Len(fs) /\ Visited(fs) \subseteq Nat
  BY DEF Visited
<1>5. /\ cs = <<>> <=> Visited(fs) = {}
      /\ cs # <<>> => \E k \in Visited(fs) : Top(cs) = fs[k].cond /\ \A j \in Visited(fs) : j <= k
  BY <1>4, ListedTop
<1>6. \A n \in 1 .. Len(s) : s[n].cond \in ComparedPairs =>
        (Limits(s, n) <=> Amount \in AddToCheckedHirIds(s[n].cond))
  BY ComparisonIs DEF Limits
<1>7. ASSUME NEW n, Innermost(s, Len(s) + 1, n), Limits(s, n)
      PROVE  cs # <<>> /\ Amount \in AddToCheckedHirIds(Top(cs))
  <2>1. n \in Open(s) /\ DepthOf(s, n) = Len(fs)
    BY <1>7, TopIsInnermost
  <2>2. /\ n \in 1 .. Len(s) /\ Len(fs) \in 1 .. Len(fs) /\ fs[Len(fs)].cond = s[n].cond
    BY <1>3, <2>1
  <2>3. s[n].cond # <<>>
    BY <1>7 DEF Limits
  <2>4. \A j \in 1 .. Len(fs) : ~Unvisited(fs[j])
    BY DEF Hides
  <2>5. Len(fs) \in Visited(fs)
    BY <2>2, <2>3, <2>4 DEF Visited
  <2>6. PICK k \in Visited(fs) : Top(cs) = fs[k].cond /\ \A j \in Visited(fs) : j <= k
    BY <1>5, <2>5
  <2>7. k = Len(fs)
    BY <1>4, <2>5, <2>6
  <2> QED BY <1>2, <1>5, <1>6, <1>7, <2>2, <2>3, <2>5, <2>6, <2>7
<1>8. ASSUME cs # <<>>, Amount \in AddToCheckedHirIds(Top(cs))
      PROVE  \E n \in 1 .. Len(s) : s[n].do = "if" /\ Limits(s, n) /\ Scoped(s, n, Len(s) + 1)
  <2>1. PICK k \in Visited(fs) : Top(cs) = fs[k].cond
    BY <1>5, <1>8
  <2>2. k \in 1 .. Len(fs) /\ fs[k].cond # <<>>
    BY DEF Visited
  <2>3. PICK n \in Open(s) : DepthOf(s, n) = k
    BY <2>2 DEF Framed
  <2>4. n \in 1 .. Len(s) /\ s[n].cond = fs[k].cond /\ s[n].cond \in ComparedPairs
    BY <1>2, <1>3, <2>2, <2>3
  <2> QED BY <1>3, <1>6, <1>8, <2>1, <2>4
<1> QED BY <1>7, <1>8

-----------------------------------------------------------------------------
\* A return directly under a comparison with a parameter that the visitor came to is
\* noted, and nothing is noted without a return under such a comparison.
ReturnsNoted(s, checked) ==
  /\ \A r, n \in DOMAIN s :
       s[r].do = "return" /\ ~s[r].init /\ ~Skipped(s, r) /\ Innermost(s, r, n) /\ Limits(s, n)
         => Amount \in checked
  /\ Amount \in checked =>
       \E n, r \in DOMAIN s : /\ n < r /\ s[n].do = "if" /\ Limits(s, n)
                              /\ s[r].do = "return" /\ Scoped(s, n, r)

\* What the detector remembers of the body.
FrontKnown(s, m) ==
  /\ FrontBody(s) /\ m \in FrontMemory
  /\ Rooted(s) /\ Framed(s, m.frames)
  /\ Listed(Visited(m.frames), m.frames, m.conditional_checker)
  /\ m.transfers = {i \in DOMAIN s : s[i].do = "transfer" /\ ~s[i].init /\ ~Skipped(s, i)}
  /\ ReturnsNoted(s, m.checked_hir_ids)

FrontInv == /\ FrontKnown(walked, memory)
            /\ reported = IF Ended /\ Amount \notin memory.checked_hir_ids
                          THEN memory.transfers ELSE {}

LEMMA NotedNext ==
  ASSUME NEW s, NEW m, FrontKnown(s, m), NEW e \in FrontConstructs, NEW checked,
         checked = IF e.do = "return" /\ ~e.init /\ ~Hides(m.frames) /\ m.conditional_checker # <<>>
                   THEN m.checked_hir_ids \cup AddToCheckedHirIds(Top(m.conditional_checker))
                   ELSE m.checked_hir_ids
  PROVE  ReturnsNoted(Append(s, e), checked)
<1> DEFINE t == Append(s, e)
           here == Len(s) + 1
           fs == m.frames
           cs == m.conditional_checker
<1>1. /\ s \in Seq(FrontConstructs) /\ Len(s) \in Nat /\ DOMAIN s = 1 .. Len(s)
      /\ DOMAIN t = 1 .. here /\ t[here] = e /\ \A k \in 1 .. Len(s) : t[k] = s[k]
      /\ fs \in Seq(FrontFrames) /\ Len(fs) \in Nat /\ cs \in Seq(ComparedPairs)
  BY DEF FrontKnown, FrontBody, FrontMemory
<1>2. /\ FrontBody(s) /\ Framed(s, fs) /\ Listed(Visited(fs), fs, cs)
      /\ ReturnsNoted(s, m.checked_hir_ids)
  BY DEF FrontKnown
<1>3. \A n : \A i \in 1 .. here : /\ Innermost(t, i, n) <=> Innermost(s, i, n)
                                  /\ Skipped(t, i) <=> Skipped(s, i)
  BY <1>2, FrontPrefix
<1>4. \A n \in Nat, i \in 0 .. here : Scoped(t, n, i) <=> Scoped(s, n, i)
  BY <1>1, OpenAppend
<1>5. Hides(fs) <=> Skipped(s, here)
  BY <1>2, HidesIs
<1>6. ~Hides(fs) =>
        /\ \A n : Innermost(s, here, n) /\ Limits(s, n) =>
                    cs # <<>> /\ Amount \in AddToCheckedHirIds(Top(cs))
        /\ cs # <<>> /\ Amount \in AddToCheckedHirIds(Top(cs)) =>
             \E n \in 1 .. Len(s) : s[n].do = "if" /\ Limits(s, n) /\ Scoped(s, n, here)
  BY <1>1, <1>2, LastCondition
<1>7. /\ \A n \in 1 .. Len(s) : Limits(t, n) <=> Limits(s, n)
      /\ \A n \in 1 .. here : n \in 1 .. Len(s) \/ n = here
      /\ \A n \in 1 .. Len(s) : n \in 1 .. here /\ n \in Nat /\ n < here /\ n \in 0 .. here
      /\ here \in 1 .. here /\ here \in 0 .. here
  BY <1>1 DEF Limits
<1>8. m.checked_hir_ids \subseteq checked
  OBVIOUS
<1> HIDE DEF t, here, fs, cs
<1>9. ASSUME NEW r \in 1 .. here, NEW n \in 1 .. here, t[r].do = "return", ~t[r].init, ~Skipped(t, r),
             Innermost(t, r, n), Limits(t, n)
      PROVE  Amount \in checked
  <2>1. Innermost(s, r, n) /\ ~Skipped(s, r)
    BY <1>3, <1>9
  <2>2. n \in 1 .. r - 1 /\ r \in Nat
    BY <1>1, <2>1 DEF Innermost, here
  <2>3. n \in 1 .. Len(s) /\ Limits(s, n)
    <3>1. n # here
      BY <1>1, <2>2 DEF here
    <3> QED BY <1>7, <1>9, <3>1
  <2>4. CASE r \in 1 .. Len(s)
    <3>1. s[r].do = "return" /\ ~s[r].init
      BY <1>1, <1>9, <2>4
    <3> QED BY <1>1, <1>2, <1>8, <2>1, <2>3, <2>4, <3>1 DEF ReturnsNoted
  <2>5. CASE r = here
    BY <1>1, <1>5, <1>6, <1>9, <2>1, <2>3, <2>5 DEF cs, fs
  <2> QED BY <1>7, <2>4, <2>5
<1>10. ASSUME Amount \in checked
       PROVE  \E n, r \in 1 .. here : /\ n < r /\ t[n].do = "if" /\ Limits(t, n)
                                      /\ t[r].do = "return" /\ Scoped(t, n, r)
  <2>1. CASE Amount \in m.checked_hir_ids
    <3>1. PICK n \in 1 .. Len(s), r \in 1 .. Len(s) :
                 /\ n < r /\ s[n].do = "if" /\ Limits(s, n)
                 /\ s[r].do = "return" /\ Scoped(s, n, r)
      BY <1>1, <1>2, <2>1 DEF ReturnsNoted
    <3>2. n \in 1 .. here /\ r \in 1 .. here /\ n < r /\ t[n].do = "if" /\ Limits(t, n)
          /\ t[r].do = "return" /\ Scoped(t, n, r)
      BY <1>1, <1>4, <1>7, <3>1
    <3> QED BY <3>2
  <2>2. CASE Amount \notin m.checked_hir_ids
    <3>1. /\ e.do = "return" /\ ~Hides(fs) /\ cs # <<>>
          /\ Amount \in AddToCheckedHirIds(Top(cs))
      BY <1>10, <2>2 DEF fs, cs
    <3>2. PICK n \in 1 .. Len(s) : s[n].do = "if" /\ Limits(s, n) /\ Scoped(s, n, here)
      BY <1>6, <3>1
    <3>3. /\ n \in 1 .. here /\ here \in 1 .. here /\ n < here /\ t[n].do = "if" /\ Limits(t, n)
          /\ t[here].do = "return" /\ Scoped(t, n, here)
      BY <1>1, <1>4, <1>7, <3>1, <3>2
    <3> QED BY <3>3
  <2> QED BY <2>1, <2>2
<1> QED BY <1>1, <1>9, <1>10 DEF ReturnsNoted, t

LEMMA FrontKnownNext ==
  ASSUME NEW m, FrontKnown(walked, m), NEW e \in FrontConstructs,
         e.do = "else" => m.frames # <<>> /\ ~Top(m.frames).in_else,
         e.do = "close" => Depth(Len(walked)) > 0
  PROVE  LET next == FrontStep(m, e)
         IN  /\ FrontKnown(Append(walked, e), next)
             /\ e.do = "end" => /\ next.checked_hir_ids = m.checked_hir_ids
                                /\ next.transfers = m.transfers
<1> DEFINE next == FrontStep(m, e)
           s == walked
           t == Append(s, e)
           fs == m.frames
           cs == m.conditional_checker
<1>1. /\ s \in Seq(FrontConstructs) /\ Len(s) \in Nat /\ DOMAIN s = 1 .. Len(s) /\ FrontBody(s)
      /\ DOMAIN t = 1 .. Len(s) + 1 /\ t[Len(s) + 1] = e /\ \A k \in 1 .. Len(s) : t[k] = s[k]
      /\ FrontBody(t)
      /\ m \in FrontMemory /\ fs \in Seq(FrontFrames) /\ Len(fs) \in Nat /\ cs \in Seq(ComparedPairs)
  BY DEF FrontKnown, FrontBody, FrontMemory
<1>2. Rooted(s) /\ Framed(s, fs) /\ Listed(Visited(fs), fs, cs)
  BY DEF FrontKnown
<1>3. e.do \in {"else", "close"} => Len(fs) > 0
  <2>1. CASE e.do = "else"
    BY <1>1, <2>1, EmptySeq
  <2>2. CASE e.do = "close"
    BY <1>2, <2>2, DepthIs DEF Framed
  <2> QED BY <2>1, <2>2
<1>4. Len(fs) > 0 /\ LeavesVisited(fs) => cs # <<>>
  <2>1. Visited(fs) \subseteq Nat
    BY DEF Visited
  <2> QED BY <1>1, <1>2, <2>1, TopVisited, ListedTop
<1>5. /\ next \in FrontMemory /\ Moved(fs, e, next.frames)
      /\ next.conditional_checker =
           CASE e.do = "if" -> IF e.cond = <<>> \/ e.init \/ Hides(fs) THEN cs ELSE Append(cs, e.cond)
             [] e.do \in {"else", "close"} -> IF LeavesVisited(fs) THEN Pop(cs) ELSE cs
             [] OTHER -> cs
      /\ next.checked_hir_ids =
           IF e.do = "return" /\ ~e.init /\ ~Hides(fs) /\ cs # <<>>
           THEN m.checked_hir_ids \cup AddToCheckedHirIds(Top(cs))
           ELSE m.checked_hir_ids
      /\ next.transfers = IF e.do = "transfer" /\ ~e.init /\ ~Hides(fs) THEN m.transfers \cup {Here}
                          ELSE m.transfers
  BY <1>1, <1>3, <1>4, FrontStepIs
<1> HIDE DEF next, t
<1>6. next.frames \in Seq(FrontFrames) /\ Len(next.frames) \in Nat
  BY <1>5 DEF FrontMemory
<1>7. Framed(t, next.frames)
  BY <1>1, <1>2, <1>5, <1>6, FramedNext DEF t
<1>8. Rooted(t)
  BY <1>1, <1>2, <1>6, <1>7, RootedNext DEF t
<1>9. Listed(Visited(next.frames), next.frames, next.conditional_checker)
  <2> DEFINE gs == next.frames
             new == next.conditional_checker
  <2>1. /\ fs \in Seq(FrontFrames) /\ cs \in Seq(ComparedPairs) /\ Listed(Visited(fs), fs, cs)
        /\ gs \in Seq(FrontFrames) /\ Moved(fs, e, gs)
    BY <1>1, <1>2, <1>5, <1>6
  <2>2. e.do = "else" => ~Top(fs).in_else
    OBVIOUS
  <2>3. new = CASE e.do = "if" -> IF e.cond = <<>> \/ e.init \/ Hides(fs) THEN cs ELSE Append(cs, e.cond)
                [] e.do \in {"else", "close"} -> IF LeavesVisited(fs) THEN Pop(cs) ELSE cs
                [] OTHER -> cs
    BY <1>5
  <2> HIDE DEF gs, new, fs, cs
  <2>4. Listed(Visited(gs), gs, new)
    BY <2>1, <2>2, <2>3, ListedNext
  <2> QED BY <2>4 DEF gs, new
<1>10. ReturnsNoted(t, next.checked_hir_ids)
  BY <1>5, NotedNext DEF t
<1>11. next.transfers = {i \in DOMAIN t : t[i].do = "transfer" /\ ~t[i].init /\ ~Skipped(t, i)}
  <2>1. m.transfers = {i \in 1 .. Len(s) : s[i].do = "transfer" /\ ~s[i].init /\ ~Skipped(s, i)}
    BY <1>1 DEF FrontKnown
  <2>2. \A i \in 1 .. Len(s) + 1 : Skipped(t, i) <=> Skipped(s, i)
    BY <1>1, FrontPrefix DEF t
  <2>3. Hides(fs) <=> Skipped(s, Len(s) + 1)
    BY <1>1, <1>2, HidesIs
  <2>4. 1 .. Len(s) + 1 = (1 .. Len(s)) \cup {Len(s) + 1} /\ Here = Len(s) + 1
    BY <1>1 DEF Here
  <2> QED BY <1>1, <1>5, <2>1, <2>2, <2>3, <2>4
<1> QED BY <1>1, <1>5, <1>7, <1>8, <1>9, <1>10, <1>11 DEF FrontKnown, next, t

FrontPass(e) ==
  /\ e \in FrontConstructs /\ ~Ended
  /\ e.do = "else" => memory.frames # <<>> /\ ~Top(memory.frames).in_else
  /\ Pass(e, FrontStep(memory, e),
          IF e.do = "end" /\ Amount \notin memory.checked_hir_ids THEN memory.transfers ELSE {})

LEMMA VisitFrontIs == VisitFront => \E e : FrontPass(e)
BY DEF VisitFront, FrontPass

LEMMA FrontFollows ==
  ASSUME FrontInv, NEW e, FrontPass(e)
  PROVE  FrontInv'
<1>1. /\ FrontKnown(walked, memory) /\ e \in FrontConstructs /\ ~Ended
      /\ walked' = Append(walked, e) /\ memory' = FrontStep(memory, e)
      /\ reported' = reported \cup (IF e.do = "end" /\ Amount \notin memory.checked_hir_ids
                                    THEN memory.transfers ELSE {})
  BY DEF FrontInv, FrontPass, Pass
<1>2. /\ FrontKnown(walked', memory')
      /\ e.do = "end" => /\ memory'.checked_hir_ids = memory.checked_hir_ids
                         /\ memory'.transfers = memory.transfers
  BY <1>1, FrontKnownNext DEF FrontPass, Pass
<1>3. reported = {}
  BY <1>1 DEF FrontInv
<1>4. Ended' <=> e.do = "end"
  <2>1. walked \in Seq(FrontConstructs)
    BY <1>1 DEF FrontKnown, FrontBody
  <2>2. walked' # <<>> /\ walked'[Len(walked')] = e
    BY <1>1, <2>1
  <2> QED BY <2>2 DEF Ended
<1>5. reported' = IF Ended' /\ Amount \notin memory'.checked_hir_ids THEN memory'.transfers ELSE {}
  BY <1>1, <1>2, <1>3, <1>4
<1> QED BY <1>2, <1>5 DEF FrontInv

\* A guard in no initializer that the visitor did not come to hides what it protects too.
LEMMA GuardIsNoted ==
  ASSUME FrontKnown(walked, memory), NEW i \in DOMAIN walked, ~Skipped(walked, i),
         NEW n \in DOMAIN walked, NEW r \in DOMAIN walked, GuardsTransfer(n, r, i), ~InInitializer(r)
  PROVE  Amount \in memory.checked_hir_ids
<1> DEFINE s == walked
<1>1. /\ Rooted(s) /\ Len(s) \in Nat /\ DOMAIN s = 1 .. Len(s) /\ ReturnsNoted(s, memory.checked_hir_ids)
  BY DEF FrontKnown, FrontBody
<1>2. /\ i \in 1 .. Len(s) /\ n \in 1 .. Len(s) + 1 /\ n \in 1 .. Len(s) /\ n \in Nat \ {0} /\ i \in Nat
  BY <1>1
<1>3. /\ r \in n .. i /\ s[r].do = "return" /\ Around(r) = n /\ ~InElse(r, n)
      /\ ~s[r].init /\ \A o \in 1 .. r - 1 : ~(s[o].do = "if" /\ s[o].init /\ Scoped(s, o, r))
  BY DepthIs DEF GuardsTransfer, InInitializer
<1>4. r \in 1 .. Len(s) /\ r \in 1 .. Len(s) + 1 /\ r \in Nat
  BY <1>1, <1>2
<1>5. Innermost(s, r, n)
  BY <1>1, <1>2, <1>3, <1>4, AroundWhich
<1>6. n \in 1 .. r - 1 /\ s[n].do = "if" /\ Limits(s, n)
  BY <1>5 DEF Innermost, GuardsTransfer, Bounds, Limits
<1>7. ASSUME Skipped(s, r) PROVE FALSE
  <2>1. PICK o \in 1 .. r - 1 : /\ s[o].do = "if" /\ s[o].cond # <<>>
                                /\ Scoped(s, o, r) /\ ElseOf(s, r, o)
    BY <1>3, <1>7 DEF Skipped
  <2>2. PICK k \in o .. r - 1 : s[k].do = "else" /\ Innermost(s, k, o)
    BY <2>1 DEF ElseOf
  <2>3. o <= n
    BY <1>1, <1>4, <1>5, <2>1, InnermostIsLast
  <2>4. CASE o = n
    <3>1. k \in n .. r /\ k \in 1 .. Len(s) + 1 /\ s[k].do = "else" /\ Innermost(s, k, n)
      BY <1>1, <1>4, <2>2, <2>4
    <3>2. Around(k) = n
      BY <1>1, <1>2, <3>1, AroundWhich
    <3> QED BY <1>3, <3>1, <3>2 DEF InElse
  <2>5. CASE o # n
    <3>1. o \in 1 .. n - 1 /\ o < n /\ o \in Nat
      BY <1>2, <2>3, <2>5
    <3>2. Scoped(s, o, n)
      BY <1>4, <1>6, <2>1 DEF Scoped
    <3>3. DepthOf(s, n - 1) > 0 /\ \A a : Innermost(s, n, a) => o <= a
      BY <1>1, <1>2, <2>1, <3>1, <3>2, InnermostIsLast
    <3> DEFINE a == Around(n)
    <3>4. a \in Nat \ {0} /\ Innermost(s, n, a) /\ o <= a
      <4>1. /\ a \in Nat /\ (a = 0 => DepthOf(s, n - 1) <= 0)
            /\ \A b \in Nat \ {0} : a = b <=> Innermost(s, n, b)
        BY <1>1, <1>2, AroundWhich
      <4>2. n - 1 \in Nat /\ DepthOf(s, n - 1) \in Int
        BY <1>2, DepthNext
      <4> HIDE DEF a
      <4> QED BY <3>3, <4>1, <4>2
    <3>5. Scoped(s, a, i)
      <4>1. InScope(a, i)
        BY <3>4 DEF GuardsTransfer
      <4> QED BY <4>1, DepthIs
    <3> HIDE DEF a
    <3>6. Scoped(s, o, i)
      <4>1. CASE o = a
        BY <3>5, <4>1
      <4>2. CASE o # a
        <5>1. a \in 1 .. n - 1 /\ s[a].do # "close" /\ o < a /\ Scoped(s, o, a)
          BY <1>2, <3>1, <3>2, <3>4, <4>2 DEF Innermost, Scoped
        <5> QED BY <1>2, <3>1, <3>4, <3>5, <5>1, ScopedInside
      <4> QED BY <4>1, <4>2
    <3>7. ElseOf(s, i, o)
      <4>1. k \in o .. i - 1
        BY <1>2, <1>3, <1>4, <2>2
      <4> QED BY <2>2, <4>1 DEF ElseOf
    <3>8. o \in 1 .. i - 1
      BY <1>2, <1>3, <3>1
    <3> QED BY <2>1, <3>6, <3>7, <3>8 DEF Skipped
  <2> QED BY <2>4, <2>5
<1> QED BY <1>1, <1>2, <1>3, <1>4, <1>5, <1>6, <1>7 DEF ReturnsNoted

LEMMA FrontIsReported == FrontInv => FrontRunsReported
<1> DEFINE beside(i) == \E n \in 1 .. i - 1 : /\ walked[n].do = "if" /\ walked[n].cond # <<>>
                                             /\ InScope(n, i) /\ InElse(i, n)
           elsewhere == \E n, r \in DOMAIN walked :
                          n < r /\ walked[n].do = "if" /\ Bounds(n) /\ walked[r].do = "return" /\ InScope(n, r)
<1> SUFFICES ASSUME FrontInv, Ended, NEW i \in DOMAIN walked, walked[i].do = "transfer"
             PROVE  /\ i \in reported => \A n, r \in DOMAIN walked : GuardsTransfer(n, r, i) => InInitializer(r)
                    /\ i \notin reported /\ (\A n, r \in DOMAIN walked : ~GuardsTransfer(n, r, i)) =>
                         InInitializer(i) \/ beside(i) \/ elsewhere
  BY DEF FrontRunsReported
<1>1. /\ FrontKnown(walked, memory) /\ Rooted(walked) /\ ReturnsNoted(walked, memory.checked_hir_ids)
      /\ i \in memory.transfers <=> ~walked[i].init /\ ~Skipped(walked, i)
      /\ reported = IF Amount \notin memory.checked_hir_ids THEN memory.transfers ELSE {}
  BY DEF FrontInv, FrontKnown
<1>2. Len(walked) \in Nat /\ DOMAIN walked = 1 .. Len(walked)
  BY <1>1 DEF FrontKnown, FrontBody
<1>3. i \in reported => \A n, r \in DOMAIN walked : GuardsTransfer(n, r, i) => InInitializer(r)
  BY <1>1, GuardIsNoted
<1>4. ASSUME Skipped(walked, i) PROVE InInitializer(i) \/ beside(i)
  <2>1. PICK n \in 1 .. i - 1 : /\ walked[n].do = "if" /\ Scoped(walked, n, i)
                                /\ walked[n].init \/ (walked[n].cond # <<>> /\ ElseOf(walked, i, n))
    BY <1>4 DEF Skipped
  <2>2. CASE walked[n].init
    BY <2>1, <2>2, DepthIs DEF InInitializer
  <2>3. CASE walked[n].cond # <<>> /\ ElseOf(walked, i, n)
    <3>1. PICK k \in n .. i - 1 : walked[k].do = "else" /\ Innermost(walked, k, n)
      BY <2>3 DEF ElseOf
    <3>2. k \in n .. i /\ k \in 1 .. Len(walked) + 1 /\ n \in Nat \ {0}
      BY <1>2
    <3>3. Around(k) = n
      BY <1>1, <1>2, <3>1, <3>2, AroundWhich
    <3>4. InScope(n, i) /\ InElse(i, n)
      BY <2>1, <3>1, <3>2, <3>3, DepthIs DEF InElse
    <3> QED BY <2>1, <2>3, <3>4
  <2> QED BY <2>1, <2>2, <2>3
<1>5. ASSUME Amount \in memory.checked_hir_ids PROVE elsewhere
  <2>1. PICK n \in DOMAIN walked, r \in DOMAIN walked :
               /\ n < r /\ walked[n].do = "if" /\ Limits(walked, n)
               /\ walked[r].do = "return" /\ Scoped(walked, n, r)
    BY <1>1, <1>5 DEF ReturnsNoted
  <2>2. Bounds(n) /\ InScope(n, r)
    BY <2>1, DepthIs DEF Bounds, Limits
  <2> QED BY <2>1, <2>2
<1>6. walked[i].init => InInitializer(i)
  BY DEF InInitializer
<1> HIDE DEF beside, elsewhere
<1> QED BY <1>1, <1>3, <1>4, <1>5, <1>6

LEMMA FrontInvariant ==
  Follows({"front-running"}, FrontStart, VisitFront) => [](lint \in {"front-running"} => FrontInv)
<1>1. (lint \in {"front-running"} => Begin(FrontStart)) => (lint \in {"front-running"} => FrontInv)
  <2> SUFFICES ASSUME Begin(FrontStart) PROVE FrontInv
    OBVIOUS
  <2>1. /\ walked = <<>> /\ reported = {} /\ Len(walked) = 0 /\ memory = FrontStart
    BY DEF Begin
  <2>2. /\ FrontStart.frames = <<>> /\ FrontStart.conditional_checker = <<>>
        /\ FrontStart.checked_hir_ids = {} /\ FrontStart.transfers = {}
    BY DEF FrontStart
  <2>3. FrontBody(walked) /\ memory \in FrontMemory
    BY <2>1 DEF FrontBody, FrontMemory, FrontStart
  <2>4. Open(walked) = {} /\ DepthOf(walked, 0) = 0
    BY <2>1, DepthZero DEF Open
  <2>5. Rooted(walked)
    BY <2>1, <2>4 DEF Rooted
  <2>6. Framed(walked, <<>>) /\ Visited(<<>>) = {}
    BY <2>1, <2>4 DEF Framed, Visited
  <2>7. Listed({}, <<>>, <<>>)
    <3>1. <<>> \in [1 .. Len(<<>>) -> {}]
      OBVIOUS
    <3> QED BY <3>1 DEF Listed
  <2>8. ReturnsNoted(walked, {})
    BY <2>1 DEF ReturnsNoted
  <2>9. FrontKnown(walked, memory)
    <3>1. {i \in DOMAIN walked : walked[i].do = "transfer" /\ ~walked[i].init /\ ~Skipped(walked, i)} = {}
      BY <2>1
    <3>2. /\ memory.frames = <<>> /\ memory.conditional_checker = <<>>
          /\ memory.checked_hir_ids = {} /\ memory.transfers = {}
      BY <2>1, <2>2
    <3> QED BY <2>3, <2>5, <2>6, <2>7, <2>8, <3>1, <3>2 DEF FrontKnown
  <2> QED BY <2>1, <2>9 DEF FrontInv, Ended
<1>2. /\ lint \in {"front-running"} => FrontInv
      /\ [IF lint \in {"front-running"} THEN VisitFront ELSE UNCHANGED lint]_walk
      => (lint \in {"front-running"} => FrontInv)'
  <2> SUFFICES ASSUME lint = "front-running" => FrontInv,
                      [IF lint \in {"front-running"} THEN VisitFront ELSE UNCHANGED lint]_walk,
                      lint' = "front-running"
               PROVE  FrontInv'
    OBVIOUS
  <2>1. lint' = lint
    <3>1. VisitFront => lint' = lint
      BY DEF VisitFront, Pass
    <3> QED BY <3>1 DEF walk
  <2>2. FrontInv /\ (VisitFront \/ UNCHANGED walk)
    BY <2>1
  <2>3. CASE VisitFront
    <3>1. PICK e : FrontPass(e)
      BY <2>3, VisitFrontIs
    <3> QED BY <2>2, <3>1, FrontFollows
  <2>4. CASE UNCHANGED walk
    BY <2>2, <2>4 DEF FrontInv, Ended, walk
  <2> QED BY <2>2, <2>3, <2>4
<1> QED BY <1>1, <1>2, PTL DEF Follows

-----------------------------------------------------------------------------
(* Transfers of tokens: unrestricted-transfer-from.                           *)

TransferMemory == [from_param : Locals \cup {Other}, span : Nat, authorized_param_names : SUBSET Locals]

FromParams(s) == {i \in DOMAIN s : s[i].do = "transfer_from" /\ s[i].of # Other}

AuthorizedIn(s) == {v \in Locals : \E n \in DOMAIN s : s[n] = [do |-> "require_auth", of |-> v]}

\* The detector remembers the last transfer_from of a parameter.
LastFrom(s, from, span) ==
  IF from = Other THEN FromParams(s) = {}
  ELSE span \in FromParams(s) /\ s[span].of = from /\ \A i \in FromParams(s) : i <= span

TransferInv ==
  /\ walked \in Seq(TransferConstructs) /\ memory \in TransferMemory
  /\ memory.authorized_param_names = AuthorizedIn(walked)
  /\ LastFrom(walked, memory.from_param, memory.span)
  /\ reported = IF Ended /\ memory.from_param # Other /\ ~FromIsAuthorized(memory)
                THEN {memory.span} ELSE {}

TransferPass(e) ==
  /\ e \in TransferConstructs /\ ~Ended
  /\ Pass(e, TransferStep(memory, e),
          IF e.do = "end" /\ memory.from_param # Other /\ ~FromIsAuthorized(memory)
          THEN {memory.span} ELSE {})

LEMMA VisitTransferIs == VisitTransfer => \E e : TransferPass(e)
BY DEF VisitTransfer, TransferPass

LEMMA TransferConstructIs ==
  ASSUME NEW e \in TransferConstructs
  PROVE  /\ e.do \in {"require_auth", "transfer_from", "transfer_from reference", "end"}
         /\ e.of \in Locals \cup {Other}
         /\ e.do = "require_auth" => e.of \in Locals
         /\ e = [do |-> e.do, of |-> e.of]
BY DEF TransferConstructs

LEMMA TransferStepIs ==
  ASSUME NEW m \in TransferMemory, NEW e \in TransferConstructs, Len(walked) \in Nat
  PROVE  LET next == TransferStep(m, e)
         IN  /\ next \in TransferMemory
             /\ next.authorized_param_names = m.authorized_param_names
                                              \cup (IF e.do = "require_auth" THEN {e.of} ELSE {})
             /\ IF e.do = "transfer_from" /\ e.of # Other
                THEN next.from_param = e.of /\ next.span = Here
                ELSE next.from_param = m.from_param /\ next.span = m.span
<1> DEFINE next == TransferStep(m, e)
           A == m.authorized_param_names \cup {e.of}
<1>1. /\ m.from_param \in Locals \cup {Other} /\ m.span \in Nat /\ m.authorized_param_names \subseteq Locals
      /\ m = [from_param |-> m.from_param, span |-> m.span,
              authorized_param_names |-> m.authorized_param_names]
  BY DEF TransferMemory
<1>2. Here \in Nat /\ e.of \in Locals \cup {Other}
  <2>1. e.of \in Locals \cup {Other}
    BY TransferConstructIs, Zenon
  <2> QED BY <2>1 DEF Here
<1>3. CASE e.do = "require_auth"
  <2>1. next = [m EXCEPT !.authorized_param_names = A] /\ A \subseteq Locals
    BY <1>1, <1>3, TransferConstructIs DEF TransferStep
  <2> HIDE DEF A, next
  <2>2. /\ next \in TransferMemory /\ next.authorized_param_names = A
        /\ next.from_param = m.from_param /\ next.span = m.span
    BY <2>1 DEF TransferMemory
  <2> QED BY <1>3, <2>2 DEF A, next
<1>4. CASE e.do = "transfer_from" /\ e.of # Other
  <2>1. next = [m EXCEPT !.from_param = e.of, !.span = Here]
    BY <1>4 DEF TransferStep
  <2> HIDE DEF next
  <2>2. /\ next \in TransferMemory /\ next.authorized_param_names = m.authorized_param_names
        /\ next.from_param = e.of /\ next.span = Here
    BY <1>2, <2>1 DEF TransferMemory
  <2> QED BY <1>4, <2>2 DEF next
<1>5. CASE e.do # "require_auth" /\ ~(e.do = "transfer_from" /\ e.of # Other)
  <2>1. next = m
    BY <1>5 DEF TransferStep
  <2> QED BY <1>5, <2>1
<1> QED BY <1>3, <1>4, <1>5

LEMMA TransferFollows ==
  ASSUME TransferInv, NEW e, TransferPass(e)
  PROVE  TransferInv'
<1> DEFINE m == memory
           next == TransferStep(m, e)
           t == Append(walked, e)
           here == Len(walked) + 1
<1>1. /\ walked \in Seq(TransferConstructs) /\ m \in TransferMemory /\ e \in TransferConstructs
      /\ ~Ended /\ walked' = t /\ memory' = next
      /\ reported' = reported \cup (IF e.do = "end" /\ m.from_param # Other /\ ~FromIsAuthorized(m)
                                    THEN {m.span} ELSE {})
      /\ m.authorized_param_names = AuthorizedIn(walked) /\ LastFrom(walked, m.from_param, m.span)
  BY DEF TransferInv, TransferPass, Pass
<1>2. /\ t \in Seq(TransferConstructs) /\ Len(walked) \in Nat /\ Len(t) = here /\ t[here] = e /\ t # <<>>
      /\ DOMAIN walked = 1 .. Len(walked) /\ DOMAIN t = 1 .. here
      /\ \A k \in 1 .. Len(walked) : t[k] = walked[k] /\ k \in 1 .. here /\ k <= here
      /\ \A k \in 1 .. here : k = here \/ k \in 1 .. Len(walked)
      /\ here \in 1 .. here /\ here <= here
  BY <1>1
<1>3. /\ next \in TransferMemory
      /\ next.authorized_param_names = m.authorized_param_names
                                       \cup (IF e.do = "require_auth" THEN {e.of} ELSE {})
      /\ IF e.do = "transfer_from" /\ e.of # Other
         THEN next.from_param = e.of /\ next.span = Here
         ELSE next.from_param = m.from_param /\ next.span = m.span
  BY <1>1, <1>2, TransferStepIs
<1>4. Here = here
  BY DEF Here
<1>5. /\ e.of \in Locals \cup {Other} /\ e = [do |-> e.do, of |-> e.of]
      /\ e.do = "require_auth" => e.of \in Locals
      /\ \A v \in Locals : e = [do |-> "require_auth", of |-> v] <=> e.do = "require_auth" /\ e.of = v
  <2>1. /\ e.of \in Locals \cup {Other} /\ e = [do |-> e.do, of |-> e.of]
        /\ e.do = "require_auth" => e.of \in Locals
    BY <1>1, TransferConstructIs, Zenon
  <2> QED BY <2>1
<1> HIDE DEF m, next, t, here
<1>6. next.authorized_param_names = AuthorizedIn(t)
  <2>1. ASSUME NEW v \in Locals
        PROVE  v \in AuthorizedIn(t) <=>
                 v \in AuthorizedIn(walked) \/ (e.do = "require_auth" /\ e.of = v)
    BY <1>2, <1>5 DEF AuthorizedIn
  <2>2. AuthorizedIn(t) \subseteq Locals /\ AuthorizedIn(walked) \subseteq Locals
    BY DEF AuthorizedIn
  <2> QED BY <1>1, <1>3, <1>5, <2>1, <2>2
<1>7. FromParams(t) = FromParams(walked)
                      \cup (IF e.do = "transfer_from" /\ e.of # Other THEN {here} ELSE {})
  BY <1>2 DEF FromParams
<1>8. LastFrom(t, next.from_param, next.span)
  <2>1. FromParams(walked) \subseteq 1 .. Len(walked)
    BY <1>2 DEF FromParams
  <2>2. CASE e.do = "transfer_from" /\ e.of # Other
    <3>1. FromParams(t) = FromParams(walked) \cup {here} /\ next.from_param = e.of /\ next.span = here
      BY <1>3, <1>4, <1>7, <2>2
    <3>2. \A i \in FromParams(t) : i <= here
      BY <1>2, <2>1, <3>1
    <3> QED BY <1>2, <2>2, <3>1, <3>2 DEF LastFrom
  <2>3. CASE ~(e.do = "transfer_from" /\ e.of # Other)
    <3>1. FromParams(t) = FromParams(walked)
      BY <1>7, <2>3
    <3>2. next.from_param = m.from_param /\ next.span = m.span
      BY <1>3, <2>3
    <3> QED BY <1>1, <1>2, <2>1, <3>1, <3>2 DEF LastFrom
  <2> QED BY <2>2, <2>3
<1>9. reported = {} /\ (Ended' <=> e.do = "end")
  BY <1>1, <1>2 DEF Ended, TransferInv, m
<1>10. reported' = IF Ended' /\ next.from_param # Other /\ ~FromIsAuthorized(next)
                   THEN {next.span} ELSE {}
  <2>1. e.do = "end" => /\ next.from_param = m.from_param /\ next.span = m.span
                        /\ next.authorized_param_names = m.authorized_param_names
    BY <1>3
  <2> QED BY <1>1, <1>9, <2>1 DEF FromIsAuthorized
<1> QED BY <1>1, <1>2, <1>3, <1>6, <1>8, <1>10 DEF TransferInv

LEMMA TransferIsReported == TransferInv => TransfersReported
<1> SUFFICES ASSUME TransferInv, Ended
             PROVE  /\ \A i \in reported : Unrestricted(i)
                    /\ \A i \in DOMAIN walked \ reported :
                         Unrestricted(i) =>
                           \/ walked[i].do = "transfer_from reference"
                           \/ \E n \in DOMAIN walked :
                                n > i /\ walked[n].do = "transfer_from" /\ walked[n].of # Other
  BY DEF TransfersReported
<1> DEFINE from == memory.from_param
           span == memory.span
<1>1. /\ walked \in Seq(TransferConstructs) /\ DOMAIN walked = 1 .. Len(walked) /\ Len(walked) \in Nat
      /\ from \in Locals \cup {Other} /\ LastFrom(walked, from, span)
      /\ reported = IF from # Other /\ from \notin AuthorizedIn(walked) THEN {span} ELSE {}
  BY DEF TransferInv, TransferMemory, FromIsAuthorized
<1>2. \A i : Unrestricted(i) /\ i \in DOMAIN walked /\ walked[i].do # "transfer_from reference" <=>
               /\ i \in FromParams(walked)
               /\ \A n \in DOMAIN walked : walked[n] # [do |-> "require_auth", of |-> walked[i].of]
  BY DEF Unrestricted, FromParams
<1> HIDE DEF from, span
<1>3. from # Other => /\ span \in FromParams(walked) /\ walked[span].of = from
                      /\ \A i \in FromParams(walked) : i <= span
                      /\ span \in DOMAIN walked /\ walked[span].do = "transfer_from"
  BY <1>1 DEF LastFrom, FromParams
<1>4. from # Other => (from \in AuthorizedIn(walked) <=>
                         \E n \in DOMAIN walked : walked[n] = [do |-> "require_auth", of |-> from])
  BY <1>1 DEF AuthorizedIn
<1>5. ASSUME NEW i \in reported PROVE Unrestricted(i)
  BY <1>1, <1>2, <1>3, <1>4, <1>5
<1>6. ASSUME NEW i \in DOMAIN walked \ reported, Unrestricted(i),
             walked[i].do # "transfer_from reference"
      PROVE  \E n \in DOMAIN walked : n > i /\ walked[n].do = "transfer_from" /\ walked[n].of # Other
  <2>1. i \in FromParams(walked)
    BY <1>2, <1>6
  <2>2. from # Other
    BY <1>1, <2>1 DEF LastFrom
  <2>3. i # span
    BY <1>1, <1>2, <1>3, <1>4, <1>6, <2>2
  <2>4. span > i
    BY <1>1, <1>3, <2>1, <2>2, <2>3
  <2> QED BY <1>3, <2>2, <2>4
<1> QED BY <1>5, <1>6

LEMMA TransferInvariant ==
  Follows({"unrestricted-transfer-from"}, TransferStart, VisitTransfer)
    => [](lint \in {"unrestricted-transfer-from"} => TransferInv)
<1>1. (lint \in {"unrestricted-transfer-from"} => Begin(TransferStart))
      => (lint \in {"unrestricted-transfer-from"} => TransferInv)
  <2> SUFFICES ASSUME Begin(TransferStart) PROVE TransferInv
    OBVIOUS
  <2>1. /\ walked = <<>> /\ reported = {}
        /\ memory = [from_param |-> Other, span |-> 0, authorized_param_names |-> {}]
    BY DEF Begin, TransferStart
  <2>2. memory \in TransferMemory /\ walked \in Seq(TransferConstructs)
    BY <2>1 DEF TransferMemory
  <2>3. AuthorizedIn(walked) = {} /\ FromParams(walked) = {}
    BY <2>1 DEF AuthorizedIn, FromParams
  <2> QED BY <2>1, <2>2, <2>3 DEF TransferInv, LastFrom, Ended
<1>2. /\ lint \in {"unrestricted-transfer-from"} => TransferInv
      /\ [IF lint \in {"unrestricted-transfer-from"} THEN VisitTransfer ELSE UNCHANGED lint]_walk
      => (lint \in {"unrestricted-transfer-from"} => TransferInv)'
  <2> SUFFICES ASSUME lint = "unrestricted-transfer-from" => TransferInv,
                      [IF lint \in {"unrestricted-transfer-from"} THEN VisitTransfer ELSE UNCHANGED lint]_walk,
                      lint' = "unrestricted-transfer-from"
               PROVE  TransferInv'
    OBVIOUS
  <2>1. lint' = lint
    <3>1. VisitTransfer => lint' = lint
      BY DEF VisitTransfer, Pass
    <3> QED BY <3>1 DEF walk
  <2>2. TransferInv /\ (VisitTransfer \/ UNCHANGED walk)
    BY <2>1
  <2>3. CASE VisitTransfer
    <3>1. PICK e : TransferPass(e)
      BY <2>3, VisitTransferIs
    <3> QED BY <2>2, <3>1, TransferFollows
  <2>4. CASE UNCHANGED walk
    BY <2>2, <2>4 DEF TransferInv, Ended, walk
  <2> QED BY <2>2, <2>3, <2>4
<1> QED BY <1>1, <1>2, PTL DEF Follows

\* The detectors of transfers decide at the end of a function as the properties say:
\* no guarded transfer is reported unless its guard is the initializer of a let, an
\* unguarded one is passed over only for a return under such a comparison elsewhere, in
\* an else or in such an initializer, and a transfer_from of a parameter that nothing
\* authorizes only for a later one, or when the parameter is handed over as it is
\* (front-running/src/lib.rs, unrestricted-transfer-from/src/lib.rs).
THEOREM TransfersAreJudged == TransferSpec => []TransfersJudged
<1>1. /\ lint \in {"front-running"} => FrontInv
      /\ lint \in {"unrestricted-transfer-from"} => TransferInv
      => TransfersJudged
  <2>1. lint # "front-running" => FrontRunsReported
    BY DEF FrontRunsReported
  <2>2. lint # "unrestricted-transfer-from" => TransfersReported
    BY DEF TransfersReported
  <2> QED BY <2>1, <2>2, FrontIsReported, TransferIsReported DEF TransfersJudged
<1> QED BY <1>1, FrontInvariant, TransferInvariant, PTL DEF TransferSpec

-----------------------------------------------------------------------------
(* Values read from storage.                                                 *)

\* What the detector has modified is what is changed on a way that it follows, or
\* believes to follow, and what can be used here it has bound.
Agrees(dirty, keys, in_scope, c) ==
  \A v \in Copies :
    /\ dirty[v] = "modified" <=> v \in Noticed(c)
    /\ v \in in_scope /\ keys[v] # NoKey => dirty[v] # "unset"
    /\ dirty[v] # "unset" => keys[v] # NoKey

\* It knows the local of each change that it follows by its key.
Known(keys, origin, c) ==
  \A v \in Copies : <<v, Straight>> \in c => keys[v] # NoKey /\ keys[v] = origin[v]

\* It takes no local for a copy of another key.
Consistent(keys, origin) ==
  \A v \in Copies : keys[v] = NoKey \/ origin[v] = NoKey \/ keys[v] = origin[v]

\* The same of what a frame will bring back.
Kept(f, keys, origin) ==
  /\ Agrees(f.pre, keys, f.scope, f.before)
  /\ f.kind \in {"else"} => Agrees(f.merged, keys, f.scope, f.joined)
  /\ f.kind \in {"match"} => Agrees(f.merged, keys, f.scope, f.before \cup f.joined)
  /\ f.kind \in {"then"} => f.joined = {}
  /\ f.kind \in {"change"} => f.at \in Copies
  /\ f.kind \in {"match"} => f.at \in Keys \cup {NoKey}
  /\ Known(keys, origin, f.before) /\ Known(keys, origin, f.joined) /\ Known(keys, origin, f.again)
  /\ f.kind \in Loops \cup {"lazy"} => Real(f.joined) = f.joined /\ Real(f.again) = f.again

Nested(fs, in_scope) ==
  \A i \in DOMAIN fs : /\ fs[i].scope \subseteq in_scope
                       /\ \A j \in i .. Len(fs) : fs[i].scope \subseteq fs[j].scope

IInv == /\ TypeOK
        /\ Agrees(dirty_state, key_map, scope, changes)
        /\ Known(key_map, copied, changes)
        /\ Consistent(key_map, copied)
        /\ \A i \in DOMAIN frames : Kept(frames[i], key_map, copied)
        /\ Nested(frames, scope)

-----------------------------------------------------------------------------
\* Sets of changes.
LEMMA WaysApart ==
  /\ Straight \in Ways /\ Astray \in Ways /\ Imagined \in Ways
  /\ Straight # Astray /\ Straight # Imagined /\ Astray # Imagined
  /\ \A n \in 1 .. MaxDepth : n \in Ways /\ n # Straight /\ n # Imagined /\ n # Astray
BY MaxDepthAssumption DEF Ways, Straight, Astray, Imagined

LEMMA OnIs ==
  ASSUME NEW locals, NEW way, NEW v, NEW w
  PROVE  <<v, w>> \in On(locals, way) <=> v \in locals /\ w = way
BY DEF On

LEMMA OnType ==
  ASSUME NEW locals \in SUBSET Copies, NEW way \in Ways
  PROVE  On(locals, way) \in SUBSET Change
BY DEF On, Change

LEMMA WithoutIs ==
  ASSUME NEW c, NEW locals, NEW ways, NEW v, NEW w
  PROVE  <<v, w>> \in Without(c, locals, ways)
           <=> <<v, w>> \in c /\ ~(v \in locals /\ w \in ways)
BY DEF Without

LEMMA WithoutType ==
  ASSUME NEW c \in SUBSET Change, NEW locals, NEW ways
  PROVE  Without(c, locals, ways) \in SUBSET Change
BY DEF Without

LEMMA RealIs ==
  ASSUME NEW c, NEW v, NEW w
  PROVE  <<v, w>> \in Real(c) <=> <<v, w>> \in c /\ w # Imagined
BY DEF Real

LEMMA RealType ==
  ASSUME NEW c \in SUBSET Change
  PROVE  Real(c) \in SUBSET Change /\ Real(Real(c)) = Real(c)
BY DEF Real

LEMMA NoticedIs ==
  ASSUME NEW c, NEW v \in Copies
  PROVE  v \in Noticed(c) <=> <<v, Straight>> \in c \/ <<v, Imagined>> \in c
BY DEF Noticed, ChangedOn

LEMMA NoticedType ==
  ASSUME NEW c
  PROVE  Noticed(c) \in SUBSET Copies /\ \A w : ChangedOn(c, w) \in SUBSET Copies
BY DEF Noticed, ChangedOn

LEMMA CutIs ==
  ASSUME NEW c
  PROVE  /\ Cut(c) \in SUBSET Change /\ Noticed(Cut(c)) = Noticed(c)
         /\ \A v \in Copies : <<v, Straight>> \notin Cut(c)
<1>1. Cut(c) \in SUBSET Change
  BY OnType, NoticedType, WaysApart DEF Cut
<1>2. ASSUME NEW v \in Copies
      PROVE  /\ <<v, Straight>> \notin Cut(c)
             /\ v \in Noticed(Cut(c)) <=> v \in Noticed(c)
  <2>1. <<v, Straight>> \in Cut(c) <=> v \in Noticed(c) /\ Straight = Imagined
    BY OnIs DEF Cut
  <2>2. <<v, Imagined>> \in Cut(c) <=> v \in Noticed(c)
    BY OnIs DEF Cut
  <2>3. v \in Noticed(Cut(c)) <=> <<v, Straight>> \in Cut(c) \/ <<v, Imagined>> \in Cut(c)
    BY NoticedIs
  <2> QED BY <2>1, <2>2, <2>3, WaysApart
<1> QED BY <1>1, <1>2, NoticedType

LEMMA NoticedUnion ==
  ASSUME NEW a, NEW b
  PROVE  Noticed(a \cup b) = Noticed(a) \cup Noticed(b)
BY DEF Noticed, ChangedOn

-----------------------------------------------------------------------------
\* Stacks: what is below the top, and a new top.
LEMMA Popping ==
  ASSUME NEW T, NEW s \in Seq(T), s # <<>>
  PROVE  LET p == SubSeq(s, 1, Len(s) - 1)
         IN  /\ p \in Seq(T) /\ Len(p) = Len(s) - 1 /\ DOMAIN p = 1 .. Len(s) - 1
             /\ \A i \in DOMAIN p : p[i] = s[i] /\ i \in DOMAIN s
             /\ Len(s) \in DOMAIN s /\ s[Len(s)] \in T
<1>1. Len(s) \in Nat /\ Len(s) > 0 /\ DOMAIN s = 1 .. Len(s)
  OBVIOUS
<1>2. /\ Len(SubSeq(s, 1, Len(s) - 1)) = Len(s) - 1
      /\ SubSeq(s, 1, Len(s) - 1) \in Seq(T)
      /\ \A i \in 1 .. Len(s) - 1 : SubSeq(s, 1, Len(s) - 1)[i] = s[i]
  BY <1>1
<1> QED BY <1>1, <1>2

LEMMA Pushing ==
  ASSUME NEW T, NEW s \in Seq(T), NEW x \in T
  PROVE  /\ Append(s, x) \in Seq(T) /\ Len(Append(s, x)) = Len(s) + 1
         /\ DOMAIN Append(s, x) = 1 .. Len(s) + 1
         /\ \A i \in DOMAIN s : Append(s, x)[i] = s[i]
         /\ Append(s, x)[Len(s) + 1] = x
OBVIOUS

LEMMA FrameFields ==
  ASSUME NEW f \in Frame
  PROVE  /\ f.kind \in {"then", "else", "match", "lazy", "set", "change"} \cup Loops
         /\ f.at \in Keys \cup Copies \cup {NoKey}
         /\ f.pre \in [Copies -> CopyState] /\ f.merged \in [Copies -> CopyState]
         /\ f.before \in SUBSET Change /\ f.joined \in SUBSET Change /\ f.again \in SUBSET Change
         /\ f.met \in BOOLEAN /\ f.scope \in SUBSET Copies
BY DEF Frame

LEMMA Merged ==
  ASSUME NEW s1 \in [Copies -> CopyState], NEW s2 \in [Copies -> CopyState]
  PROVE  /\ MergeStates(s1, s2) \in [Copies -> CopyState]
         /\ \A v \in Copies : MergeStates(s1, s2)[v] = IF s2[v] = "modified" THEN "modified" ELSE s1[v]
BY DEF MergeStates, CopyState

\* What is merged agrees with the changes of both.
LEMMA MergedAgrees ==
  ASSUME NEW s1 \in [Copies -> CopyState], NEW s2 \in [Copies -> CopyState],
         NEW keys, NEW in_scope, NEW c1, NEW c2,
         Agrees(s1, keys, in_scope, c1), Agrees(s2, keys, in_scope, c2)
  PROVE  Agrees(MergeStates(s1, s2), keys, in_scope, c1 \cup c2)
<1>1. Noticed(c1 \cup c2) = Noticed(c1) \cup Noticed(c2)
  BY NoticedUnion
<1>2. ASSUME NEW v \in Copies
      PROVE  /\ MergeStates(s1, s2)[v] = "modified" <=> v \in Noticed(c1 \cup c2)
             /\ v \in in_scope /\ keys[v] # NoKey => MergeStates(s1, s2)[v] # "unset"
             /\ MergeStates(s1, s2)[v] # "unset" => keys[v] # NoKey
  <2>1. MergeStates(s1, s2)[v] = IF s2[v] = "modified" THEN "modified" ELSE s1[v]
    BY Merged
  <2>2. /\ s1[v] = "modified" <=> v \in Noticed(c1)
        /\ s2[v] = "modified" <=> v \in Noticed(c2)
        /\ v \in in_scope /\ keys[v] # NoKey => s1[v] # "unset"
        /\ s1[v] # "unset" => keys[v] # NoKey
        /\ s2[v] # "unset" => keys[v] # NoKey
    BY DEF Agrees
  <2> QED BY <1>1, <2>1, <2>2
<1> QED BY <1>2 DEF Agrees

LEMMA AgreesLess ==
  ASSUME NEW dirty, NEW keys, NEW in_scope, NEW less \in SUBSET in_scope, NEW c, NEW c2,
         Agrees(dirty, keys, in_scope, c), Noticed(c2) = Noticed(c)
  PROVE  Agrees(dirty, keys, less, c2)
BY DEF Agrees

LEMMA KnownLess ==
  ASSUME NEW keys, NEW origin, NEW c, Known(keys, origin, c), NEW c2,
         \A v \in Copies : <<v, Straight>> \in c2 => <<v, Straight>> \in c
  PROVE  Known(keys, origin, c2)
BY DEF Known

LEMMA KnownUnion ==
  ASSUME NEW keys, NEW origin, NEW c, NEW c2
  PROVE  Known(keys, origin, c \cup c2) <=> Known(keys, origin, c) /\ Known(keys, origin, c2)
BY DEF Known

\* What was just read has its type.
LEMMA ReadType ==
  ASSUME changes \in SUBSET Change, NEW dirty, NEW keys, NEW origin, NEW k \in Keys,
         read' = NoRead \/ Get(dirty, keys, origin, k)
  PROVE  read' \in Reading
<1> DEFINE b == \E v \in Mapped(keys, k) : dirty[v] = "modified"
           o == {p \in Real(changes) : p[1] \in Mapped(origin, k)}
           m == Mapped(keys, k) \cap ChangedOn(changes, Imagined)
<1>1. \A x \in Keys \cup {NoKey}, s \in SUBSET Change, t \in SUBSET Copies, y \in BOOLEAN :
        [key |-> x, overlooked |-> s, imagined |-> t, reported |-> y] \in Reading
  BY DEF Reading
<1>2. b \in BOOLEAN
  BY Zenon
<1>3. o \in SUBSET Change
  BY RealType
<1>4. m \in SUBSET Copies
  BY NoticedType
<1>5. CASE read' = NoRead
  BY <1>1, <1>5 DEF NoRead
<1>6. CASE Get(dirty, keys, origin, k)
  <2>1. read' = [key |-> k, overlooked |-> o, imagined |-> m, reported |-> b]
    BY <1>6 DEF Get
  <2> HIDE DEF b, o, m
  <2> QED BY <2>1, <1>1, <1>2, <1>3, <1>4
<1> QED BY <1>5, <1>6

LEMMA NoReadType == NoRead \in Reading
BY DEF NoRead, Reading

-----------------------------------------------------------------------------
\* A frame is put on the frames below.
LEMMA PushStep ==
  ASSUME NEW below \in Seq(Frame), NEW g \in Frame, NEW keys, NEW origin, NEW in_scope,
         \A i \in DOMAIN below : Kept(below[i], keys, origin),
         Nested(below, g.scope), g.scope \subseteq in_scope,
         Kept(g, keys, origin)
  PROVE  LET fs == Append(below, g)
         IN  /\ fs \in Seq(Frame)
             /\ \A i \in DOMAIN fs : Kept(fs[i], keys, origin)
             /\ Nested(fs, in_scope)
<1> DEFINE fs == Append(below, g)
<1>1. /\ DOMAIN fs = 1 .. Len(below) + 1 /\ Len(fs) = Len(below) + 1
      /\ \A i \in DOMAIN below : fs[i] = below[i]
      /\ fs[Len(below) + 1] = g /\ fs \in Seq(Frame)
  BY Pushing
<1>2. DOMAIN below = 1 .. Len(below) /\ Len(below) \in Nat
  OBVIOUS
<1> HIDE DEF fs
<1>3. \A i \in DOMAIN fs : Kept(fs[i], keys, origin)
  <2>1. ASSUME NEW i \in DOMAIN fs
        PROVE  i \in DOMAIN below \/ i = Len(below) + 1
    BY <1>1, <1>2
  <2> QED BY <2>1, <1>1
<1>4. \A i \in DOMAIN below : below[i].scope \subseteq g.scope
  BY DEF Nested
<1>5. \A i \in DOMAIN fs : fs[i].scope \subseteq g.scope
  BY <1>1, <1>2, <1>4
<1>6. ASSUME NEW i \in DOMAIN fs, NEW j \in i .. Len(fs)
      PROVE  fs[i].scope \subseteq fs[j].scope
  <2>1. CASE j = Len(below) + 1
    BY <1>5, <2>1, <1>1
  <2>2. CASE j # Len(below) + 1
    <3>1. i \in DOMAIN below /\ j \in i .. Len(below) /\ j \in DOMAIN below
      BY <1>1, <1>2, <2>2
    <3> QED BY <3>1, <1>1 DEF Nested
  <2> QED BY <2>1, <2>2
<1>7. Nested(fs, in_scope)
  BY <1>5, <1>6 DEF Nested
<1> QED BY <1>1, <1>3, <1>7 DEF fs

LEMMA EnterStep ==
  ASSUME IInv, NEW kind \in {"then", "match", "lazy", "set", "change"} \cup Loops,
         NEW at \in Keys \cup Copies \cup {NoKey}, EnterFrame(kind, at),
         kind \in {"change"} => at \in Copies, kind \in {"match"} => at \in Keys \cup {NoKey},
         read' \in Reading, dirty_state' \in [Copies -> CopyState], changes' \in SUBSET Change,
         Agrees(dirty_state', key_map, scope, changes'), Known(key_map, copied, changes')
  PROVE  IInv'
<1> DEFINE g == [kind |-> kind, at |-> at, pre |-> dirty_state, merged |-> dirty_state,
                 before |-> changes, joined |-> {}, again |-> {}, met |-> FALSE, scope |-> scope]
<1>1. /\ frames \in Seq(Frame) /\ dirty_state \in [Copies -> CopyState]
      /\ changes \in SUBSET Change /\ scope \in SUBSET Copies
  BY DEF IInv, TypeOK
<1>2. /\ g \in Frame /\ g.pre = dirty_state /\ g.merged = dirty_state
      /\ g.before = changes /\ g.joined = {} /\ g.again = {} /\ g.scope = scope
      /\ g.kind = kind /\ g.at = at
  BY <1>1 DEF Frame
<1>3. frames' = Append(frames, g) /\ UNCHANGED <<key_map, scope, copied, reached>>
  BY DEF EnterFrame
<1> HIDE DEF g
<1>4. Kept(g, key_map, copied)
  <2>1. Known(key_map, copied, {})
    BY DEF Known
  <2>2. Real({}) = {}
    BY DEF Real
  <2>3. changes \cup {} = changes
    OBVIOUS
  <2>4. Agrees(dirty_state, key_map, scope, changes) /\ Known(key_map, copied, changes)
    BY DEF IInv
  <2>5. kind \notin {"else"}
    BY DEF Loops
  <2> QED BY <1>2, <2>1, <2>2, <2>3, <2>4, <2>5 DEF Kept
<1>5. /\ frames' \in Seq(Frame)
      /\ \A i \in DOMAIN frames' : Kept(frames'[i], key_map, copied)
      /\ Nested(frames', scope)
  BY <1>1, <1>2, <1>3, <1>4, PushStep DEF IInv
<1>6. TypeOK'
  BY <1>3, <1>5 DEF IInv, TypeOK
<1> QED BY <1>3, <1>5, <1>6 DEF IInv

\* What is below the top, when a branch ends.
LEMMA BelowFacts ==
  ASSUME IInv, frames # <<>>
  PROVE  /\ Below \in Seq(Frame) /\ Inner \in Frame /\ Len(Below) = Len(frames) - 1
         /\ \A i \in DOMAIN Below : Kept(Below[i], key_map, copied)
         /\ Nested(Below, Inner.scope) /\ Inner.scope \subseteq scope
         /\ Kept(Inner, key_map, copied)
<1>1. frames \in Seq(Frame)
  BY DEF IInv, TypeOK
<1>2. /\ Below \in Seq(Frame) /\ Len(Below) = Len(frames) - 1 /\ DOMAIN Below = 1 .. Len(frames) - 1
      /\ \A i \in DOMAIN Below : Below[i] = frames[i] /\ i \in DOMAIN frames
      /\ Len(frames) \in DOMAIN frames /\ Inner \in Frame
  BY <1>1, Popping DEF Below, Inner
<1>3. Kept(Inner, key_map, copied) /\ Inner.scope \subseteq scope
  BY <1>2 DEF IInv, Nested, Inner
<1>4. \A i \in DOMAIN Below : Kept(Below[i], key_map, copied)
  BY <1>2 DEF IInv
<1>5. Nested(Below, Inner.scope)
  <2>1. Len(frames) \in Nat /\ DOMAIN frames = 1 .. Len(frames)
    BY <1>1
  <2>2. ASSUME NEW i \in DOMAIN Below
        PROVE  Below[i].scope \subseteq Inner.scope
    <3>1. Len(frames) \in i .. Len(frames)
      BY <1>2, <2>1
    <3> QED BY <1>2, <3>1 DEF IInv, Nested, Inner
  <2>3. ASSUME NEW i \in DOMAIN Below, NEW j \in i .. Len(Below)
        PROVE  Below[i].scope \subseteq Below[j].scope
    <3>1. i \in DOMAIN frames /\ j \in i .. Len(frames) /\ j \in DOMAIN Below
      BY <1>2, <2>1
    <3> QED BY <1>2, <3>1 DEF IInv, Nested
  <2> QED BY <2>2, <2>3 DEF Nested
<1> QED BY <1>2, <1>3, <1>4, <1>5
-----------------------------------------------------------------------------
\* A local bound just now leaves what the frames keep.
LEMMA KeptGrows ==
  ASSUME NEW f \in Frame, NEW keys, NEW origin, NEW keys2, NEW origin2,
         \A v \in Copies : \/ keys2[v] = keys[v] /\ origin2[v] = origin[v]
                           \/ v \notin f.scope /\ keys[v] = NoKey,
         Kept(f, keys, origin)
  PROVE  Kept(f, keys2, origin2)
<1>1. ASSUME NEW dirty, NEW c, Agrees(dirty, keys, f.scope, c)
      PROVE  Agrees(dirty, keys2, f.scope, c)
  BY <1>1 DEF Agrees
<1>2. ASSUME NEW c, Known(keys, origin, c)
      PROVE  Known(keys2, origin2, c)
  BY <1>2 DEF Known
<1> QED BY <1>1, <1>2 DEF Kept

\* The steps that stay in their frame.
LEMMA StayStep ==
  ASSUME IInv, UNCHANGED frames, read' \in Reading, reached' \in BOOLEAN,
         dirty_state' \in [Copies -> CopyState], key_map' \in [Copies -> Keys \cup {NoKey}],
         copied' \in [Copies -> Keys \cup {NoKey}],
         scope \subseteq scope', scope' \in SUBSET Copies, changes' \in SUBSET Change,
         \A v \in Copies : \/ key_map'[v] = key_map[v] /\ copied'[v] = copied[v]
                           \/ v \notin scope /\ key_map[v] = NoKey,
         Agrees(dirty_state', key_map', scope', changes'), Known(key_map', copied', changes'),
         Consistent(key_map', copied')
  PROVE  IInv'
<1>1. ASSUME NEW i \in DOMAIN frames
      PROVE  Kept(frames[i], key_map', copied')
  <2>1. frames[i] \in Frame /\ frames[i].scope \subseteq scope /\ Kept(frames[i], key_map, copied)
    BY DEF IInv, TypeOK, Nested
  <2>2. \A v \in Copies : \/ key_map'[v] = key_map[v] /\ copied'[v] = copied[v]
                          \/ v \notin frames[i].scope /\ key_map[v] = NoKey
    BY <2>1
  <2> QED BY <2>1, <2>2, KeptGrows
<1>2. Nested(frames, scope')
  BY DEF IInv, Nested
<1>3. TypeOK'
  BY DEF IInv, TypeOK
<1> QED BY <1>1, <1>2, <1>3 DEF IInv

\* The innermost frame is left.
LEMMA LeaveStep ==
  ASSUME IInv, frames # <<>>, LeaveFrame,
         dirty_state' \in [Copies -> CopyState], changes' \in SUBSET Change, reached' \in BOOLEAN,
         Agrees(dirty_state', key_map, Inner.scope, changes'), Known(key_map, copied, changes')
  PROVE  IInv'
<1>1. /\ Below \in Seq(Frame) /\ Inner \in Frame
      /\ \A i \in DOMAIN Below : Kept(Below[i], key_map, copied)
      /\ Nested(Below, Inner.scope)
  BY BelowFacts
<1>2. Inner.scope \in SUBSET Copies
  BY <1>1, FrameFields
<1>3. /\ frames' = Below /\ scope' = Inner.scope /\ UNCHANGED <<key_map, copied>>
      /\ read' \in Reading
  BY NoReadType DEF LeaveFrame
<1>4. TypeOK'
  BY <1>1, <1>2, <1>3 DEF IInv, TypeOK
<1> QED BY <1>1, <1>3, <1>4 DEF IInv

LEMMA NextBranchStep ==
  ASSUME IInv, frames # <<>>, NEW kind \in {"else", "match"}, NEW merged \in [Copies -> CopyState],
         NextBranch(kind, merged),
         kind \in {"match"} => Inner.at \in Keys \cup {NoKey},
         kind \in {"else"} => Agrees(merged, key_map, Inner.scope, Inner.joined \cup changes),
         kind \in {"match"} =>
           Agrees(merged, key_map, Inner.scope, Inner.before \cup (Inner.joined \cup changes))
  PROVE  IInv'
<1> DEFINE g == [Inner EXCEPT !.kind = kind, !.merged = merged,
                              !.joined = @ \cup changes, !.met = @ \/ reached]
<1>1. /\ Below \in Seq(Frame) /\ Inner \in Frame
      /\ \A i \in DOMAIN Below : Kept(Below[i], key_map, copied)
      /\ Nested(Below, Inner.scope) /\ Inner.scope \subseteq scope
      /\ Kept(Inner, key_map, copied)
  BY BelowFacts
<1>2. changes \in SUBSET Change /\ reached \in BOOLEAN
  BY DEF IInv, TypeOK
<1>3. /\ Inner.joined \cup changes \in SUBSET Change /\ (Inner.met \/ reached) \in BOOLEAN
      /\ Inner.pre \in [Copies -> CopyState] /\ Inner.before \in SUBSET Change
      /\ Inner.scope \in SUBSET Copies
  BY <1>1, <1>2, FrameFields
<1>4. /\ g \in Frame /\ g.pre = Inner.pre /\ g.merged = merged /\ g.at = Inner.at
      /\ g.before = Inner.before /\ g.joined = Inner.joined \cup changes /\ g.again = Inner.again
      /\ g.scope = Inner.scope /\ g.kind = kind
  BY <1>1, <1>3 DEF Frame
<1>5. /\ frames' = Append(Below, g) /\ dirty_state' = Inner.pre /\ changes' = Inner.before
      /\ scope' = Inner.scope /\ UNCHANGED <<key_map, copied>> /\ reached' = TRUE /\ read' = NoRead
  BY DEF NextBranch
<1> HIDE DEF g
<1>6. Known(key_map, copied, Inner.joined \cup changes)
  BY <1>1, KnownUnion DEF Kept, IInv
<1>7. Kept(g, key_map, copied)
  <2>1. kind \notin {"then", "change", "lazy"} \cup Loops
    BY DEF Loops
  <2> QED BY <1>1, <1>4, <1>6, <2>1 DEF Kept
<1>8. /\ frames' \in Seq(Frame)
      /\ \A i \in DOMAIN frames' : Kept(frames'[i], key_map, copied)
      /\ Nested(frames', Inner.scope)
  BY <1>1, <1>4, <1>5, <1>7, PushStep
<1>9. TypeOK'
  BY <1>3, <1>5, <1>8, NoReadType DEF IInv, TypeOK
<1>10. Agrees(Inner.pre, key_map, Inner.scope, Inner.before) /\ Known(key_map, copied, Inner.before)
  BY <1>1 DEF Kept
<1> QED BY <1>5, <1>8, <1>9, <1>10 DEF IInv

\* Frames with the scopes of others are nested as they are.
LEMMA Remade ==
  ASSUME NEW fs \in Seq(Frame), NEW gs \in [DOMAIN fs -> Frame], NEW in_scope, Nested(fs, in_scope),
         \A i \in DOMAIN fs : gs[i].scope = fs[i].scope
  PROVE  gs \in Seq(Frame) /\ Nested(gs, in_scope) /\ DOMAIN gs = DOMAIN fs
<1>1. DOMAIN fs = 1 .. Len(fs) /\ Len(fs) \in Nat
  OBVIOUS
<1>2. gs \in Seq(Frame) /\ Len(gs) = Len(fs) /\ DOMAIN gs = DOMAIN fs
  BY <1>1, SeqDef
<1>3. ASSUME NEW i \in DOMAIN gs
      PROVE  gs[i].scope \subseteq in_scope
  BY <1>2, <1>3 DEF Nested
<1>4. ASSUME NEW i \in DOMAIN gs, NEW j \in i .. Len(gs)
      PROVE  gs[i].scope \subseteq gs[j].scope
  <2>1. i \in DOMAIN fs /\ j \in DOMAIN fs /\ j \in i .. Len(fs)
    BY <1>1, <1>2
  <2> QED BY <2>1 DEF Nested
<1> QED BY <1>2, <1>3, <1>4 DEF Nested

-----------------------------------------------------------------------------
LEMMA InitInv == Init => IInv
<1> SUFFICES ASSUME Init PROVE IInv
  OBVIOUS
<1>1. /\ dirty_state = [v \in Copies |-> "unset"] /\ key_map = [v \in Copies |-> NoKey]
      /\ copied = [v \in Copies |-> NoKey] /\ frames = <<>> /\ scope = {} /\ changes = {}
      /\ reached = TRUE /\ read = NoRead
  BY DEF Init
<1>2. \A v \in Copies : v \notin Noticed({})
  BY DEF Noticed, ChangedOn
<1>3. Agrees(dirty_state, key_map, scope, changes)
  BY <1>1, <1>2 DEF Agrees
<1>4. Known(key_map, copied, changes) /\ Consistent(key_map, copied)
  BY <1>1 DEF Known, Consistent
<1>5. frames \in Seq(Frame) /\ DOMAIN frames = {}
  BY <1>1
<1>6. TypeOK
  BY <1>1, <1>5, NoReadType DEF TypeOK, CopyState
<1> QED BY <1>3, <1>4, <1>5, <1>6 DEF IInv, Nested

\* A local that is new was not changed.
LEMMA NewIsClean ==
  ASSUME IInv, NEW v \in Copies, key_map[v] = NoKey
  PROVE  dirty_state[v] = "unset" /\ v \notin Noticed(changes)
BY DEF IInv, Agrees

LEMMA BindStep ==
  ASSUME IInv, NEW v \in Copies, NEW k \in Keys, NewLocal(v), read' \in Reading,
         ProcessPat(v, k), \/ copied' = [copied EXCEPT ![v] = k]
                           \/ UNCHANGED copied
  PROVE  IInv'
<1>1. /\ v \notin scope /\ key_map[v] = NoKey /\ copied[v] = NoKey
      /\ scope' = scope \cup {v} /\ UNCHANGED <<frames, changes, reached>>
  BY DEF NewLocal
<1>2. /\ dirty_state' = [dirty_state EXCEPT ![v] = "clean"]
      /\ key_map' = [key_map EXCEPT ![v] = k]
  BY DEF ProcessPat
<1>3. /\ dirty_state \in [Copies -> CopyState] /\ key_map \in [Copies -> Keys \cup {NoKey}]
      /\ copied \in [Copies -> Keys \cup {NoKey}] /\ scope \in SUBSET Copies
      /\ changes \in SUBSET Change /\ reached \in BOOLEAN
  BY DEF IInv, TypeOK
<1>4. /\ dirty_state' \in [Copies -> CopyState] /\ key_map' \in [Copies -> Keys \cup {NoKey}]
      /\ copied' \in [Copies -> Keys \cup {NoKey}] /\ scope' \in SUBSET Copies
      /\ copied'[v] \in {NoKey, k}
  BY <1>1, <1>2, <1>3 DEF CopyState
<1>5. \A u \in Copies \ {v} : /\ dirty_state'[u] = dirty_state[u] /\ key_map'[u] = key_map[u]
                              /\ copied'[u] = copied[u]
  BY <1>2, <1>3
<1>6. dirty_state'[v] = "clean" /\ key_map'[v] = k /\ k # NoKey
  BY <1>2, <1>3, NoKeyAssumption
<1>7. v \notin Noticed(changes) /\ <<v, Straight>> \notin changes
  BY <1>1, NewIsClean, NoticedIs
<1>8. Agrees(dirty_state', key_map', scope', changes)
  <2>1. ASSUME NEW u \in Copies
        PROVE  /\ dirty_state'[u] = "modified" <=> u \in Noticed(changes)
               /\ u \in scope' /\ key_map'[u] # NoKey => dirty_state'[u] # "unset"
               /\ dirty_state'[u] # "unset" => key_map'[u] # NoKey
    <3>1. CASE u = v
      BY <3>1, <1>6, <1>7
    <3>2. CASE u # v
      BY <3>2, <1>1, <1>5 DEF IInv, Agrees
    <3> QED BY <3>1, <3>2
  <2> QED BY <2>1 DEF Agrees
<1>9. Known(key_map', copied', changes)
  BY <1>5, <1>7 DEF IInv, Known
<1>10. Consistent(key_map', copied')
  BY <1>4, <1>5, <1>6 DEF IInv, Consistent
<1>11. \A u \in Copies : \/ key_map'[u] = key_map[u] /\ copied'[u] = copied[u]
                         \/ u \notin scope /\ key_map[u] = NoKey
  BY <1>1, <1>5
<1> QED BY <1>1, <1>3, <1>4, <1>8, <1>9, <1>10, <1>11, StayStep

\* The reads, and the lets and patterns that bind what was read.
LEMMA BindInv ==
  ASSUME IInv,
         \/ \E k \in Keys : Read(k)
         \/ \E v \in Copies, k \in Keys : BindCopy(v, k) \/ BindOther(v, k) \/ BindUnseen(v, k)
         \/ \E v \in Copies : BindInArm(v)
  PROVE  IInv'
<1>1. /\ dirty_state \in [Copies -> CopyState] /\ key_map \in [Copies -> Keys \cup {NoKey}]
      /\ copied \in [Copies -> Keys \cup {NoKey}] /\ scope \in SUBSET Copies
      /\ changes \in SUBSET Change /\ reached \in BOOLEAN
  BY DEF IInv, TypeOK
<1>2. ASSUME NEW k \in Keys, NEW d, NEW m, NEW o, Get(d, m, o, k)
      PROVE  read' \in Reading
  BY <1>1, <1>2, ReadType
<1>3. ASSUME NEW k \in Keys, Read(k) PROVE IInv'
  <2>1. read' \in Reading /\ UNCHANGED <<dirty_state, key_map, frames, scope, copied, changes, reached>>
    BY <1>2, <1>3 DEF Read, detector
  <2>2. IInv
    OBVIOUS
  <2> QED BY <1>1, <2>1, StayStep DEF IInv
<1>4. ASSUME NEW v \in Copies, NEW k \in Keys, BindCopy(v, k) PROVE IInv'
  <2>1. NewLocal(v) /\ ProcessPat(v, k) /\ copied' = [copied EXCEPT ![v] = k]
    BY <1>4 DEF BindCopy
  <2>2. read' \in Reading
    BY <1>2, <1>4 DEF BindCopy
  <2> QED BY <2>1, <2>2, BindStep
<1>5. ASSUME NEW v \in Copies, NEW k \in Keys, BindOther(v, k) PROVE IInv'
  BY <1>5, BindStep, NoReadType DEF BindOther
<1>6. ASSUME NEW v \in Copies, NEW k \in Keys, BindUnseen(v, k) PROVE IInv'
  <2>1. /\ v \notin scope /\ key_map[v] = NoKey /\ copied[v] = NoKey
        /\ scope' = scope \cup {v} /\ UNCHANGED <<frames, changes, reached, dirty_state, key_map>>
        /\ copied' = [copied EXCEPT ![v] = k]
    BY <1>6 DEF BindUnseen, NewLocal, detector
  <2>2. read' \in Reading
    BY <1>2, <1>6 DEF BindUnseen
  <2>3. scope' \in SUBSET Copies /\ copied' \in [Copies -> Keys \cup {NoKey}]
    BY <1>1, <2>1
  <2>4. \A u \in Copies \ {v} : copied'[u] = copied[u]
    BY <1>1, <2>1
  <2>5. Agrees(dirty_state, key_map, scope', changes)
    BY <2>1 DEF IInv, Agrees
  <2>6. Known(key_map, copied', changes)
    BY <2>1, <2>4 DEF IInv, Known
  <2>7. Consistent(key_map, copied')
    BY <2>1, <2>4 DEF IInv, Consistent
  <2>8. \A u \in Copies : \/ key_map'[u] = key_map[u] /\ copied'[u] = copied[u]
                          \/ u \notin scope /\ key_map[u] = NoKey
    BY <2>1, <2>4
  <2> QED BY <1>1, <2>1, <2>2, <2>3, <2>5, <2>6, <2>7, <2>8, StayStep
<1>7. ASSUME NEW v \in Copies, BindInArm(v) PROVE IInv'
  <2>1. /\ frames # <<>> /\ Inner.kind \in {"match"} /\ Inner.at # NoKey
        /\ NewLocal(v) /\ ProcessPat(v, Inner.at) /\ copied' = [copied EXCEPT ![v] = Inner.at]
        /\ read' = NoRead
    BY <1>7 DEF BindInArm, Inside
  <2>2. Inner.at \in Keys
    BY <2>1, BelowFacts DEF Kept
  <2> QED BY <2>1, <2>2, BindStep, NoReadType
<1> QED BY <1>3, <1>4, <1>5, <1>6, <1>7

-----------------------------------------------------------------------------
\* A change at its end is one that the detector holds, if it still does.
LEMMA ChangedIs ==
  ASSUME IInv, NEW v \in Copies
  PROVE  /\ Changed(v) \in SUBSET Change /\ Noticed(Changed(v)) = Noticed(changes)
         /\ Known(key_map, copied, Changed(v))
<1>1. changes \in SUBSET Change /\ Known(key_map, copied, changes)
  BY DEF IInv, TypeOK
<1>2. CASE ~reached \/ copied[v] = NoKey
  BY <1>1, <1>2 DEF Changed
<1>3. CASE reached /\ copied[v] # NoKey /\ v \in Noticed(changes)
  <2> DEFINE c == Without(changes, {v}, {Imagined}) \cup {<<v, Straight>>}
  <2>1. Changed(v) = c
    BY <1>3 DEF Changed
  <2>2. c \in SUBSET Change
    BY <1>1, WithoutType, WaysApart DEF Change
  <2>3. ASSUME NEW u \in Copies
        PROVE  /\ <<u, Straight>> \in c <=> <<u, Straight>> \in changes \/ u = v
               /\ <<u, Imagined>> \in c <=> <<u, Imagined>> \in changes /\ u # v
    BY WithoutIs, WaysApart
  <2> HIDE DEF c
  <2>4. ASSUME NEW u \in Copies
        PROVE  u \in Noticed(c) <=> u \in Noticed(changes)
    BY <1>3, <2>3, NoticedIs
  <2>5. key_map[v] # NoKey /\ key_map[v] = copied[v]
    BY <1>3 DEF IInv, Agrees, Consistent
  <2>6. Known(key_map, copied, c)
    BY <1>1, <2>3, <2>5 DEF Known
  <2> QED BY <2>1, <2>2, <2>4, <2>6, NoticedType
<1>4. CASE reached /\ copied[v] # NoKey /\ v \notin Noticed(changes)
  <2> DEFINE c == changes \cup {<<v, Astray>>}
  <2>1. Changed(v) = c
    BY <1>4 DEF Changed
  <2>2. c \in SUBSET Change
    BY <1>1, WaysApart DEF Change
  <2>3. ASSUME NEW u \in Copies
        PROVE  /\ <<u, Straight>> \in c <=> <<u, Straight>> \in changes
               /\ <<u, Imagined>> \in c <=> <<u, Imagined>> \in changes
    BY WaysApart
  <2> HIDE DEF c
  <2>4. ASSUME NEW u \in Copies
        PROVE  u \in Noticed(c) <=> u \in Noticed(changes)
    BY <2>3, NoticedIs
  <2>5. Known(key_map, copied, c)
    BY <1>1, <2>3 DEF Known
  <2> QED BY <2>1, <2>2, <2>4, <2>5, NoticedType
<1> QED BY <1>2, <1>3, <1>4

\* Changes of some locals are forgotten, or only imagined from now on.
LEMMA SettledIs ==
  ASSUME NEW c \in SUBSET Change, NEW locals, NEW seen \in SUBSET Noticed(c),
         seen \subseteq locals, \A v \in locals : <<v, Straight>> \in c => v \in seen
  PROVE  LET s == Without(c, locals, Ways \ {Imagined}) \cup On(seen, Imagined)
         IN  /\ s \in SUBSET Change /\ Noticed(s) = Noticed(c)
             /\ \A v \in Copies : <<v, Straight>> \in s => <<v, Straight>> \in c
<1> DEFINE s == Without(c, locals, Ways \ {Imagined}) \cup On(seen, Imagined)
<1>1. s \in SUBSET Change
  <2>1. seen \in SUBSET Copies
    BY NoticedType
  <2> QED BY <2>1, WithoutType, OnType, WaysApart
<1>2. ASSUME NEW v \in Copies
      PROVE  /\ <<v, Straight>> \in s <=> <<v, Straight>> \in c /\ v \notin locals
             /\ <<v, Imagined>> \in s <=> <<v, Imagined>> \in c \/ v \in seen
  <2>1. /\ <<v, Straight>> \in Without(c, locals, Ways \ {Imagined})
             <=> <<v, Straight>> \in c /\ ~(v \in locals /\ Straight \in Ways \ {Imagined})
        /\ <<v, Imagined>> \in Without(c, locals, Ways \ {Imagined})
             <=> <<v, Imagined>> \in c /\ ~(v \in locals /\ Imagined \in Ways \ {Imagined})
    BY WithoutIs
  <2>2. /\ <<v, Straight>> \in On(seen, Imagined) <=> v \in seen /\ Straight = Imagined
        /\ <<v, Imagined>> \in On(seen, Imagined) <=> v \in seen
    BY OnIs
  <2> QED BY <2>1, <2>2, WaysApart
<1> HIDE DEF s
<1>3. ASSUME NEW v \in Copies
      PROVE  v \in Noticed(s) <=> v \in Noticed(c)
  BY <1>2, NoticedIs
<1> QED BY <1>1, <1>2, <1>3, NoticedType DEF s

\* A write begins: the detector holds its locals for clean.
LEMMA ForgottenIs ==
  ASSUME NEW c \in SUBSET Change, NEW locals \in SUBSET Copies
  PROVE  LET s == Without(c, locals, {Straight, Imagined})
                    \cup On(locals \cap ChangedOn(c, Straight), Astray)
         IN  /\ s \in SUBSET Change /\ Noticed(s) = Noticed(c) \ locals
             /\ \A v \in Copies : <<v, Straight>> \in s => <<v, Straight>> \in c
<1> DEFINE l == locals \cap ChangedOn(c, Straight)
           s == Without(c, locals, {Straight, Imagined}) \cup On(l, Astray)
<1>1. s \in SUBSET Change
  BY WithoutType, OnType, WaysApart
<1>2. ASSUME NEW v \in Copies
      PROVE  /\ <<v, Straight>> \in s <=> <<v, Straight>> \in c /\ v \notin locals
             /\ <<v, Imagined>> \in s <=> <<v, Imagined>> \in c /\ v \notin locals
  <2>1. /\ <<v, Straight>> \in Without(c, locals, {Straight, Imagined})
             <=> <<v, Straight>> \in c /\ ~(v \in locals /\ Straight \in {Straight, Imagined})
        /\ <<v, Imagined>> \in Without(c, locals, {Straight, Imagined})
             <=> <<v, Imagined>> \in c /\ ~(v \in locals /\ Imagined \in {Straight, Imagined})
    BY WithoutIs
  <2>2. /\ <<v, Straight>> \in On(l, Astray) <=> v \in l /\ Straight = Astray
        /\ <<v, Imagined>> \in On(l, Astray) <=> v \in l /\ Imagined = Astray
    BY OnIs
  <2> QED BY <2>1, <2>2, WaysApart
<1> HIDE DEF s
<1>3. ASSUME NEW v \in Copies
      PROVE  v \in Noticed(s) <=> v \in Noticed(c) /\ v \notin locals
  BY <1>2, NoticedIs
<1>4. Noticed(s) = Noticed(c) \ locals
  BY <1>3, NoticedType
<1> QED BY <1>1, <1>2, <1>4 DEF s, l

\* Changes and writes, from before their arguments to after.
LEMMA CallInv ==
  ASSUME IInv,
         \/ \E v \in Copies : BeginChange(v)
         \/ EndChange \/ Refresh
         \/ \E k \in Keys : BeginSet(k)
         \/ EndSet
  PROVE  IInv'
<1>1. /\ dirty_state \in [Copies -> CopyState] /\ key_map \in [Copies -> Keys \cup {NoKey}]
      /\ copied \in [Copies -> Keys \cup {NoKey}] /\ scope \in SUBSET Copies
      /\ changes \in SUBSET Change /\ reached \in BOOLEAN
      /\ Agrees(dirty_state, key_map, scope, changes) /\ Known(key_map, copied, changes)
  BY DEF IInv, TypeOK
<1>2. ASSUME frames # <<>>, LeaveFrame, UNCHANGED <<dirty_state, reached>>, changes' \in SUBSET Change,
             Noticed(changes') = Noticed(changes), Known(key_map, copied, changes')
      PROVE  IInv'
  <2>1. Inner.scope \subseteq scope
    BY <1>2, BelowFacts
  <2>2. Agrees(dirty_state', key_map, Inner.scope, changes')
    BY <1>1, <1>2, <2>1, AgreesLess
  <2> QED BY <1>1, <1>2, <2>2, LeaveStep
<1>3. ASSUME NEW v \in Copies, BeginChange(v) PROVE IInv'
  <2> DEFINE l == {v} \ Mapped(key_map, NoKey)
             c == changes \cup On(l, Imagined)
  <2>1. /\ v \in scope /\ EnterFrame("change", v) /\ changes' = c /\ read' = NoRead
        /\ dirty_state' = IF dirty_state[v] = "unset" THEN dirty_state
                          ELSE [dirty_state EXCEPT ![v] = "modified"]
    BY <1>3 DEF BeginChange
  <2>2. dirty_state' \in [Copies -> CopyState]
    BY <1>1, <2>1 DEF CopyState
  <2>3. c \in SUBSET Change
    BY <1>1, OnType, WaysApart
  <2>4. l = IF key_map[v] = NoKey THEN {} ELSE {v}
    BY DEF Mapped
  <2>5. dirty_state[v] = "unset" <=> key_map[v] = NoKey
    BY <1>1, <2>1 DEF Agrees
  <2> HIDE DEF l
  <2>6. ASSUME NEW u \in Copies
        PROVE  /\ <<u, Straight>> \in c <=> <<u, Straight>> \in changes
               /\ <<u, Imagined>> \in c <=> <<u, Imagined>> \in changes \/ u \in l
    BY OnIs, WaysApart
  <2> HIDE DEF c
  <2>7. ASSUME NEW u \in Copies
        PROVE  u \in Noticed(c) <=> u \in Noticed(changes) \/ u \in l
    BY <2>6, NoticedIs
  <2>8. Known(key_map, copied, c)
    BY <1>1, <2>6 DEF Known
  <2>9. Agrees(dirty_state', key_map, scope, c)
    <3>1. CASE key_map[v] = NoKey
      BY <1>1, <2>1, <2>4, <2>5, <2>7, <3>1 DEF Agrees
    <3>2. CASE key_map[v] # NoKey
      <4>1. dirty_state' = [dirty_state EXCEPT ![v] = "modified"]
        BY <2>1, <2>5, <3>2
      <4>2. dirty_state'[v] = "modified" /\ \A u \in Copies \ {v} : dirty_state'[u] = dirty_state[u]
        BY <1>1, <4>1
      <4>3. \A u \in Copies : u \in Noticed(c) <=> u \in Noticed(changes) \/ u = v
        BY <2>4, <2>7, <3>2
      <4> QED BY <1>1, <3>2, <4>2, <4>3 DEF Agrees
    <3> QED BY <3>1, <3>2
  <2> QED BY <2>1, <2>2, <2>3, <2>8, <2>9, NoReadType, EnterStep
<1>4. ASSUME EndChange PROVE IInv'
  <2>1. /\ frames # <<>> /\ Inner.kind \in {"change"} /\ LeaveFrame /\ changes' = Changed(Inner.at)
        /\ UNCHANGED <<dirty_state, reached>>
    BY <1>4 DEF EndChange, Inside
  <2>2. Inner.at \in Copies
    BY <2>1, BelowFacts DEF Kept
  <2> QED BY <1>2, <2>1, <2>2, ChangedIs
<1>5. ASSUME Refresh PROVE IInv'
  <2> DEFINE l == {Inner.at}
             n == {Inner.at} \cap Noticed(changes)
  <2>1. /\ frames # <<>> /\ LeaveFrame /\ UNCHANGED <<dirty_state, reached>>
        /\ changes' = Without(changes, l, Ways \ {Imagined}) \cup On(n, Imagined)
    BY <1>5 DEF Refresh, Inside
  <2>2. /\ n \in SUBSET Noticed(changes) /\ n \subseteq l
        /\ \A v \in l : <<v, Straight>> \in changes => v \in n
    <3>1. \A v : <<v, Straight>> \in changes => v \in Copies
      BY <1>1 DEF Change
    <3> QED BY <3>1, NoticedIs
  <2> HIDE DEF l, n
  <2>3. /\ changes' \in SUBSET Change /\ Noticed(changes') = Noticed(changes)
        /\ \A v \in Copies : <<v, Straight>> \in changes' => <<v, Straight>> \in changes
    BY <1>1, <2>1, <2>2, SettledIs
  <2> QED BY <1>1, <1>2, <2>1, <2>3, KnownLess
<1>6. ASSUME NEW k \in Keys, BeginSet(k) PROVE IInv'
  <2> DEFINE l == Mapped(key_map, k)
  <2>1. /\ EnterFrame("set", k) /\ dirty_state' = CleanVarsFor(k) /\ read' = NoRead
        /\ changes' = Without(changes, l, {Straight, Imagined})
                        \cup On(l \cap ChangedOn(changes, Straight), Astray)
    BY <1>6 DEF BeginSet
  <2>2. l \in SUBSET Copies
    BY DEF Mapped
  <2>3. dirty_state' \in [Copies -> CopyState]
    BY <1>1, <2>1 DEF CleanVarsFor, CopyState
  <2>4. \A v \in Copies : dirty_state'[v] = IF v \in l THEN "clean" ELSE dirty_state[v]
    BY <2>1 DEF CleanVarsFor, Mapped
  <2>5. \A v \in l : key_map[v] # NoKey
    BY NoKeyAssumption DEF Mapped
  <2> HIDE DEF l
  <2>6. /\ changes' \in SUBSET Change /\ Noticed(changes') = Noticed(changes) \ l
        /\ \A v \in Copies : <<v, Straight>> \in changes' => <<v, Straight>> \in changes
    BY <1>1, <2>1, <2>2, ForgottenIs
  <2>7. Agrees(dirty_state', key_map, scope, changes')
    BY <1>1, <2>4, <2>5, <2>6 DEF Agrees
  <2>8. Known(key_map, copied, changes')
    BY <1>1, <2>6, KnownLess
  <2> QED BY <2>1, <2>3, <2>6, <2>7, <2>8, NoReadType, EnterStep
<1>7. ASSUME EndSet PROVE IInv'
  <2> DEFINE l == Mapped(copied, Inner.at)
             n == Mapped(copied, Inner.at) \cap ChangedOn(changes, Straight)
  <2>1. /\ frames # <<>> /\ LeaveFrame /\ UNCHANGED <<dirty_state, reached>>
        /\ changes' = Written(Inner.at)
    BY <1>7 DEF EndSet, Inside
  <2>2. n \in SUBSET Noticed(changes)
    BY DEF Noticed
  <2>3. n \subseteq l /\ \A v \in l : <<v, Straight>> \in changes => v \in n
    BY DEF Mapped, ChangedOn
  <2>4. Written(Inner.at) = IF reached THEN Without(changes, l, Ways \ {Imagined}) \cup On(n, Imagined)
                            ELSE changes
    BY DEF Written
  <2> HIDE DEF l, n
  <2>5. /\ changes' \in SUBSET Change /\ Noticed(changes') = Noticed(changes)
        /\ \A v \in Copies : <<v, Straight>> \in changes' => <<v, Straight>> \in changes
    <3>1. CASE reached
      <4>1. changes' = Without(changes, l, Ways \ {Imagined}) \cup On(n, Imagined)
        BY <2>1, <2>4, <3>1
      <4> QED BY <1>1, <2>2, <2>3, <4>1, SettledIs
    <3>2. CASE ~reached
      BY <1>1, <2>1, <2>4, <3>2
    <3> QED BY <3>1, <3>2
  <2> QED BY <1>1, <1>2, <2>1, <2>5, KnownLess
<1> QED BY <1>3, <1>4, <1>5, <1>6, <1>7

-----------------------------------------------------------------------------
\* The steps that end a way.
LEMMA CutInv ==
  ASSUME IInv, Return \/ \E i \in DOMAIN frames : Break(i) \/ Continue(i)
  PROVE  IInv'
<1>1. /\ dirty_state \in [Copies -> CopyState] /\ key_map \in [Copies -> Keys \cup {NoKey}]
      /\ copied \in [Copies -> Keys \cup {NoKey}] /\ scope \in SUBSET Copies
      /\ frames \in Seq(Frame) /\ changes \in SUBSET Change
      /\ Agrees(dirty_state, key_map, scope, changes) /\ Known(key_map, copied, changes)
      /\ Consistent(key_map, copied) /\ Nested(frames, scope)
  BY DEF IInv, TypeOK
<1>2. /\ changes' = Cut(changes) /\ reached' = FALSE /\ read' = NoRead
      /\ UNCHANGED <<dirty_state, key_map, scope, copied>>
  BY DEF Return, Break, Continue, detector
<1>3. changes' \in SUBSET Change /\ Noticed(changes') = Noticed(changes)
  BY <1>2, CutIs
<1>4. Agrees(dirty_state', key_map', scope', changes')
  BY <1>1, <1>2, <1>3 DEF Agrees
<1>5. Known(key_map', copied', changes')
  BY <1>2, CutIs DEF Known
<1>6. ASSUME frames' \in Seq(Frame), \A i \in DOMAIN frames' : Kept(frames'[i], key_map, copied),
             Nested(frames', scope)
      PROVE  IInv'
  <2>1. TypeOK'
    BY <1>1, <1>2, <1>3, <1>6, NoReadType DEF TypeOK
  <2> QED BY <1>1, <1>2, <1>4, <1>5, <1>6, <2>1 DEF IInv
<1>7. CASE Return
  BY <1>1, <1>6, <1>7 DEF Return, IInv
<1>8. ASSUME NEW i \in DOMAIN frames, NEW g \in Frame, frames' = [frames EXCEPT ![i] = g],
             g.scope = frames[i].scope, Kept(g, key_map, copied)
      PROVE  IInv'
  <2>1. frames' \in [DOMAIN frames -> Frame] /\ \A j \in DOMAIN frames : frames'[j].scope = frames[j].scope
    BY <1>1, <1>8
  <2>2. frames' \in Seq(Frame) /\ Nested(frames', scope) /\ DOMAIN frames' = DOMAIN frames
    BY <1>1, <2>1, Remade
  <2>3. \A j \in DOMAIN frames : frames'[j] = IF j = i THEN g ELSE frames[j]
    BY <1>1, <1>8
  <2>4. \A j \in DOMAIN frames' : Kept(frames'[j], key_map, copied)
    BY <1>8, <2>2, <2>3 DEF IInv
  <2> QED BY <1>6, <2>2, <2>4
<1>9. ASSUME NEW i \in DOMAIN frames, frames[i].kind \in Loops
      PROVE  /\ frames[i] \in Frame /\ Kept(frames[i], key_map, copied)
             /\ frames[i].joined \in SUBSET Change /\ frames[i].again \in SUBSET Change
             /\ Real(changes) \in SUBSET Change /\ Known(key_map, copied, Real(changes))
             /\ Real(frames[i].joined) = frames[i].joined /\ Real(frames[i].again) = frames[i].again
             /\ frames[i].kind \notin {"then", "else", "match", "change"}
  <2>1. frames[i] \in Frame /\ Kept(frames[i], key_map, copied)
    BY <1>1 DEF IInv
  <2>2. \A v \in Copies : <<v, Straight>> \in Real(changes) => <<v, Straight>> \in changes
    BY RealIs
  <2>3. Known(key_map, copied, Real(changes))
    BY <1>1, <2>2, KnownLess
  <2>4. frames[i].kind \notin {"then", "else", "match", "change"}
    BY <1>9 DEF Loops
  <2>5. /\ Real(frames[i].joined) = frames[i].joined /\ Real(frames[i].again) = frames[i].again
    BY <1>9, <2>1 DEF Kept
  <2> QED BY <1>1, <2>1, <2>3, <2>4, <2>5, FrameFields, RealType
<1>10. \A a, b : Real(a) = a /\ Real(b) = b => Real(a \cup b) = a \cup b
  BY DEF Real
<1>11. ASSUME NEW i \in DOMAIN frames, Break(i) PROVE IInv'
  <2> DEFINE f == frames[i]
             j == f.joined \cup Real(changes)
             g == [f EXCEPT !.joined = j, !.met = TRUE]
  <2>1. f.kind \in Loops /\ frames' = [frames EXCEPT ![i] = g]
    BY <1>1, <1>11 DEF Break
  <2>2. j \in SUBSET Change /\ Known(key_map, copied, j) /\ Real(j) = j
    BY <1>1, <1>9, <1>10, <2>1, RealType, KnownUnion DEF Kept
  <2> HIDE DEF j
  <2>3. /\ g \in Frame /\ g.kind = f.kind /\ g.pre = f.pre /\ g.before = f.before /\ g.joined = j
        /\ g.again = f.again /\ g.scope = f.scope
    BY <1>9, <2>1, <2>2 DEF Frame
  <2> HIDE DEF g
  <2>4. Kept(g, key_map, copied)
    BY <1>9, <2>1, <2>2, <2>3 DEF Kept
  <2> QED BY <1>8, <2>1, <2>3, <2>4
<1>12. ASSUME NEW i \in DOMAIN frames, Continue(i) PROVE IInv'
  <2> DEFINE f == frames[i]
             j == f.again \cup Real(changes)
             g == [f EXCEPT !.again = j]
  <2>1. f.kind \in Loops /\ frames' = [frames EXCEPT ![i] = g]
    BY <1>1, <1>12 DEF Continue
  <2>2. j \in SUBSET Change /\ Known(key_map, copied, j) /\ Real(j) = j
    BY <1>1, <1>9, <1>10, <2>1, RealType, KnownUnion DEF Kept
  <2> HIDE DEF j
  <2>3. /\ g \in Frame /\ g.kind = f.kind /\ g.pre = f.pre /\ g.before = f.before /\ g.joined = f.joined
        /\ g.again = j /\ g.scope = f.scope
    BY <1>9, <2>1, <2>2 DEF Frame
  <2> HIDE DEF g
  <2>4. Kept(g, key_map, copied)
    BY <1>9, <2>1, <2>2, <2>3 DEF Kept
  <2> QED BY <1>8, <2>1, <2>3, <2>4
<1> QED BY <1>7, <1>11, <1>12

-----------------------------------------------------------------------------
\* The branches of an if and of a match.
LEMMA BranchInv ==
  ASSUME IInv,
         \/ EnterThen \/ NextElse \/ LeaveThen \/ LeaveElse
         \/ EnterMatch \/ NextArm \/ LeaveMatch
  PROVE  IInv'
<1>1. /\ dirty_state \in [Copies -> CopyState] /\ reached \in BOOLEAN
      /\ changes \in SUBSET Change /\ scope \in SUBSET Copies
      /\ Agrees(dirty_state, key_map, scope, changes) /\ Known(key_map, copied, changes)
  BY DEF IInv, TypeOK
<1>2. ASSUME frames # <<>>
      PROVE  /\ Inner.pre \in [Copies -> CopyState] /\ Inner.merged \in [Copies -> CopyState]
             /\ Inner.before \in SUBSET Change /\ Inner.joined \in SUBSET Change
             /\ Inner.met \in BOOLEAN
             /\ Agrees(dirty_state, key_map, Inner.scope, changes)
             /\ Known(key_map, copied, Inner.before) /\ Known(key_map, copied, Inner.joined)
             /\ Kept(Inner, key_map, copied)
  <2>1. Inner \in Frame /\ Inner.scope \subseteq scope /\ Kept(Inner, key_map, copied)
    BY <1>2, BelowFacts
  <2>2. Agrees(dirty_state, key_map, Inner.scope, changes)
    BY <1>1, <2>1, AgreesLess
  <2>3. Known(key_map, copied, Inner.before) /\ Known(key_map, copied, Inner.joined)
    BY <2>1 DEF Kept
  <2> QED BY <2>1, <2>2, <2>3, FrameFields
<1>3. ASSUME frames # <<>>, NEW merged, NEW meets, Leave(merged, meets),
             merged \in [Copies -> CopyState], meets \in SUBSET Change, reached' \in BOOLEAN,
             Agrees(merged, key_map, Inner.scope, changes \cup meets), Known(key_map, copied, meets)
      PROVE  IInv'
  <2>1. LeaveFrame /\ dirty_state' = merged /\ changes' = changes \cup meets
    BY <1>3 DEF Leave
  <2>2. changes' \in SUBSET Change /\ Known(key_map, copied, changes')
    BY <1>1, <1>3, <2>1, KnownUnion
  <2> QED BY <1>3, <2>1, <2>2, LeaveStep
<1>4. ASSUME NEW kind \in {"then", "match"}, NEW at \in Keys \cup {NoKey}, Enter(kind, at),
             read' \in Reading
      PROVE  IInv'
  <2>1. EnterFrame(kind, at) /\ UNCHANGED <<dirty_state, changes>>
    BY <1>4 DEF Enter
  <2> QED BY <1>1, <1>4, <2>1, EnterStep
<1>5. CASE EnterThen
  BY <1>4, <1>5, NoReadType DEF EnterThen
<1>6. CASE EnterMatch
  <2>1. ASSUME NEW k \in Keys, Enter("match", k), Get(dirty_state, key_map, copied, k)
        PROVE  IInv'
    BY <1>1, <1>4, <2>1, ReadType
  <2>2. CASE Enter("match", NoKey) /\ read' = NoRead
    BY <1>4, <2>2, NoReadType
  <2> QED BY <1>6, <2>1, <2>2 DEF EnterMatch
<1>7. CASE NextElse
  <2>1. frames # <<>> /\ NextBranch("else", dirty_state) /\ Inner.kind \in {"then"}
    BY <1>7 DEF NextElse, Inside
  <2>2. Inner.joined \cup changes = changes
    BY <1>2, <2>1 DEF Kept
  <2> QED BY <1>1, <1>2, <2>1, <2>2, NextBranchStep
<1>8. CASE LeaveThen
  <2>1. /\ frames # <<>> /\ Leave(MergeStates(dirty_state, Inner.pre), Inner.before)
        /\ reached' = TRUE
    BY <1>8 DEF LeaveThen, Inside
  <2>2. Agrees(Inner.pre, key_map, Inner.scope, Inner.before)
    BY <1>2, <2>1 DEF Kept
  <2>3. Agrees(MergeStates(dirty_state, Inner.pre), key_map, Inner.scope, changes \cup Inner.before)
    BY <1>1, <1>2, <2>1, <2>2, MergedAgrees
  <2>4. MergeStates(dirty_state, Inner.pre) \in [Copies -> CopyState]
    BY <1>1, <1>2, <2>1, Merged
  <2> QED BY <1>2, <1>3, <2>1, <2>3, <2>4
<1>9. CASE LeaveElse
  <2>1. /\ frames # <<>> /\ Leave(MergeStates(Inner.merged, dirty_state), Inner.joined)
        /\ reached' = (reached \/ Inner.met) /\ Inner.kind \in {"else"}
    BY <1>9 DEF LeaveElse, Inside
  <2>2. Agrees(Inner.merged, key_map, Inner.scope, Inner.joined)
    BY <1>2, <2>1 DEF Kept
  <2>3. Agrees(MergeStates(Inner.merged, dirty_state), key_map, Inner.scope, Inner.joined \cup changes)
    BY <1>1, <1>2, <2>1, <2>2, MergedAgrees
  <2>4. MergeStates(Inner.merged, dirty_state) \in [Copies -> CopyState]
    BY <1>1, <1>2, <2>1, Merged
  <2>5. Inner.joined \cup changes = changes \cup Inner.joined /\ reached' \in BOOLEAN
    BY <1>1, <1>2, <2>1
  <2> QED BY <1>2, <1>3, <2>1, <2>3, <2>4, <2>5
<1>10. ASSUME frames # <<>>, Inner.kind \in {"match"}
       PROVE  /\ MergeStates(Inner.merged, dirty_state) \in [Copies -> CopyState]
              /\ Agrees(MergeStates(Inner.merged, dirty_state), key_map, Inner.scope,
                        (Inner.before \cup Inner.joined) \cup changes)
              /\ Inner.at \in Keys \cup {NoKey}
  <2>1. Agrees(Inner.merged, key_map, Inner.scope, Inner.before \cup Inner.joined)
        /\ Inner.at \in Keys \cup {NoKey}
    BY <1>2, <1>10 DEF Kept
  <2> QED BY <1>1, <1>2, <1>10, <2>1, MergedAgrees, Merged
<1>11. CASE NextArm
  <2>1. /\ frames # <<>> /\ NextBranch("match", MergeStates(Inner.merged, dirty_state))
        /\ Inner.kind \in {"match"}
    BY <1>11 DEF NextArm, Inside
  <2>2. (Inner.before \cup Inner.joined) \cup changes = Inner.before \cup (Inner.joined \cup changes)
    OBVIOUS
  <2> QED BY <1>10, <2>1, <2>2, NextBranchStep
<1>12. CASE LeaveMatch
  <2> DEFINE m == MergeStates(Inner.merged, dirty_state)
             c == (Inner.before \cup Inner.joined) \cup changes
             meets == Inner.joined \cup Cut(Inner.before)
  <2>1. /\ frames # <<>> /\ Leave(m, meets) /\ Inner.kind \in {"match"}
        /\ reached' = (reached \/ Inner.met)
    BY <1>12 DEF LeaveMatch, Inside
  <2>2. m \in [Copies -> CopyState] /\ Agrees(m, key_map, Inner.scope, c)
    BY <1>10, <2>1
  <2>3. meets \in SUBSET Change /\ reached' \in BOOLEAN
    BY <1>1, <1>2, <2>1, CutIs
  <2>4. Known(key_map, copied, meets)
    <3>1. Known(key_map, copied, Cut(Inner.before))
      BY CutIs DEF Known
    <3> QED BY <1>2, <2>1, <3>1, KnownUnion
  <2>5. Noticed(changes \cup meets) = Noticed(c)
    <3>1. /\ Noticed(meets) = Noticed(Inner.joined) \cup Noticed(Cut(Inner.before))
          /\ Noticed(Inner.before \cup Inner.joined) = Noticed(Inner.before) \cup Noticed(Inner.joined)
      BY NoticedUnion
    <3> HIDE DEF meets
    <3>2. /\ Noticed(changes \cup meets) = Noticed(changes) \cup Noticed(meets)
          /\ Noticed(c) = Noticed(Inner.before \cup Inner.joined) \cup Noticed(changes)
      BY NoticedUnion
    <3>3. Noticed(Cut(Inner.before)) = Noticed(Inner.before)
      BY CutIs
    <3> QED BY <3>1, <3>2, <3>3
  <2> HIDE DEF m, c, meets
  <2>6. Agrees(m, key_map, Inner.scope, changes \cup meets)
    BY <2>2, <2>5 DEF Agrees
  <2> QED BY <1>3, <2>1, <2>2, <2>3, <2>4, <2>6
<1> QED BY <1>5, <1>6, <1>7, <1>8, <1>9, <1>11, <1>12

-----------------------------------------------------------------------------
\* What comes of changes after the rounds of a loop.
LEMMA ThroughIs ==
  ASSUME NEW c, NEW v, NEW w
  PROVE  <<v, w>> \in Through(c) => <<v, w>> \in c \/ <<v, w>> \in LeftByRound
BY DEF Through

LEMMA ThroughType ==
  ASSUME NEW c \in SUBSET Change, LeftByRound \in SUBSET Change,
         Real(c) = c, Real(LeftByRound) = LeftByRound
  PROVE  Through(c) \in SUBSET Change /\ Real(Through(c)) = Through(c)
BY DEF Through, Real

\* What a round leaves is real and known.
LEMMA RoundIs ==
  ASSUME IInv, frames # <<>>, Inner.kind \in Loops \cup {"lazy"}
  PROVE  /\ LeftByRound \in SUBSET Change /\ Real(LeftByRound) = LeftByRound
         /\ Known(key_map, copied, LeftByRound)
         /\ Outcomes \in SUBSET Change /\ Real(Outcomes) = Outcomes
         /\ Known(key_map, copied, Outcomes)
<1>1. /\ changes \in SUBSET Change /\ Known(key_map, copied, changes)
      /\ Inner \in Frame /\ Kept(Inner, key_map, copied)
  BY BelowFacts DEF IInv, TypeOK
<1>2. /\ Inner.again \in SUBSET Change /\ Real(Inner.again) = Inner.again
      /\ Inner.joined \in SUBSET Change /\ Real(Inner.joined) = Inner.joined
      /\ Inner.before \in SUBSET Change
      /\ Known(key_map, copied, Inner.again) /\ Known(key_map, copied, Inner.joined)
      /\ Known(key_map, copied, Inner.before)
  BY <1>1, FrameFields DEF Kept
<1>3. LeftByRound \in SUBSET Change
  BY <1>1, <1>2, RealType DEF LeftByRound
<1>4. Real(LeftByRound) = LeftByRound
  BY <1>2 DEF LeftByRound, Real
<1>5. \A v, w : <<v, w>> \in LeftByRound => <<v, w>> \in changes \/ <<v, w>> \in Inner.again
  BY RealIs DEF LeftByRound
<1>6. Known(key_map, copied, LeftByRound)
  BY <1>1, <1>2, <1>5 DEF Known
<1>7. /\ Through(Inner.joined) \in SUBSET Change
      /\ Real(Through(Inner.joined)) = Through(Inner.joined)
  BY <1>2, <1>3, <1>4, ThroughType
<1>8. Known(key_map, copied, Through(Inner.joined))
  BY <1>2, <1>6, ThroughIs DEF Known
<1>9. Real(Inner.before) \in SUBSET Change /\ Real(Real(Inner.before)) = Real(Inner.before)
  BY <1>2, RealType
<1>10. Known(key_map, copied, Real(Inner.before))
  BY <1>2, RealIs DEF Known
<1>11. \A a, b : Real(a) = a /\ Real(b) = b => Real(a \cup b) = a \cup b
  BY DEF Real
<1>12. Real({}) = {} /\ Known(key_map, copied, {})
  BY DEF Real, Known
<1> DEFINE o == IF Inner.kind = "loop" THEN {} ELSE Real(Inner.before) \cup LeftByRound
<1>13. o \in SUBSET Change /\ Real(o) = o /\ Known(key_map, copied, o)
  <2>1. CASE Inner.kind = "loop"
    BY <1>12, <2>1
  <2>2. CASE Inner.kind # "loop"
    BY <1>3, <1>4, <1>6, <1>9, <1>10, <1>11, <2>2, KnownUnion
  <2> QED BY <2>1, <2>2
<1>14. Outcomes = Through(Inner.joined) \cup o
  BY DEF Outcomes
<1> HIDE DEF o
<1> QED BY <1>3, <1>4, <1>6, <1>7, <1>8, <1>11, <1>13, <1>14, KnownUnion

\* The changes after a loop are noticed if those at the end of its body were.
LEMMA OutcomeNoticed ==
  ASSUME NEW o \in SUBSET Change, Real(o) = o, NEW seen \in SUBSET Copies
  PROVE  LET c == Followed(o, seen) \cup On(seen \ ChangedOn(o, Straight), Imagined)
         IN  /\ c \in SUBSET Change /\ Noticed(c) = seen
             /\ \A v \in Copies : <<v, Straight>> \in c => <<v, Straight>> \in o
<1> DEFINE a == Copies \ seen
           b == ChangedOn(o, Straight) \ seen
           d == seen \ ChangedOn(o, Straight)
           c == Followed(o, seen) \cup On(d, Imagined)
<1>1. a \in SUBSET Copies /\ b \in SUBSET Copies /\ d \in SUBSET Copies
  BY NoticedType
<1>2. Followed(o, seen) = Without(o, a, {Straight}) \cup On(b, Astray)
  BY DEF Followed
<1>3. ASSUME NEW v \in Copies
      PROVE  /\ v \in a <=> v \notin seen
             /\ v \in b <=> <<v, Straight>> \in o /\ v \notin seen
             /\ v \in d <=> v \in seen /\ <<v, Straight>> \notin o
  BY DEF ChangedOn
<1> HIDE DEF a, b, d
<1>4. c \in SUBSET Change
  BY <1>1, <1>2, WithoutType, OnType, WaysApart
<1>5. ASSUME NEW v \in Copies
      PROVE  /\ <<v, Straight>> \in c <=> <<v, Straight>> \in o /\ v \in seen
             /\ <<v, Imagined>> \in c <=> v \in seen /\ <<v, Straight>> \notin o
  <2>1. /\ <<v, Straight>> \in Without(o, a, {Straight})
             <=> <<v, Straight>> \in o /\ ~(v \in a /\ Straight \in {Straight})
        /\ <<v, Imagined>> \in Without(o, a, {Straight})
             <=> <<v, Imagined>> \in o /\ ~(v \in a /\ Imagined \in {Straight})
    BY WithoutIs
  <2>2. /\ <<v, Straight>> \in On(b, Astray) <=> v \in b /\ Straight = Astray
        /\ <<v, Imagined>> \in On(b, Astray) <=> v \in b /\ Imagined = Astray
        /\ <<v, Straight>> \in On(d, Imagined) <=> v \in d /\ Straight = Imagined
        /\ <<v, Imagined>> \in On(d, Imagined) <=> v \in d
    BY OnIs
  <2>3. <<v, Imagined>> \notin o
    BY RealIs
  <2>4. ASSUME NEW w
        PROVE  <<v, w>> \in c <=> \/ <<v, w>> \in Without(o, a, {Straight})
                                  \/ <<v, w>> \in On(b, Astray) \/ <<v, w>> \in On(d, Imagined)
    BY <1>2
  <2> HIDE DEF c
  <2> QED BY <1>3, <2>1, <2>2, <2>3, <2>4, WaysApart
<1> HIDE DEF c
<1>6. ASSUME NEW v \in Copies
      PROVE  v \in Noticed(c) <=> v \in seen
  BY <1>5, NoticedIs
<1>7. Noticed(c) = seen
  BY <1>6, NoticedType
<1> QED BY <1>4, <1>5, <1>7 DEF c, d

LEMMA EnterBodyInv == IInv /\ EnterBody => IInv'
<1> SUFFICES ASSUME IInv, EnterBody PROVE IInv'
  OBVIOUS
<1>1. /\ dirty_state \in [Copies -> CopyState] /\ changes \in SUBSET Change /\ scope \in SUBSET Copies
      /\ Agrees(dirty_state, key_map, scope, changes) /\ Known(key_map, copied, changes)
      /\ frames \in Seq(Frame)
  BY DEF IInv, TypeOK
<1> DEFINE n == Len(frames) + 1
<1>2. PICK kind \in Loops \cup {"lazy"} :
        /\ EnterFrame(kind, NoKey) /\ UNCHANGED dirty_state /\ read' = NoRead
        /\ changes' = changes \cup (IF kind = "lazy" THEN {} ELSE On(scope, n))
  BY DEF EnterBody
<1>3. n \in 1 .. MaxDepth
  BY <1>1, <1>2, MaxDepthAssumption DEF EnterFrame
<1> HIDE DEF n
<1>4. n \in Ways /\ n # Straight /\ n # Imagined
  BY <1>3, WaysApart
<1>5. On(scope, n) \in SUBSET Change
  BY <1>1, <1>4, OnType
<1>6. ASSUME NEW v \in Copies
      PROVE  /\ <<v, Straight>> \in changes' <=> <<v, Straight>> \in changes
             /\ <<v, Imagined>> \in changes' <=> <<v, Imagined>> \in changes
  BY <1>2, <1>4, OnIs
<1>7. ASSUME NEW v \in Copies
      PROVE  v \in Noticed(changes') <=> v \in Noticed(changes)
  BY <1>6, NoticedIs
<1>8. Agrees(dirty_state', key_map, scope, changes') /\ Known(key_map, copied, changes')
  BY <1>1, <1>2, <1>6, <1>7 DEF Agrees, Known
<1>9. changes' \in SUBSET Change /\ dirty_state' \in [Copies -> CopyState]
  BY <1>1, <1>2, <1>5
<1>10. kind \in {"then", "match", "lazy", "set", "change"} \cup Loops /\ kind \notin {"change", "match"}
  BY <1>2 DEF Loops
<1> QED BY <1>2, <1>8, <1>9, <1>10, NoReadType, EnterStep

LEMMA LeaveBodyInv == IInv /\ LeaveBody => IInv'
<1> SUFFICES ASSUME IInv, LeaveBody PROVE IInv'
  OBVIOUS
<1>1. /\ frames # <<>> /\ Inner.kind \in Loops \cup {"lazy"}
      /\ scope' = Inner.scope /\ read' = NoRead /\ UNCHANGED <<dirty_state, key_map, copied>>
      /\ reached' = (Inner.kind # "loop" \/ Inner.met)
  BY DEF LeaveBody, Inside, detector
<1>2. /\ Below \in Seq(Frame) /\ Inner \in Frame
      /\ \A i \in DOMAIN Below : Kept(Below[i], key_map, copied)
      /\ Nested(Below, Inner.scope) /\ Inner.scope \subseteq scope
  BY <1>1, BelowFacts
<1>3. /\ LeftByRound \in SUBSET Change /\ Real(LeftByRound) = LeftByRound
      /\ Known(key_map, copied, LeftByRound)
      /\ Outcomes \in SUBSET Change /\ Real(Outcomes) = Outcomes
      /\ Known(key_map, copied, Outcomes)
  BY <1>1, RoundIs
<1>4. changes' = Followed(Outcomes, Noticed(changes))
                   \cup On(Noticed(changes) \ ChangedOn(Outcomes, Straight), Imagined)
  BY DEF LeaveBody
<1>5. /\ changes' \in SUBSET Change /\ Noticed(changes') = Noticed(changes)
      /\ \A v \in Copies : <<v, Straight>> \in changes' => <<v, Straight>> \in Outcomes
  BY <1>3, <1>4, OutcomeNoticed, NoticedType
<1>6. Known(key_map, copied, changes')
  BY <1>3, <1>5, KnownLess
<1>7. Agrees(dirty_state, key_map, Inner.scope, changes')
  BY <1>2, <1>5, AgreesLess DEF IInv
<1> DEFINE g(f) == IF f.kind \in Loops
                   THEN [f EXCEPT !.joined = Through(f.joined), !.again = Through(f.again)]
                   ELSE f
<1>8. frames' = [i \in DOMAIN Below |-> g(Below[i])]
  BY DEF LeaveBody
<1>9. ASSUME NEW f \in Frame, Kept(f, key_map, copied)
      PROVE  g(f) \in Frame /\ Kept(g(f), key_map, copied) /\ g(f).scope = f.scope
  <2>1. CASE f.kind \notin Loops
    BY <1>9, <2>1
  <2>2. CASE f.kind \in Loops
    <3> DEFINE j == Through(f.joined)
               a == Through(f.again)
    <3>1. /\ f.joined \in SUBSET Change /\ f.again \in SUBSET Change
          /\ Real(f.joined) = f.joined /\ Real(f.again) = f.again
          /\ Known(key_map, copied, f.joined) /\ Known(key_map, copied, f.again)
      BY <1>9, <2>2, FrameFields DEF Kept
    <3>2. /\ j \in SUBSET Change /\ Real(j) = j /\ a \in SUBSET Change /\ Real(a) = a
      BY <1>3, <3>1, ThroughType
    <3>3. Known(key_map, copied, j) /\ Known(key_map, copied, a)
      BY <1>3, <3>1, ThroughIs DEF Known
    <3>4. g(f) = [f EXCEPT !.joined = j, !.again = a]
      BY <2>2
    <3> HIDE DEF j, a, g
    <3>5. /\ g(f) \in Frame /\ g(f).kind = f.kind /\ g(f).pre = f.pre /\ g(f).before = f.before
          /\ g(f).joined = j /\ g(f).again = a /\ g(f).scope = f.scope
      BY <1>9, <3>2, <3>4 DEF Frame
    <3>6. f.kind \notin {"then", "else", "match", "change"}
      BY <2>2 DEF Loops
    <3> QED BY <1>9, <2>2, <3>2, <3>3, <3>5, <3>6 DEF Kept
  <2> QED BY <2>1, <2>2
<1> HIDE DEF g
<1>10. \A i \in DOMAIN Below : Below[i] \in Frame
  BY <1>2
<1>11. /\ frames' \in [DOMAIN Below -> Frame]
       /\ \A i \in DOMAIN Below : /\ frames'[i].scope = Below[i].scope
                                  /\ Kept(frames'[i], key_map, copied)
  BY <1>2, <1>8, <1>9, <1>10
<1>12. frames' \in Seq(Frame) /\ Nested(frames', Inner.scope) /\ DOMAIN frames' = DOMAIN Below
  BY <1>2, <1>11, Remade
<1>13. Inner.scope \in SUBSET Copies /\ reached' \in BOOLEAN
  BY <1>1, <1>2, FrameFields
<1>14. TypeOK'
  BY <1>1, <1>5, <1>12, <1>13, NoReadType DEF IInv, TypeOK
<1> QED BY <1>1, <1>6, <1>7, <1>11, <1>12, <1>14 DEF IInv

LEMMA NextInv == IInv /\ [Next]_vars => IInv'
<1> SUFFICES ASSUME IInv, [Next]_vars PROVE IInv'
  OBVIOUS
<1>1. CASE Next
  BY <1>1, BindInv, CallInv, CutInv, BranchInv, EnterBodyInv, LeaveBodyInv DEF Next
<1>2. CASE UNCHANGED vars
  BY <1>2 DEF vars, detector, IInv, TypeOK
<1> QED BY <1>1, <1>2

\* Every local of the detector and of the program keeps its type, in bodies of any
\* length with any number of locals, keys, branches and loops.
THEOREM TypeCorrect == Spec => []TypeOK
<1>1. IInv => TypeOK
  BY DEF IInv
<1> QED BY <1>1, InitInv, NextInv, PTL DEF Spec

-----------------------------------------------------------------------------
\* A read is judged by what is known and left changed after the step.
LEMMA ReadShape ==
  ASSUME IInv, Next
  PROVE  \/ read' = NoRead
         \/ \E k \in Keys : Get(dirty_state', key_map', copied', k) /\ UNCHANGED changes
<1>1. CASE \E k \in Keys : Read(k) \/ BeginSet(k)
  BY <1>1 DEF Read, BeginSet, detector, Get
<1>2. CASE \E v \in Copies, k \in Keys : BindCopy(v, k) \/ BindOther(v, k)
  BY <1>2 DEF BindCopy, BindOther, NewLocal
<1>3. ASSUME NEW v \in Copies, NEW k \in Keys, BindUnseen(v, k)
      PROVE  Get(dirty_state', key_map', copied', k) /\ UNCHANGED changes
  BY <1>3 DEF BindUnseen, NewLocal, detector, Get
<1>4. CASE \E v \in Copies : BeginChange(v) \/ BindInArm(v)
  BY <1>4 DEF BeginChange, BindInArm
<1>5. CASE EndChange \/ Refresh \/ EndSet
  BY <1>5 DEF EndChange, Refresh, EndSet, LeaveFrame
<1>6. CASE Return \/ \E i \in DOMAIN frames : Break(i) \/ Continue(i)
  BY <1>6 DEF Return, Break, Continue
<1>7. CASE EnterThen \/ EnterBody \/ LeaveBody
  BY <1>7 DEF EnterThen, EnterBody, LeaveBody
<1>8. CASE EnterMatch
  <2>1. ASSUME NEW k \in Keys, Enter("match", k), Get(dirty_state, key_map, copied, k)
        PROVE  Get(dirty_state', key_map', copied', k) /\ UNCHANGED changes
    BY <2>1 DEF Enter, EnterFrame, Get
  <2> QED BY <1>8, <2>1 DEF EnterMatch
<1>9. CASE NextElse \/ NextArm
  BY <1>9 DEF NextElse, NextArm, NextBranch
<1>10. CASE LeaveThen \/ LeaveElse \/ LeaveMatch
  BY <1>10 DEF LeaveThen, LeaveElse, LeaveMatch, Leave, LeaveFrame
<1> QED BY <1>1, <1>2, <1>3, <1>4, <1>5, <1>6, <1>7, <1>8, <1>9, <1>10 DEF Next

\* What the detector holds for modified decides alike.
LEMMA GetJudged ==
  ASSUME IInv', NEW k \in Keys, Get(dirty_state', key_map', copied', k), UNCHANGED changes
  PROVE  StaleReadsReported' /\ AlarmsExplained'
<1> DEFINE o == {p \in Real(changes) : p[1] \in Mapped(copied', k)}
           m == Mapped(key_map', k) \cap ChangedOn(changes, Imagined)
<1>1. /\ read'.overlooked = o /\ read'.imagined = m
      /\ read'.reported = \E v \in Mapped(key_map', k) : dirty_state'[v] = "modified"
  BY DEF Get
<1>2. /\ \A v \in Copies : dirty_state'[v] = "modified" <=> v \in Noticed(changes)
      /\ \A v \in Copies : <<v, Straight>> \in changes => key_map'[v] # NoKey /\ key_map'[v] = copied'[v]
  BY DEF IInv, Agrees, Known
<1>3. \A v : v \in ChangedOn(o, Straight)
               <=> v \in Copies /\ <<v, Straight>> \in changes /\ copied'[v] = k
  <2>1. \A v \in Copies : <<v, Straight>> \in Real(changes) <=> <<v, Straight>> \in changes
    BY RealIs, WaysApart
  <2> QED BY <2>1 DEF ChangedOn, Mapped
<1>4. \A v : v \in m <=> v \in Copies /\ key_map'[v] = k /\ <<v, Imagined>> \in changes
  BY DEF ChangedOn, Mapped
<1>5. read'.reported <=> \E v \in Copies : key_map'[v] = k /\ dirty_state'[v] = "modified"
  BY <1>1 DEF Mapped
<1> HIDE DEF o, m
<1>6. ASSUME NEW v \in ChangedOn(o, Straight)
      PROVE  read'.reported
  BY <1>2, <1>3, <1>5, NoticedIs
<1>7. ASSUME NEW v \in Copies, key_map'[v] = k, dirty_state'[v] = "modified"
      PROVE  v \in ChangedOn(o, Straight) \/ v \in m
  BY <1>2, <1>3, <1>4, <1>7, NoticedIs
<1>8. StaleReadsReported'
  BY <1>1, <1>6 DEF StaleReadsReported
<1>9. AlarmsExplained'
  BY <1>1, <1>5, <1>7 DEF AlarmsExplained
<1> QED BY <1>8, <1>9

LEMMA JudgedStep ==
  IInv /\ StaleReadsReported /\ AlarmsExplained /\ [Next]_vars
    => StaleReadsReported' /\ AlarmsExplained'
<1> SUFFICES ASSUME IInv, StaleReadsReported, AlarmsExplained, [Next]_vars
             PROVE  StaleReadsReported' /\ AlarmsExplained'
  OBVIOUS
<1>1. CASE UNCHANGED vars
  BY <1>1 DEF vars, StaleReadsReported, AlarmsExplained
<1>2. CASE Next
  <2>1. IInv'
    BY <1>2, NextInv
  <2>2. CASE read' = NoRead
    BY <2>2 DEF NoRead, StaleReadsReported, AlarmsExplained, ChangedOn
  <2> QED BY <1>2, <2>1, <2>2, ReadShape, GetJudged
<1> QED BY <1>1, <1>2

LEMMA JudgedInit == Init => StaleReadsReported /\ AlarmsExplained
BY DEF Init, NoRead, StaleReadsReported, AlarmsExplained, ChangedOn

\* The merge at the end of branches takes no modification away, and no loop, early end
\* or argument but the ones named: a read that overlooks a change is reported if a way
\* leads there from the change that goes round no loop that the read is in and no write
\* of the key stands between them in the text.
THEOREM StaleReads == Spec => []StaleReadsReported
BY InitInv, NextInv, JudgedInit, JudgedStep, PTL DEF Spec

\* No other read is reported, but for a change of a local with its key that the detector
\* only imagines: on a way that ends or takes no arm of a match, of the assignment that
\* the read is in, of a value got elsewhere or read again, or in the arguments of a `set`.
THEOREM Alarms == Spec => []AlarmsExplained
BY InitInv, NextInv, JudgedInit, JudgedStep, PTL DEF Spec
=============================================================================
