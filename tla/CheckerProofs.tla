---------------------------- MODULE CheckerProofs ----------------------------
(***************************************************************************)
(* Proofs about the checker (module Checker), for outputs of any length:   *)
(* its pointers stay in their files, and its two loops compute the verdict *)
(* a comparison of the whole files asks for.                               *)
(***************************************************************************)
EXTENDS Checker, WellFoundedInduction, TLAPS

-----------------------------------------------------------------------------
(* What the CHOOSEs of the model choose.                                    *)
LEMMA Least ==
  ASSUME NEW T, T \subseteq Nat, T # {}
  PROVE  \E m \in T : \A k \in T : m <= k
<1> DEFINE R == OpToRel(<, Nat)
<1>1. IsWellFoundedOn(R, Nat) BY NatLessThanWellFounded
<1>2. \A x, y \in Nat : y < x => <<y, x>> \in R BY DEF OpToRel
<1> HIDE DEF R
<1>3. PICK m \in T : \A k \in T : ~(<<k, m>> \in R) BY <1>1, WFMin, Zenon
<1>4. \A k \in T : ~(k < m) BY <1>2, <1>3
<1> QED BY <1>4

LEMMA Skipped ==
  ASSUME NEW s \in Seq(Bytes), NEW i \in 1..Len(s) + 1
  PROVE  /\ Skip(s, i) \in i..Len(s) + 1
         /\ \A k \in i..Skip(s, i) - 1 : s[k] \in Blanks
         /\ Skip(s, i) = Len(s) + 1 \/ s[Skip(s, i)] \notin Blanks
<1> DEFINE Stop(j) == j = Len(s) + 1 \/ s[j] \notin Blanks
           T == {j \in i..Len(s) + 1 : Stop(j)}
<1>1. Len(s) \in Nat OBVIOUS
<1>2. T \subseteq Nat /\ T # {} BY <1>1
<1>3. PICK m \in T : \A k \in T : m <= k BY <1>2, Least
<1>4. /\ m \in i..Len(s) + 1
      /\ \A k \in i..m - 1 : s[k] \in Blanks
      /\ m = Len(s) + 1 \/ s[m] \notin Blanks
  BY <1>1, <1>3
<1> QED BY <1>4 DEF Skip

EndOf(s, n) ==
  n \in 1..Len(s) + 1 /\ At(s, n) = "nul" /\ \A j \in 1..n - 1 : s[j] # "nul"

LEMMA HasEnd ==
  ASSUME NEW s \in Seq(Bytes)
  PROVE  \E n \in Nat : EndOf(s, n)
<1> DEFINE T == {j \in 1..Len(s) + 1 : At(s, j) = "nul"}
<1>1. Len(s) \in Nat OBVIOUS
<1>2. T \subseteq Nat /\ Len(s) + 1 \in T BY <1>1 DEF At
<1>3. PICK m \in T : \A k \in T : m <= k BY <1>2, Least
<1>4. \A j \in 1..m - 1 : j \notin T BY <1>2, <1>3
<1> QED BY <1>1, <1>3, <1>4 DEF EndOf, At

LEMMA TextEnds ==
  ASSUME NEW s \in Seq(Bytes), NEW n, EndOf(s, n)
  PROVE  Text(s) = SubSeq(s, 1, n - 1)
<1> DEFINE P(i) == At(s, i) = "nul" /\ \A j \in 1..i - 1 : s[j] # "nul"
           end == CHOOSE i \in 1..Len(s) + 1 : P(i)
<1>1. Len(s) \in Nat OBVIOUS
<1>2. n \in 1..Len(s) + 1 /\ P(n) BY DEF EndOf
<1>3. end \in 1..Len(s) + 1 /\ P(end) BY <1>2
<1>4. ASSUME NEW a \in 1..Len(s) + 1, NEW b \in 1..Len(s) + 1, P(a), P(b)
      PROVE  ~(a < b)
  <2> SUFFICES ASSUME a < b PROVE FALSE OBVIOUS
  <2>1. a \in 1..b - 1 /\ a <= Len(s) BY <1>1
  <2> QED BY <1>4, <2>1 DEF At
<1>5. end = n BY <1>1, <1>2, <1>3, <1>4
<1> QED BY <1>5 DEF Text

(* Files with the same bytes, none of them NUL, up to a position.           *)
Same(s, t, c) == \A i \in 1..c - 1 : s[i] = t[i] /\ s[i] # "nul"

LEMMA EqualTexts ==
  ASSUME NEW s \in Seq(Bytes), NEW t \in Seq(Bytes), Len(s) = Len(t),
         NEW c \in 1..Len(s) + 1, Same(s, t, c),
         At(s, c) = "nul", At(t, c) = "nul"
  PROVE  Text(s) = Text(t)
<1>1. EndOf(s, c) /\ EndOf(t, c) BY DEF EndOf, Same
<1>2. c - 1 \in 0..Len(s) OBVIOUS
<1>3. SubSeq(s, 1, c - 1) = SubSeq(t, 1, c - 1) BY <1>2 DEF Same
<1> QED BY <1>1, <1>3, TextEnds

LEMMA DifferentTexts ==
  ASSUME NEW s \in Seq(Bytes), NEW t \in Seq(Bytes), Len(s) = Len(t),
         NEW c \in 1..Len(s) + 1, Same(s, t, c), At(s, c) # At(t, c)
  PROVE  Text(s) # Text(t)
<1> SUFFICES ASSUME Text(s) = Text(t) PROVE FALSE OBVIOUS
<1>0. Len(s) \in Nat OBVIOUS
<1>1. PICK n \in Nat : EndOf(s, n) BY HasEnd
<1>2. PICK m \in Nat : EndOf(t, m) BY HasEnd
<1>3. /\ n \in 1..Len(s) + 1 /\ m \in 1..Len(s) + 1 /\ n >= c /\ m >= c
  BY <1>0, <1>1, <1>2 DEF EndOf, Same, At
<1>4. SubSeq(s, 1, n - 1) = SubSeq(t, 1, m - 1) BY <1>1, <1>2, TextEnds
<1>5. n = m
  <2>1. Len(SubSeq(s, 1, n - 1)) = n - 1 /\ Len(SubSeq(t, 1, m - 1)) = m - 1
    BY <1>0, <1>3
  <2> QED BY <1>3, <1>4, <2>1
<1>6. CASE n = c BY <1>1, <1>2, <1>5, <1>6 DEF EndOf
<1>7. CASE n # c
  <2>1. c \in 1..n - 1 /\ c <= Len(s) BY <1>0, <1>3, <1>7
  <2>2. SubSeq(s, 1, n - 1)[c] = s[c] /\ SubSeq(t, 1, n - 1)[c] = t[c]
    BY <1>0, <1>3, <2>1
  <2> QED BY <1>4, <1>5, <2>1, <2>2 DEF At
<1> QED BY <1>6, <1>7

-----------------------------------------------------------------------------
(* What isPE has found out with its pointers at c and d: the bytes in front *)
(* of them can be paired, and in any pairing of the whole files these are   *)
(* paired with each other.                                                  *)
Before(s, c) == {i \in Solid(s) : i < c}

Paired(s, t, c, d) ==
  /\ Pairings(s, t, Before(s, c), Before(t, d)) # {}
  /\ \A g \in Pairings(s, t, Solid(s), Solid(t)) :
       \A i \in Solid(s) : i < c <=> g[i] < d

LEMMA PairedAtFront ==
  ASSUME NEW s \in Seq(Bytes), NEW t \in Seq(Bytes)
  PROVE  Paired(s, t, 1, 1)
<1>1. Before(s, 1) = {} /\ Before(t, 1) = {} BY DEF Before, Solid
<1>2. [i \in {} |-> 0] \in Pairings(s, t, {}, {}) BY DEF Pairings
<1>3. ASSUME NEW g \in Pairings(s, t, Solid(s), Solid(t)), NEW i \in Solid(s)
      PROVE  ~(i < 1) /\ ~(g[i] < 1)
  BY <1>3 DEF Pairings, Solid
<1> QED BY <1>1, <1>2, <1>3 DEF Paired

LEMMA Positions ==
  ASSUME NEW s \in Seq(Bytes), NEW c \in 1..Len(s) + 1
  PROVE  /\ Skip(s, c) \in c..Len(s) + 1
         /\ Solid(s) \subseteq Nat
         /\ \A i \in Solid(s) : i < c \/ i >= Skip(s, c)
         /\ Skip(s, c) <= Len(s) => Skip(s, c) \in Solid(s)
         /\ Skip(s, c) = Len(s) + 1 => Before(s, c) = Solid(s)
<1> DEFINE u == Skip(s, c)
<1>1. /\ u \in c..Len(s) + 1
      /\ \A k \in c..u - 1 : s[k] \in Blanks
      /\ u = Len(s) + 1 \/ s[u] \notin Blanks
  BY Skipped
<1>2. Len(s) \in Nat OBVIOUS
<1> HIDE DEF u
<1>3. \A i \in Solid(s) : i < c \/ i >= u BY <1>1, <1>2 DEF Solid
<1>4. u <= Len(s) => u \in Solid(s) BY <1>1, <1>2 DEF Solid
<1>5. u = Len(s) + 1 => Before(s, c) = Solid(s)
  BY <1>2, <1>3 DEF Before, Solid
<1>6. Solid(s) \subseteq Nat BY DEF Solid
<1> QED BY <1>1, <1>3, <1>4, <1>5, <1>6 DEF u

(* The next bytes that are not blank are paired in any pairing.             *)
LEMMA NextPaired ==
  ASSUME NEW s \in Seq(Bytes), NEW t \in Seq(Bytes),
         NEW c \in 1..Len(s) + 1, NEW d \in 1..Len(t) + 1,
         Paired(s, t, c, d), NEW g \in Pairings(s, t, Solid(s), Solid(t))
  PROVE  /\ Skip(s, c) <= Len(s) <=> Skip(t, d) <= Len(t)
         /\ Skip(s, c) <= Len(s) => g[Skip(s, c)] = Skip(t, d)
<1> DEFINE u == Skip(s, c)
           r == Skip(t, d)
<1>1. /\ u \in c..Len(s) + 1 /\ r \in d..Len(t) + 1
      /\ Solid(s) \subseteq Nat /\ Solid(t) \subseteq Nat
      /\ \A i \in Solid(s) : i < c \/ i >= u
      /\ \A k \in Solid(t) : k < d \/ k >= r
      /\ u <= Len(s) => u \in Solid(s)
      /\ r <= Len(t) => r \in Solid(t)
  BY Positions
<1>2. /\ g \in [Solid(s) -> Solid(t)]
      /\ \A i, j \in Solid(s) : i < j => g[i] < g[j]
      /\ \A k \in Solid(t) : \E i \in Solid(s) : g[i] = k
      /\ \A i \in Solid(s) : i < c <=> g[i] < d
  BY DEF Pairings, Paired
<1>3. \A i \in Solid(s) : i <= Len(s) BY DEF Solid
<1>4. \A k \in Solid(t) : k <= Len(t) BY DEF Solid
<1>5. Len(s) \in Nat /\ Len(t) \in Nat OBVIOUS
<1> HIDE DEF u, r
<1>6. u <= Len(s) => u \in Solid(s) /\ g[u] \in Solid(t) /\ g[u] >= r
  BY <1>1, <1>2, <1>5
<1>7. ASSUME r <= Len(t)
      PROVE  \E i \in Solid(s) : g[i] = r /\ i >= u
  <2>1. PICK i \in Solid(s) : g[i] = r BY <1>1, <1>2, <1>7
  <2>2. ~(g[i] < d) BY <1>1, <1>5, <2>1
  <2> QED BY <1>1, <1>2, <2>1, <2>2
<1>8. u <= Len(s) <=> r <= Len(t)
  <2>1. u <= Len(s) => r <= Len(t) BY <1>1, <1>4, <1>5, <1>6
  <2>2. r <= Len(t) => u <= Len(s) BY <1>1, <1>3, <1>5, <1>7
  <2> QED BY <2>1, <2>2
<1>9. ASSUME u <= Len(s) PROVE g[u] = r
  <2>1. PICK i \in Solid(s) : g[i] = r /\ i >= u BY <1>7, <1>8, <1>9
  <2>2. i > u => g[u] < r BY <1>1, <1>2, <1>6, <1>9, <2>1
  <2>3. i = u BY <1>1, <1>5, <1>6, <1>9, <2>1, <2>2
  <2> QED BY <2>1, <2>3
<1> QED BY <1>8, <1>9 DEF u, r

(* A round of isPE that finds them equal.                                   *)
LEMMA PairedOn ==
  ASSUME NEW s \in Seq(Bytes), NEW t \in Seq(Bytes),
         NEW c \in 1..Len(s) + 1, NEW d \in 1..Len(t) + 1,
         Paired(s, t, c, d),
         Skip(s, c) <= Len(s), Skip(t, d) <= Len(t),
         s[Skip(s, c)] = t[Skip(t, d)]
  PROVE  Paired(s, t, Skip(s, c) + 1, Skip(t, d) + 1)
<1> DEFINE u == Skip(s, c)
           r == Skip(t, d)
<1>1. /\ u \in c..Len(s) + 1 /\ r \in d..Len(t) + 1
      /\ Solid(s) \subseteq Nat /\ Solid(t) \subseteq Nat
      /\ \A i \in Solid(s) : i < c \/ i >= u
      /\ \A k \in Solid(t) : k < d \/ k >= r
      /\ u \in Solid(s) /\ r \in Solid(t)
  BY Positions
<1>2. s[u] = t[r] OBVIOUS
<1>3. \A g \in Pairings(s, t, Solid(s), Solid(t)) : g[u] = r BY NextPaired
<1> HIDE DEF u, r
<1>4. /\ Before(s, u + 1) = Before(s, c) \cup {u}
      /\ Before(t, r + 1) = Before(t, d) \cup {r}
  BY <1>1 DEF Before
<1>5. PICK f \in Pairings(s, t, Before(s, c), Before(t, d)) : TRUE
  BY DEF Paired
<1> DEFINE X == Before(s, c)
           Y == Before(t, d)
           h == [i \in X \cup {u} |-> IF i = u THEN r ELSE f[i]]
<1>6. h \in Pairings(s, t, X \cup {u}, Y \cup {r})
  <2>1. /\ \A i \in X : i \in Nat /\ i < u
        /\ \A k \in Y : k \in Nat /\ k < r
        /\ u \in Nat /\ r \in Nat
    BY <1>1 DEF Before
  <2>2. /\ f \in [X -> Y]
        /\ \A i \in X : s[i] = t[f[i]]
        /\ \A i, j \in X : i < j => f[i] < f[j]
        /\ \A k \in Y : \E i \in X : f[i] = k
    BY DEF Pairings
  <2> HIDE DEF X, Y
  <2>3. h[u] = r /\ \A i \in X : h[i] = f[i] BY <2>1
  <2>4. h \in [X \cup {u} -> Y \cup {r}] BY <2>2
  <2>5. \A i \in X \cup {u} : s[i] = t[h[i]] BY <1>2, <2>2, <2>3
  <2>6. \A i, j \in X \cup {u} : i < j => h[i] < h[j]
    <3> SUFFICES ASSUME NEW i \in X \cup {u}, NEW j \in X \cup {u}, i < j
                 PROVE  h[i] < h[j]
      OBVIOUS
    <3>1. i \in X BY <2>1
    <3>2. CASE j = u BY <2>1, <2>2, <2>3, <3>1, <3>2
    <3>3. CASE j \in X BY <2>2, <2>3, <3>1, <3>3
    <3> QED BY <3>2, <3>3
  <2>7. \A k \in Y \cup {r} : \E i \in X \cup {u} : h[i] = k
    BY <2>2, <2>3
  <2> HIDE DEF h
  <2> QED BY <2>4, <2>5, <2>6, <2>7 DEF Pairings
<1>7. ASSUME NEW g \in Pairings(s, t, Solid(s), Solid(t)), NEW i \in Solid(s)
      PROVE  i < u + 1 <=> g[i] < r + 1
  <2>1. /\ g[u] = r /\ g \in [Solid(s) -> Solid(t)]
        /\ \A a, b \in Solid(s) : a < b => g[a] < g[b]
    BY <1>3 DEF Pairings
  <2>2. u \in Nat /\ r \in Nat /\ i \in Nat /\ g[i] \in Nat BY <1>1, <2>1
  <2>3. CASE i < u BY <1>1, <2>1, <2>2, <2>3
  <2>4. CASE i = u BY <2>1, <2>2, <2>4
  <2>5. CASE i > u BY <1>1, <2>1, <2>2, <2>5
  <2> QED BY <2>2, <2>3, <2>4, <2>5
<1>8. Paired(s, t, u + 1, r + 1) BY <1>4, <1>6, <1>7 DEF Paired
<1> QED BY <1>8 DEF u, r

(* Where the loop ends it knows whether the files are the same.             *)
LEMMA PairedAtEnd ==
  ASSUME NEW s \in Seq(Bytes), NEW t \in Seq(Bytes),
         NEW c \in 1..Len(s) + 1, NEW d \in 1..Len(t) + 1,
         Paired(s, t, c, d),
         \/ Skip(s, c) > Len(s) \/ Skip(t, d) > Len(t)
         \/ s[Skip(s, c)] # t[Skip(t, d)]
  PROVE  SameWords(s, t) <=> Skip(s, c) > Len(s) /\ Skip(t, d) > Len(t)
<1>1. /\ Len(s) \in Nat /\ Len(t) \in Nat
      /\ Skip(s, c) \in c..Len(s) + 1 /\ Skip(t, d) \in d..Len(t) + 1
      /\ Skip(s, c) <= Len(s) => Skip(s, c) \in Solid(s)
  BY Positions
<1>2. ASSUME Skip(s, c) > Len(s), Skip(t, d) > Len(t)
      PROVE  SameWords(s, t)
  <2>1. Skip(s, c) = Len(s) + 1 /\ Skip(t, d) = Len(t) + 1 BY <1>1, <1>2
  <2>2. Before(s, c) = Solid(s) /\ Before(t, d) = Solid(t)
    BY <2>1, Positions
  <2> QED BY <2>2 DEF Paired, SameWords
<1>3. ASSUME NEW g \in Pairings(s, t, Solid(s), Solid(t))
      PROVE  Skip(s, c) > Len(s) /\ Skip(t, d) > Len(t)
  <2>1. /\ Skip(s, c) <= Len(s) <=> Skip(t, d) <= Len(t)
        /\ Skip(s, c) <= Len(s) => g[Skip(s, c)] = Skip(t, d)
    BY NextPaired
  <2>2. CASE Skip(s, c) <= Len(s)
    <3>1. s[Skip(s, c)] = t[Skip(t, d)] BY <1>1, <2>1, <2>2 DEF Pairings
    <3> QED BY <1>1, <2>1, <2>2, <3>1
  <2> QED BY <1>1, <2>1, <2>2
<1> QED BY <1>2, <1>3 DEF SameWords

-----------------------------------------------------------------------------
EqualFiles ==
  Len(userout) = Len(rightout) /\ Text(userout) = Text(rightout)

\* Before a loop runs both pointers are in front.
FrontInv ==
  pc \in {"length", "map"} => cuser = 1 /\ cright = 1

\* A loop runs only on files it may compare, and result_ is still as it was.
LoopInv ==
  /\ pc \in {"length", "map", "str", "pe"} => result = "kUKE"
  /\ pc \in {"map", "str", "pe"} => ~TooLong
  /\ pc \in {"str", "pe"} => userout # <<>> /\ rightout # <<>>

\* What each loop has found out so far.
StrInv ==
  pc = "str" => /\ Len(userout) = Len(rightout) /\ cuser = cright
                /\ Same(userout, rightout, cuser)

PeInv ==
  pc = "pe" => ~EqualFiles /\ Paired(userout, rightout, cuser, cright)

CheckInv ==
  /\ userout \in Seq(Bytes) /\ rightout \in Seq(Bytes)
  /\ TypeOK /\ FrontInv /\ LoopInv /\ StrInv /\ PeInv
  /\ VerdictCorrect

LEMMA FilesAreSequences ==
  ASSUME NEW n \in Nat, NEW f \in Files(n)
  PROVE  f \in Seq(Bytes)
<1>1. PICK k \in 0..n : f \in [1..k -> Bytes] BY DEF Files
<1> QED BY <1>1

LEMMA InitCheck == Init => CheckInv
<1> SUFFICES ASSUME Init PROVE CheckInv
  OBVIOUS
<1>1. userout \in Seq(Bytes) /\ rightout \in Seq(Bytes)
  BY CheckerAssumption, FilesAreSequences DEF Init
<1>2. Len(userout) \in Nat /\ Len(rightout) \in Nat BY <1>1
<1> QED
  BY <1>1, <1>2 DEF Init, CheckInv, TypeOK, JudgeResult, FrontInv, LoopInv,
                    StrInv, PeInv, VerdictCorrect

(* run returns what the comparison asks for.                                *)
LEMMA Returned ==
  ASSUME CheckInv,
         (CheckOutLength /\ TooLong) \/ MapFails \/ StrEqual \/ PeEnd
  PROVE  CheckInv'
<1> USE DEF CheckInv
<1>1. /\ UNCHANGED <<userout, rightout, cuser, cright>>
      /\ pc' \in {"kOk", "kError"}
      /\ result' = CheckResult(Comparison)
      /\ pc' = "kOk" <=> result' = "kAC"
  <2>1. CASE CheckOutLength /\ TooLong
    <3>0. Len(userout) > MaxLength /\ ~(Len(userout) <= MaxLength)
      <4>1. Len(userout) \in Nat OBVIOUS
      <4> QED BY <2>1, <4>1, CheckerAssumption DEF TooLong
    <3>1. Comparison = "toolong" BY <3>0 DEF Comparison
    <3> QED BY <2>1, <3>1 DEF CheckOutLength, Finish, CheckResult
  <2>2. CASE MapFails
    <3>1. /\ pc = "map" /\ <<>> \in {userout, rightout}
          /\ result = "kUKE" /\ ~TooLong
      BY <2>2 DEF MapFails, LoopInv
    <3>2. Len(userout) <= MaxLength
      <4>1. Len(userout) \in Nat OBVIOUS
      <4> QED BY <3>1, <4>1, CheckerAssumption DEF TooLong
    <3>3. ~(Len(userout) > MaxLength) BY <3>1 DEF TooLong
    <3>4. Comparison = "empty" BY <3>1, <3>2, <3>3 DEF Comparison
    <3> QED BY <2>2, <3>1, <3>4 DEF MapFails, Finish, CheckResult
  <2>3. CASE StrEqual
    <3>1. /\ ~TooLong /\ userout # <<>> /\ rightout # <<>>
          /\ Len(userout) = Len(rightout) /\ cuser = cright
          /\ Same(userout, rightout, cuser)
      BY <2>3 DEF StrEqual, LoopInv, StrInv
    <3>2. Text(userout) = Text(rightout)
      BY <2>3, <3>1, EqualTexts DEF StrEqual, TypeOK
    <3>3. ~(Len(userout) > MaxLength) /\ <<>> \notin {userout, rightout}
      BY <3>1 DEF TooLong
    <3>4. Comparison = "equal" BY <3>1, <3>2, <3>3 DEF Comparison
    <3> QED BY <2>3, <3>4 DEF StrEqual, Finish, CheckResult
  <2>4. CASE PeEnd
    <3> DEFINE u == Skip(userout, cuser)
               r == Skip(rightout, cright)
               over == u > Len(userout) /\ r > Len(rightout)
    <3>1. /\ pc = "pe" /\ ~TooLong /\ userout # <<>> /\ rightout # <<>>
          /\ ~EqualFiles /\ Paired(userout, rightout, cuser, cright)
      BY <2>4 DEF PeEnd, LoopInv, PeInv
    <3>2. /\ Len(userout) \in Nat /\ Len(rightout) \in Nat
          /\ u \in 1..Len(userout) + 1 /\ r \in 1..Len(rightout) + 1
      <4>1. u \in cuser..Len(userout) + 1 /\ r \in cright..Len(rightout) + 1
        BY Skipped DEF TypeOK
      <4> QED BY <4>1 DEF TypeOK
    <3>3. \/ u > Len(userout) \/ r > Len(rightout)
          \/ userout[u] # rightout[r]
      BY <2>4, <3>2 DEF PeEnd, At
    <3>4. SameWords(userout, rightout) <=> over
      BY <3>1, <3>3, PairedAtEnd DEF TypeOK
    <3>5. /\ pc' = "kError"
          /\ result' = IF over THEN "kPE" ELSE "kWA"
          /\ UNCHANGED <<userout, rightout, cuser, cright>>
      BY <2>4 DEF PeEnd, Finish
    <3> HIDE DEF over
    <3>6. ~(Len(userout) > MaxLength) /\ <<>> \notin {userout, rightout}
      BY <3>1 DEF TooLong
    <3>7. Comparison = IF over THEN "blank" ELSE "differs"
      BY <3>1, <3>4, <3>6 DEF Comparison, EqualFiles
    <3> QED BY <3>5, <3>7 DEF CheckResult
  <2> QED BY <2>1, <2>2, <2>3, <2>4
<1>2. Comparison' = Comparison /\ VerdictCorrect'
  BY <1>1 DEF VerdictCorrect, Comparison
<1>3. result' \in JudgeResult BY <1>1 DEF CheckResult, JudgeResult
<1> QED
  BY <1>1, <1>2, <1>3 DEF TypeOK, FrontInv, LoopInv, StrInv, PeInv

(* A loop begins.                                                           *)
LEMMA Begun ==
  ASSUME CheckInv, (CheckOutLength /\ ~TooLong) \/ IsEqualLength \/ StrDiffers
  PROVE  CheckInv'
<1> USE DEF CheckInv
<1>1. CASE CheckOutLength /\ ~TooLong
  BY <1>1 DEF CheckOutLength, Finish, TypeOK, FrontInv, LoopInv, StrInv, PeInv,
              VerdictCorrect, TooLong
<1>2. CASE IsEqualLength
  <2>1. /\ UNCHANGED <<userout, rightout, cuser, cright, result>>
        /\ cuser = 1 /\ cright = 1 /\ result = "kUKE" /\ ~TooLong
        /\ userout # <<>> /\ rightout # <<>>
        /\ pc' = IF Len(userout) = Len(rightout) THEN "str" ELSE "pe"
    BY <1>2 DEF IsEqualLength, Finish, FrontInv, LoopInv
  <2>2. Same(userout, rightout, 1) BY DEF Same
  <2>3. Paired(userout, rightout, 1, 1) BY PairedAtFront
  <2>4. StrInv' BY <2>1, <2>2 DEF StrInv
  <2>5. PeInv' BY <2>1, <2>3 DEF PeInv, EqualFiles
  <2> QED BY <2>1, <2>4, <2>5 DEF TypeOK, FrontInv, LoopInv, VerdictCorrect,
                                  TooLong
<1>3. CASE StrDiffers
  <2>1. /\ pc' = "pe" /\ cuser' = 1 /\ cright' = 1
        /\ UNCHANGED <<userout, rightout, result>>
        /\ At(userout, cuser) # At(rightout, cright)
        /\ Len(userout) = Len(rightout) /\ cuser = cright
        /\ Same(userout, rightout, cuser)
        /\ result = "kUKE" /\ ~TooLong /\ userout # <<>> /\ rightout # <<>>
    BY <1>3 DEF StrDiffers, StrInv, LoopInv
  <2>2. ~EqualFiles
    BY <2>1, DifferentTexts DEF EqualFiles, TypeOK
  <2>3. Paired(userout, rightout, 1, 1) BY PairedAtFront
  <2>4. PeInv' BY <2>1, <2>2, <2>3 DEF PeInv, EqualFiles
  <2>5. Len(userout) \in Nat /\ Len(rightout) \in Nat OBVIOUS
  <2> QED BY <2>1, <2>4, <2>5 DEF TypeOK, FrontInv, LoopInv, StrInv,
                                  VerdictCorrect, TooLong
<1> QED BY <1>1, <1>2, <1>3

(* A loop goes on.                                                          *)
LEMMA WentOn ==
  ASSUME CheckInv, StrStep \/ PeStep
  PROVE  CheckInv'
<1> USE DEF CheckInv
<1>0. Len(userout) \in Nat /\ Len(rightout) \in Nat OBVIOUS
<1>1. CASE StrStep
  <2>1. /\ pc = "str" /\ UNCHANGED <<pc, userout, rightout, result>>
        /\ cuser' = cuser + 1 /\ cright' = cright + 1
        /\ At(userout, cuser) = At(rightout, cright)
        /\ At(userout, cuser) # "nul"
        /\ Len(userout) = Len(rightout) /\ cuser = cright
        /\ Same(userout, rightout, cuser)
        /\ cuser \in 1..Len(userout) + 1
    BY <1>1 DEF StrStep, StrInv, TypeOK
  <2>2. cuser <= Len(userout) BY <1>0, <2>1 DEF At
  <2>3. userout[cuser] = rightout[cuser] /\ userout[cuser] # "nul"
    BY <1>0, <2>1, <2>2 DEF At
  <2>4. Same(userout, rightout, cuser + 1) BY <2>1, <2>3 DEF Same
  <2>5. StrInv' BY <2>1, <2>4 DEF StrInv
  <2>6. TypeOK' BY <1>0, <2>1, <2>2 DEF TypeOK
  <2> QED BY <2>1, <2>5, <2>6 DEF FrontInv, LoopInv, PeInv, VerdictCorrect,
                                  TooLong
<1>2. CASE PeStep
  <2> DEFINE u == Skip(userout, cuser)
             r == Skip(rightout, cright)
  <2>1. /\ pc = "pe" /\ UNCHANGED <<pc, userout, rightout, result>>
        /\ u <= Len(userout) /\ r <= Len(rightout)
        /\ userout[u] = rightout[r]
        /\ cuser' = u + 1 /\ cright' = r + 1
        /\ ~EqualFiles /\ Paired(userout, rightout, cuser, cright)
    BY <1>2 DEF PeStep, PeInv
  <2>2. Paired(userout, rightout, u + 1, r + 1)
    BY <2>1, PairedOn DEF TypeOK
  <2>3. u \in 1..Len(userout) /\ r \in 1..Len(rightout)
    <3>1. u \in cuser..Len(userout) + 1 /\ r \in cright..Len(rightout) + 1
      BY Skipped DEF TypeOK
    <3> QED BY <1>0, <2>1, <3>1 DEF TypeOK
  <2> HIDE DEF u, r
  <2>4. PeInv' BY <2>1, <2>2 DEF PeInv, EqualFiles
  <2>5. TypeOK' BY <1>0, <2>1, <2>3 DEF TypeOK
  <2> QED BY <2>1, <2>4, <2>5 DEF FrontInv, LoopInv, StrInv, VerdictCorrect,
                                  TooLong
<1> QED BY <1>1, <1>2

LEMMA CheckStep == CheckInv /\ [Next]_vars => CheckInv'
<1> SUFFICES ASSUME CheckInv, [Next]_vars PROVE CheckInv'
  OBVIOUS
<1>1. CASE UNCHANGED vars
  BY <1>1 DEF vars, CheckInv, TypeOK, FrontInv, LoopInv, StrInv, PeInv,
              EqualFiles, VerdictCorrect, Comparison, TooLong
<1>2. CASE CheckOutLength BY <1>2, Returned, Begun
<1> QED BY <1>1, <1>2, Returned, Begun, WentOn DEF Next

LEMMA Checked == Spec => []CheckInv
BY InitCheck, CheckStep, PTL DEF Spec

(* No pointer of the two loops is ever past the NUL behind its file.        *)
THEOREM TypeCorrect == Spec => []TypeOK
<1>1. CheckInv => TypeOK BY DEF CheckInv
<1> QED BY <1>1, Checked, PTL

(* Checker::run returns the verdict that comparing the two whole outputs    *)
(* asks for, whatever their lengths and bytes: kAC just for outputs of one  *)
(* length with the same text, kPE just for those that white space alone     *)
(* tells apart.                                                             *)
THEOREM VerdictsCorrect == Spec => []VerdictCorrect
<1>1. CheckInv => VerdictCorrect BY DEF CheckInv
<1> QED BY <1>1, Checked, PTL
=============================================================================
