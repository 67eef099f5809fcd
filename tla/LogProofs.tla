----------------------------- MODULE LogProofs -----------------------------
(***************************************************************************)
(* What module Log promises for any number of threads, lines and items:    *)
(* its type invariant, that the mutex is held throughout a statement, and  *)
(* that the shared buffer of timeprefix() is safe under it.                *)
(***************************************************************************)
EXTENDS Log, SequenceTheorems, TLAPS

\* The flag of a Log and the mutex agree, although the flag is cleared first.
FlagInv == \A t \in Threads : isLock[t] <=> mutex = t

\* A statement that still needs the log has an item to write.
ItemInv ==
  \A t \in Threads : lpc[t] \in {"lock", "time", "write"} => left[t] # 0

\* The time a thread is about to write is the one it formed.
OwnTime == \A t \in Threads : lpc[t] = "write" /\ isTimePrefix[t] => buf = t

LogInv == TypeOK /\ HeldWithinStatement /\ FlagInv /\ ItemInv /\ OwnTime
-----------------------------------------------------------------------------
\* The first state: no statement has begun, nobody holds the mutex.
LEMMA InitInv == Init => LogInv
  BY LogAssumption
     DEF Init, LogInv, TypeOK, HeldWithinStatement, FlagInv, ItemInv, OwnTime

\* The tokens an item writes are tokens of known threads.
LEMMA WriteType ==
  ASSUME LogInv, NEW t \in Threads, lpc[t] = "write"
  PROVE  pending[t]
           \o (IF isTimePrefix[t] THEN <<Time(buf)>> ELSE <<>>)
           \o (IF isPrefix[t] THEN <<Token("prefix", t)>> ELSE <<>>)
           \o <<Token("item", t)>> \in Seq(TokenType)
<1>1. pending[t] \in Seq(TokenType)
  BY DEF LogInv, TypeOK
<1> DEFINE tm == IF isTimePrefix[t] THEN <<Time(buf)>> ELSE <<>>
           pre == IF isPrefix[t] THEN <<Token("prefix", t)>> ELSE <<>>
           item == <<Token("item", t)>>
<1>2. tm \in Seq(TokenType)
  <2>1. CASE isTimePrefix[t]
    <3>1. Time(buf) \in TokenType
      BY <2>1 DEF LogInv, OwnTime, Time, Token, TokenType
    <3>2. QED
      BY <2>1, <3>1
  <2>2. CASE ~isTimePrefix[t]
    BY <2>2
  <2>3. QED
    BY <2>1, <2>2
<1>3. pre \in Seq(TokenType)
  <2>1. Token("prefix", t) \in TokenType
    BY DEF Token, TokenType
  <2>2. QED
    BY <2>1
<1>4. item \in Seq(TokenType)
  <2>1. Token("item", t) \in TokenType
    BY DEF Token, TokenType
  <2>2. QED
    BY <2>1
<1>5. pending[t] \o tm \o pre \o item \in Seq(TokenType)
  <2> HIDE DEF tm, pre, item
  <2>1. QED
    BY <1>1, <1>2, <1>3, <1>4
<1>6. QED
  BY <1>5

\* Every step of a thread preserves the types.
LEMMA TypeStep == LogInv /\ [Next]_vars => TypeOK'
<1> SUFFICES ASSUME LogInv, [Next]_vars PROVE TypeOK'
  OBVIOUS
<1> USE LogAssumption DEF LogInv
<1>1. CASE UNCHANGED vars
  BY <1>1 DEF vars, TypeOK
<1>2. ASSUME NEW t \in Threads, Begin(t) PROVE TypeOK'
  <2>1. left' \in [Threads -> 0..MaxItems]
    <3>1. PICK n \in 1..MaxItems : left' = [left EXCEPT ![t] = n]
      BY <1>2 DEF Begin
    <3>2. QED
      BY <3>1 DEF TypeOK
  <2>2. lines' \in [Threads -> 0..MaxLines]
    BY <1>2 DEF Begin, TypeOK
  <2>3. /\ isPrefix' \in [Threads -> BOOLEAN]
        /\ isTimePrefix' \in [Threads -> BOOLEAN]
    BY <1>2 DEF Begin, Endl, TypeOK
  <2>4. lpc' \in [Threads -> {"idle", "lock", "time", "write", "endl", "unlock"}]
    BY <1>2 DEF Begin, Goto, TypeOK
  <2>5. QED
    BY <1>2, <2>1, <2>2, <2>3, <2>4 DEF Begin, TypeOK
<1>3. ASSUME NEW t \in Threads, Lock(t) PROVE TypeOK'
  BY <1>3 DEF Lock, AfterLock, Goto, TypeOK
<1>4. ASSUME NEW t \in Threads, TimePrefix(t) PROVE TypeOK'
  BY <1>4 DEF TimePrefix, Goto, TypeOK
<1>5. ASSUME NEW t \in Threads, Write(t) PROVE TypeOK'
  <2>1. pending' \in [Threads -> Seq(TokenType)]
    BY <1>5, WriteType DEF Write, Goto, TypeOK
  <2>2. left' \in [Threads -> 0..MaxItems]
    BY <1>5 DEF Write, Goto, TypeOK, ItemInv
  <2>3. QED
    BY <1>5, <2>1, <2>2 DEF Write, Goto, TypeOK
<1>6. ASSUME NEW t \in Threads, WriteEndl(t) PROVE TypeOK'
  <2>1. Newline(t) \in TokenType
    BY DEF Newline, Token, TokenType
  <2>2. pending[t] \in Seq(TokenType) /\ file \in Seq(TokenType)
    BY DEF TypeOK
  <2>3. Append(pending[t], Newline(t)) \in Seq(TokenType)
    BY <2>1, <2>2
  <2>4. file' \in Seq(TokenType)
    BY <1>6, <2>2, <2>3 DEF WriteEndl
  <2>5. pending' \in [Threads -> Seq(TokenType)]
    BY <1>6 DEF WriteEndl, TypeOK
  <2>6. /\ isPrefix' \in [Threads -> BOOLEAN]
        /\ isTimePrefix' \in [Threads -> BOOLEAN]
    BY <1>6 DEF WriteEndl, Endl, TypeOK
  <2>7. lpc' \in [Threads -> {"idle", "lock", "time", "write", "endl", "unlock"}]
    BY <1>6 DEF WriteEndl, Goto, TypeOK
  <2>8. QED
    BY <1>6, <2>4, <2>5, <2>6, <2>7 DEF WriteEndl, TypeOK
<1>7. ASSUME NEW t \in Threads, Unlock(t) PROVE TypeOK'
  BY <1>7 DEF Unlock, Goto, TypeOK
<1>8. QED
  BY <1>1, <1>2, <1>3, <1>4, <1>5, <1>6, <1>7 DEF Next, Step

\* Every step keeps to the mutex: only a thread that holds it moves within a
\* statement, so no other can disturb it or the shared buffer.
LEMMA MutexStep ==
  LogInv /\ [Next]_vars
    => HeldWithinStatement' /\ FlagInv' /\ ItemInv' /\ OwnTime'
<1> SUFFICES ASSUME LogInv, [Next]_vars
             PROVE  HeldWithinStatement' /\ FlagInv' /\ ItemInv' /\ OwnTime'
  OBVIOUS
<1> USE LogAssumption
    DEF LogInv, TypeOK, HeldWithinStatement, FlagInv, ItemInv, OwnTime
<1>1. CASE UNCHANGED vars
  BY <1>1 DEF vars
<1>2. ASSUME NEW t \in Threads, Begin(t)
      PROVE  HeldWithinStatement' /\ FlagInv' /\ ItemInv' /\ OwnTime'
  BY <1>2 DEF Begin, Endl, Goto
<1>3. ASSUME NEW t \in Threads, Lock(t)
      PROVE  HeldWithinStatement' /\ FlagInv' /\ ItemInv' /\ OwnTime'
  BY <1>3 DEF Lock, AfterLock, Goto
<1>4. ASSUME NEW t \in Threads, TimePrefix(t)
      PROVE  HeldWithinStatement' /\ FlagInv' /\ ItemInv' /\ OwnTime'
  BY <1>4 DEF TimePrefix, Goto
<1>5. ASSUME NEW t \in Threads, Write(t)
      PROVE  HeldWithinStatement' /\ FlagInv' /\ ItemInv' /\ OwnTime'
  BY <1>5 DEF Write, Goto
<1>6. ASSUME NEW t \in Threads, WriteEndl(t)
      PROVE  HeldWithinStatement' /\ FlagInv' /\ ItemInv' /\ OwnTime'
  BY <1>6 DEF WriteEndl, Endl, Goto
<1>7. ASSUME NEW t \in Threads, Unlock(t)
      PROVE  HeldWithinStatement' /\ FlagInv' /\ ItemInv' /\ OwnTime'
  BY <1>7 DEF Unlock, Goto
<1>8. QED
  BY <1>1, <1>2, <1>3, <1>4, <1>5, <1>6, <1>7 DEF Next, Step

\* The invariant the theorems below are read off.
THEOREM LogInvariant == Spec => []LogInv
<1>1. LogInv /\ [Next]_vars => LogInv'
  BY TypeStep, MutexStep DEF LogInv
<1>2. QED
  BY InitInv, <1>1, PTL DEF Spec

\* The type invariant of Log holds for every number of threads.
THEOREM LogTypeCorrect == Spec => []TypeOK
<1>1. LogInv => TypeOK
  BY DEF LogInv
<1>2. QED
  BY LogInvariant, <1>1, PTL

\* lockofLog and unLockofLog: the mutex is held by exactly the thread that is
\* within a statement, from its first item to its endl().
THEOREM MutexHeld == Spec => []HeldWithinStatement
<1>1. LogInv => HeldWithinStatement
  BY DEF LogInv
<1>2. QED
  BY LogInvariant, <1>1, PTL
-----------------------------------------------------------------------------
\* What a statement of t has written so far, once it has written anything:
\* its time, its prefix and its items.
Begun(s, t) ==
  /\ Len(s) >= 3
  /\ s[1].kind = "time" /\ s[2].kind = "prefix"
  /\ \A k \in 3..Len(s) : s[k].kind = "item"
  /\ \A k \in 1..Len(s) : s[k].by = t

\* The prefixes of a line are still asked for exactly when nothing of the line
\* is written, whichever order the statement is evaluated in.
PendingInv ==
  \A t \in Threads :
    /\ isPrefix[t] <=> isTimePrefix[t]
    /\ lpc[t] = "time" => isTimePrefix[t]
    /\ lpc[t] \in {"lock", "time", "write"} =>
         IF isTimePrefix[t] THEN pending[t] = <<>> ELSE Begun(pending[t], t)
    /\ lpc[t] = "endl" => Begun(pending[t], t)
    /\ lpc[t] \in {"idle", "unlock"} =>
         pending[t] = <<>> /\ (endlFirst \/ isTimePrefix[t])

\* The same of a sequence of tokens as WholeLines says of the file.
WholeFrom(f, i) ==
  \E j \in i + 3..Len(f) :
    /\ f[i].kind = "time" /\ f[i + 1].kind = "prefix"
    /\ \A k \in i + 2..j - 1 : f[k].kind = "item"
    /\ f[j].kind = "newline"
    /\ \A k \in i..j : f[k].by = f[i].by

Whole(f) ==
  /\ \A i \in 1..Len(f) :
       (i = 1 \/ f[i - 1].kind = "newline") => WholeFrom(f, i)
  /\ f # <<>> => f[Len(f)].kind = "newline"

\* One token more.
LEMMA OneMore ==
  ASSUME NEW S, NEW s \in Seq(S), NEW e \in S
  PROVE  /\ s \o <<e>> \in Seq(S) /\ Len(s \o <<e>>) = Len(s) + 1
         /\ \A k \in 1..Len(s) : (s \o <<e>>)[k] = s[k]
         /\ (s \o <<e>>)[Len(s) + 1] = e
<1>1. <<e>> \in Seq(S) /\ Len(<<e>>) = 1 /\ <<e>>[1] = e /\ Len(s) \in Nat
  OBVIOUS
<1> DEFINE r == <<e>>
<1> HIDE DEF r
<1>2. /\ s \o r \in Seq(S) /\ Len(s \o r) = Len(s) + 1
      /\ \A k \in 1..Len(s) + 1 :
           (s \o r)[k] = IF k <= Len(s) THEN s[k] ELSE r[k - Len(s)]
  BY <1>1, ConcatProperties DEF r
<1>3. \A k \in 1..Len(s) : (s \o r)[k] = s[k]
  BY <1>1, <1>2
<1>4. (s \o r)[Len(s) + 1] = e
  <2>1. (s \o r)[Len(s) + 1] = r[Len(s) + 1 - Len(s)]
    BY <1>1, <1>2
  <2>2. Len(s) + 1 - Len(s) = 1
    BY <1>1
  <2> QED
    BY <1>1, <2>1, <2>2 DEF r
<1> QED
  BY <1>2, <1>3, <1>4 DEF r

LEMMA Three ==
  ASSUME NEW S, NEW a \in S, NEW b \in S, NEW c \in S
  PROVE  LET s == <<>> \o <<a>> \o <<b>> \o <<c>>
         IN  Len(s) = 3 /\ s[1] = a /\ s[2] = b /\ s[3] = c
<1>1. <<>> \o <<a>> = <<a>>
  OBVIOUS
<1>2. PICK u : u = <<a>>
  OBVIOUS
<1>3. u \in Seq(S) /\ Len(u) = 1 /\ u[1] = a
  BY <1>2
<1>4. PICK v : v = u \o <<b>>
  OBVIOUS
<1>5. v \in Seq(S) /\ Len(v) = 2 /\ v[1] = a /\ v[2] = b
  <2>1. /\ u \o <<b>> \in Seq(S) /\ Len(u \o <<b>>) = Len(u) + 1
        /\ \A k \in 1..Len(u) : (u \o <<b>>)[k] = u[k]
        /\ (u \o <<b>>)[Len(u) + 1] = b
    BY <1>3, OneMore
  <2> QED
    BY <1>3, <1>4, <2>1
<1>6. PICK w : w = v \o <<c>>
  OBVIOUS
<1>7. Len(w) = 3 /\ w[1] = a /\ w[2] = b /\ w[3] = c
  <2>1. /\ Len(v \o <<c>>) = Len(v) + 1
        /\ \A k \in 1..Len(v) : (v \o <<c>>)[k] = v[k]
        /\ (v \o <<c>>)[Len(v) + 1] = c
    <3>1. v \in Seq(S)
      BY <1>5
    <3> QED
      BY <3>1, OneMore
  <2>2. 1 \in 1..Len(v) /\ 2 \in 1..Len(v) /\ Len(v) + 1 = 3
    <3>1. 1 \in 1..2 /\ 2 \in 1..2 /\ 2 + 1 = 3
      OBVIOUS
    <3>2. Len(v) = 2
      BY <1>5
    <3> QED
      BY <3>1, <3>2
  <2>3. w[1] = v[1] /\ w[2] = v[2]
    BY <1>6, <2>1, <2>2
  <2>4. Len(w) = 3 /\ w[3] = c
    BY <1>6, <2>1, <2>2
  <2> QED
    BY <1>5, <2>3, <2>4
<1>8. <<>> \o <<a>> \o <<b>> \o <<c>> = w
  BY <1>1, <1>2, <1>4, <1>6
<1> QED
  BY <1>7, <1>8

\* What << adds to a line that is begun, or begins one.
LEMMA WriteBegins ==
  ASSUME LogInv, PendingInv, NEW t \in Threads, Write(t)
  PROVE  Begun(pending'[t], t)
<1>1. /\ lpc[t] = "write" /\ pending[t] \in Seq(TokenType)
      /\ isPrefix[t] <=> isTimePrefix[t]
  BY DEF Write, Goto, LogInv, TypeOK, PendingInv
<1> DEFINE item == Token("item", t)
<1>2. item \in TokenType /\ item.kind = "item" /\ item.by = t
  BY DEF Token, TokenType
<1>3. CASE isTimePrefix[t]
  <2> DEFINE tm == Time(buf)
             pre == Token("prefix", t)
  <2>1. /\ tm \in TokenType /\ tm.kind = "time" /\ tm.by = t
        /\ pre \in TokenType /\ pre.kind = "prefix" /\ pre.by = t
    BY <1>1, <1>3 DEF Time, Token, TokenType, LogInv, OwnTime
  <2>2. pending'[t] = <<>> \o <<tm>> \o <<pre>> \o <<item>>
    BY <1>1, <1>3 DEF Write, PendingInv, LogInv, TypeOK
  <2> HIDE DEF tm, pre, item
  <2> DEFINE s3 == <<>> \o <<tm>> \o <<pre>> \o <<item>>
  <2>6. Len(s3) = 3 /\ s3[1] = tm /\ s3[2] = pre /\ s3[3] = item
    BY <1>2, <2>1, Three
  <2>7. pending'[t] = s3
    BY <2>2
  <2> HIDE DEF s3
  <2>8. Begun(s3, t)
    <3>1. \A k \in 1..3 : k = 1 \/ k = 2 \/ k = 3
      OBVIOUS
    <3>2. \A k \in 3..3 : k = 3
      OBVIOUS
    <3> QED
      BY <1>2, <2>1, <2>6, <3>1, <3>2 DEF Begun
  <2> QED
    BY <2>7, <2>8
<1>4. CASE ~isTimePrefix[t]
  <2> DEFINE s == pending[t]
  <2>1. Begun(s, t)
    BY <1>1, <1>4 DEF PendingInv
  <2>2. pending'[t] = pending[t] \o <<>> \o <<>> \o <<item>>
    BY <1>1, <1>4 DEF Write, LogInv, TypeOK
  <2> HIDE DEF item
  <2>3. pending'[t] = s \o <<item>>
    BY <1>1, <2>2, ConcatEmptySeq
  <2> HIDE DEF s
  <2>4. s \in Seq(TokenType)
    BY <1>1 DEF s
  <2>5. /\ Len(s \o <<item>>) = Len(s) + 1
        /\ \A k \in 1..Len(s) : (s \o <<item>>)[k] = s[k]
        /\ (s \o <<item>>)[Len(s) + 1] = item
    BY <1>2, <2>4, OneMore
  <2> DEFINE r == s \o <<item>>
  <2>6. Len(r) = Len(s) + 1 /\ (\A k \in 1..Len(s) : r[k] = s[k])
        /\ r[Len(s) + 1] = item /\ Len(s) \in Nat
    BY <2>4, <2>5
  <2> HIDE DEF r
  <2>7. Begun(r, t)
    BY <1>2, <2>1, <2>6 DEF Begun
  <2> QED
    BY <2>3, <2>7 DEF r
<1> QED
  BY <1>3, <1>4

LEMMA PendingStep ==
  ASSUME LogInv, PendingInv, [Next]_vars
  PROVE  PendingInv'
<1> USE DEF PendingInv, Goto
<1>1. CASE UNCHANGED vars
  BY <1>1 DEF vars
<1>2. ASSUME NEW t \in Threads, Begin(t) PROVE PendingInv'
  <2>1. /\ lpc[t] = "idle" /\ lpc' = [lpc EXCEPT ![t] = "lock"]
        /\ UNCHANGED <<pending, endlFirst>>
        /\ isTimePrefix'[t] /\ isPrefix'[t]
        /\ \A u \in Threads \ {t} : /\ isTimePrefix'[u] = isTimePrefix[u]
                                    /\ isPrefix'[u] = isPrefix[u]
    BY <1>2 DEF Begin, Endl, LogInv, TypeOK
  <2> QED
    BY <2>1 DEF LogInv, TypeOK
<1>3. ASSUME NEW t \in Threads, Lock(t) PROVE PendingInv'
  BY <1>3 DEF Lock, AfterLock, LogInv, TypeOK
<1>4. ASSUME NEW t \in Threads, TimePrefix(t) PROVE PendingInv'
  BY <1>4 DEF TimePrefix, LogInv, TypeOK
<1>5. ASSUME NEW t \in Threads, Write(t) PROVE PendingInv'
  <2>1. Begun(pending'[t], t)
    BY <1>5, WriteBegins
  <2>2. \A u \in Threads \ {t} : pending'[u] = pending[u]
    BY <1>5 DEF Write, LogInv, TypeOK
  <2>3. /\ lpc'[t] \in {"endl", "lock"} /\ ~isTimePrefix'[t] /\ ~isPrefix'[t]
        /\ UNCHANGED endlFirst
        /\ \A u \in Threads \ {t} : /\ lpc'[u] = lpc[u]
                                    /\ isTimePrefix'[u] = isTimePrefix[u]
                                    /\ isPrefix'[u] = isPrefix[u]
    BY <1>5 DEF Write, LogInv, TypeOK
  <2> QED
    BY <2>1, <2>2, <2>3
<1>6. ASSUME NEW t \in Threads, WriteEndl(t) PROVE PendingInv'
  BY <1>6 DEF WriteEndl, Endl, LogInv, TypeOK
<1>7. ASSUME NEW t \in Threads, Unlock(t) PROVE PendingInv'
  BY <1>7 DEF Unlock, LogInv, TypeOK
<1> QED
  BY <1>1, <1>2, <1>3, <1>4, <1>5, <1>6, <1>7 DEF Next, Step

\* A line that is begun and then ended keeps whole lines whole lines.
LEMMA LineEnded ==
  ASSUME NEW f \in Seq(TokenType), Whole(f), NEW t \in Threads,
         NEW s \in Seq(TokenType), Begun(s, t)
  PROVE  Whole(f \o Append(s, Newline(t)))
<1>1. Newline(t) \in TokenType /\ Newline(t).kind = "newline"
      /\ Newline(t).by = t
  BY DEF Newline, Token, TokenType
<1>2. PICK n \in Nat, m \in Nat : n = Len(f) /\ m = Len(s)
  OBVIOUS
<1>3. PICK g : g = f \o Append(s, Newline(t))
  OBVIOUS
<1>4. /\ Len(g) = n + m + 1 /\ m >= 3
      /\ \A k \in 1..n : g[k] = f[k]
      /\ \A k \in n + 1..n + m : g[k] = s[k - n]
      /\ g[n + m + 1] = Newline(t)
  <2> PICK r : r = Append(s, Newline(t))
    OBVIOUS
  <2>1. /\ r \in Seq(TokenType) /\ Len(r) = m + 1
        /\ \A k \in 1..m : r[k] = s[k]
        /\ r[m + 1] = Newline(t)
    BY <1>1, <1>2, AppendProperties
  <2>2. /\ Len(g) = n + (m + 1)
        /\ \A k \in 1..n + (m + 1) : g[k] = IF k <= n THEN f[k] ELSE r[k - n]
    BY <1>2, <1>3, <2>1, ConcatProperties
  <2>3. m >= 3
    BY <1>2 DEF Begun
  <2>4. \A k \in 1..n : g[k] = f[k]
    BY <1>2, <2>2
  <2>5. \A k \in n + 1..n + m : g[k] = r[k - n] /\ k - n \in 1..m
    BY <1>2, <2>2
  <2>6. g[n + m + 1] = r[n + m + 1 - n] /\ n + m + 1 - n = m + 1
    BY <1>2, <2>2
  <2>7. \A k \in n + 1..n + m : g[k] = s[k - n]
    BY <2>1, <2>5
  <2>8. Len(g) = n + m + 1 /\ g[n + m + 1] = Newline(t)
    BY <1>2, <2>1, <2>2, <2>6
  <2> QED
    BY <2>3, <2>4, <2>7, <2>8
<1>5. /\ s[1].kind = "time" /\ s[2].kind = "prefix"
      /\ \A k \in 3..m : s[k].kind = "item"
      /\ \A k \in 1..m : s[k].by = t /\ s[k].kind # "newline"
  <2>1. /\ s[1].kind = "time" /\ s[2].kind = "prefix"
        /\ \A k \in 3..m : s[k].kind = "item"
        /\ \A k \in 1..m : s[k].by = t
    BY <1>2 DEF Begun
  <2>2. \A k \in 1..m : k = 1 \/ k = 2 \/ k \in 3..m
    OBVIOUS
  <2> QED
    BY <2>1, <2>2
\* The lines that were there.
<1>6. ASSUME NEW i \in 1..n, i = 1 \/ g[i - 1].kind = "newline"
      PROVE  WholeFrom(g, i)
  <2>1. i = 1 \/ f[i - 1].kind = "newline"
    <3>1. i = 1 \/ i - 1 \in 1..n
      BY <1>2
    <3> QED
      BY <1>4, <1>6, <3>1
  <2>2. WholeFrom(f, i)
    BY <1>2, <2>1 DEF Whole
  <2>3. PICK j \in i + 3..n :
          /\ f[i].kind = "time" /\ f[i + 1].kind = "prefix"
          /\ \A k \in i + 2..j - 1 : f[k].kind = "item"
          /\ f[j].kind = "newline"
          /\ \A k \in i..j : f[k].by = f[i].by
    BY <1>2, <2>2 DEF WholeFrom
  <2>4. \A k \in i..j : g[k] = f[k]
    BY <1>2, <1>4
  <2>5. /\ j \in i + 3..Len(g) /\ i \in i..j /\ i + 1 \in i..j /\ j \in i..j
        /\ \A k \in i + 2..j - 1 : k \in i..j
    BY <1>2, <1>4
  <2> QED
    BY <2>3, <2>4, <2>5 DEF WholeFrom
\* The line that is added.
<1>7. WholeFrom(g, n + 1)
  <2> DEFINE j == n + m + 1
  <2>1. j \in n + 1 + 3..Len(g)
    BY <1>4
  <2>2. /\ \A k \in n + 1..n + m : g[k].by = t
        /\ g[n + 1].kind = "time" /\ g[n + 1 + 1].kind = "prefix"
        /\ \A k \in n + 1 + 2..n + m : g[k].kind = "item"
    <3>1. \A k \in n + 1..n + m : k - n \in 1..m
      OBVIOUS
    <3>2. \A k \in n + 1 + 2..n + m : k - n \in 3..m /\ k \in n + 1..n + m
      OBVIOUS
    <3>3. /\ n + 1 \in n + 1..n + m /\ n + 1 - n = 1
          /\ n + 1 + 1 \in n + 1..n + m /\ n + 1 + 1 - n = 2
      BY <1>4
    <3> QED
      BY <1>4, <1>5, <3>1, <3>2, <3>3
  <2>3. g[j].kind = "newline" /\ g[j].by = t
    BY <1>1, <1>4
  <2>4. /\ \A k \in n + 1..j : k = j \/ k \in n + 1..n + m
        /\ \A k \in n + 1 + 2..j - 1 : k \in n + 1 + 2..n + m
        /\ n + 1 \in n + 1..n + m
    BY <1>4
  <2> HIDE DEF j
  <2> QED
    BY <2>1, <2>2, <2>3, <2>4 DEF WholeFrom
\* No line starts within it.
<1>8. ASSUME NEW i \in n + 2..n + m + 1, g[i - 1].kind = "newline"
      PROVE  FALSE
  <2>1. i - 1 \in n + 1..n + m /\ i - 1 - n \in 1..m
    OBVIOUS
  <2> QED
    BY <1>4, <1>5, <1>8, <2>1
<1>9. \A i \in 1..Len(g) : i \in 1..n \/ i = n + 1 \/ i \in n + 2..n + m + 1
  BY <1>4
<1>10. \A i \in n + 2..n + m + 1 : i # 1
  OBVIOUS
<1>11. g[Len(g)].kind = "newline"
  BY <1>1, <1>4
<1> QED
  BY <1>3, <1>6, <1>7, <1>8, <1>9, <1>10, <1>11 DEF Whole

\* Only << of endl() writes to the file, and only what it has begun.
LEMMA FileStep ==
  ASSUME LogInv, PendingInv, Whole(file), [Next]_vars
  PROVE  Whole(file)'
<1>1. CASE UNCHANGED file
  BY <1>1
<1>2. ASSUME NEW t \in Threads, WriteEndl(t) PROVE Whole(file)'
  <2>1. Begun(pending[t], t) /\ file' = file \o Append(pending[t], Newline(t))
    BY <1>2 DEF WriteEndl, Goto, PendingInv
  <2>2. pending[t] \in Seq(TokenType) /\ file \in Seq(TokenType)
    BY DEF LogInv, TypeOK
  <2> QED
    BY <2>1, <2>2, LineEnded
<1> QED
  BY <1>1, <1>2 DEF Next, Step, Begin, Lock, TimePrefix, Write, Unlock, vars

\* The log file holds whole lines, each with its own time and prefix, for any
\* number of threads and either order of evaluation.
THEOREM WholeLinesOnly == Spec => []WholeLines
<1>1. Init => PendingInv /\ Whole(file)
  BY DEF Init, PendingInv, Whole
<1>2. TypeOK /\ Whole(file) => WholeLines
  <2>1. TypeOK => DOMAIN file = 1..Len(file)
    BY DEF TypeOK
  <2> QED
    BY <2>1 DEF Whole, WholeFrom, WholeLines, WholeLine
<1> QED
  BY LogInvariant, LogTypeCorrect, PendingStep, FileStep, <1>1, <1>2, PTL
     DEF Spec
=============================================================================
