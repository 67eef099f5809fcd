------------------------------ MODULE Checker ------------------------------
(***************************************************************************)
(* Checker::run (checker.cc, checker.h) on the two output files of a test. *)
(* isEqualStr tells all bytes apart, isPE steps over the four bytes of     *)
(* Blanks alike.  A file mapped into memory is followed by zeroes up to    *)
(* the end of its page.  Pointers are positions, 1 the first byte.         *)
(***************************************************************************)
EXTENDS Protocol, Sequences

CONSTANTS
  Bytes,       \* byte values, "nul" is 0
  Blanks,      \* those isPE steps over: ' ', '\n', '\r' and '\t'
  MaxLength,   \* kMaxLength
  MaxUser,     \* bound on the length of the user's output
  MaxRight     \* bound on that of the expected one

ASSUME CheckerAssumption ==
  /\ Blanks \subseteq Bytes \ {"nul"}
  /\ MaxLength \in Nat /\ MaxUser \in Nat /\ MaxRight \in Nat

VARIABLES
  pc,        \* "length", "map", "str", "pe", "kOk" or "kError" (returned)
  userout, rightout,
  cuser, cright,
  result

vars == <<pc, userout, rightout, cuser, cright, result>>

Files(n) == UNION {[1..k -> Bytes] : k \in 0..n}

\* What a char pointer reads at or after the end of a file.
At(s, i) == IF i > Len(s) THEN "nul" ELSE s[i]

SkipOne(s, i) ==                                                 \* mutated
  IF At(s, i) \in Blanks THEN i + 1 ELSE i

\* A loop that steps over white space and stops at the end of the file.
Skip(s, i) ==
  CHOOSE j \in i..Len(s) + 1 :
    /\ \A k \in i..j - 1 : s[k] \in Blanks
    /\ j = Len(s) + 1 \/ s[j] \notin Blanks

Finish(rc, verdict) ==
  /\ pc' = rc
  /\ result' = verdict
  /\ UNCHANGED <<userout, rightout, cuser, cright>>

TooLong == Len(userout) > MaxLength
-----------------------------------------------------------------------------
CheckOutLength ==
  /\ pc = "length"
  /\ IF TooLong THEN Finish("kError", "kOLE") ELSE Finish("map", result)

\* mmap refuses a length of 0: run returns before it has set result_.
MapFails ==
  /\ pc = "map" /\ (userout = <<>> \/ rightout = <<>>)
  /\ Finish("kError", result)

IsEqualLength ==
  /\ pc = "map" /\ userout # <<>> /\ rightout # <<>>
  /\ Finish(IF Len(userout) = Len(rightout) THEN "str" ELSE "pe", result)

StrStepPastNul ==                                                \* mutated
  /\ pc = "str"
  /\ At(userout, cuser) = At(rightout, cright)
  /\ cuser' = cuser + 1 /\ cright' = cright + 1
  /\ UNCHANGED <<pc, userout, rightout, result>>

\* isEqualStr, one round of its loop: equal bytes other than NUL.
StrStep ==
  /\ pc = "str"
  /\ At(userout, cuser) = At(rightout, cright) /\ At(userout, cuser) # "nul"
  /\ cuser' = cuser + 1 /\ cright' = cright + 1
  /\ UNCHANGED <<pc, userout, rightout, result>>

\* isEqualStr returns true when both strings are at a NUL.
StrEqual ==
  /\ pc = "str"
  /\ At(userout, cuser) = "nul" /\ At(rightout, cright) = "nul"
  /\ Finish("kOk", "kAC")

\* isEqualStr returns false: isPE starts from the front again.
StrDiffers ==
  /\ pc = "str"
  /\ At(userout, cuser) # At(rightout, cright)
  /\ pc' = "pe"
  /\ cuser' = 1 /\ cright' = 1
  /\ UNCHANGED <<userout, rightout, result>>

PeStepStays ==                                                   \* mutated
  /\ pc = "pe"
  /\ cuser <= Len(userout) /\ cright <= Len(rightout)
  /\ LET u == Skip(userout, cuser)
         r == Skip(rightout, cright)
     IN  /\ u <= Len(userout) /\ r <= Len(rightout) /\ userout[u] = rightout[r]
         /\ cuser' = u /\ cright' = r
  /\ UNCHANGED <<pc, userout, rightout, result>>

\* isPE, one round of its outer loop that does not break.
PeStep ==
  /\ pc = "pe"
  /\ cuser <= Len(userout) /\ cright <= Len(rightout)
  /\ LET u == Skip(userout, cuser)
         r == Skip(rightout, cright)
     IN  /\ u <= Len(userout) /\ r <= Len(rightout) /\ userout[u] = rightout[r]
         /\ cuser' = u + 1 /\ cright' = r + 1
  /\ UNCHANGED <<pc, userout, rightout, result>>

\* isPE leaves the loop: true if only white space is left of both.
PeEnd ==
  /\ pc = "pe"
  /\ LET u == Skip(userout, cuser)
         r == Skip(rightout, cright)
         over == u > Len(userout) \/ r > Len(rightout)
     IN  /\ over \/ At(userout, u) # At(rightout, r)
         /\ Finish("kError",
                   IF u > Len(userout) /\ r > Len(rightout)
                   THEN "kPE" ELSE "kWA")

Init ==
  /\ pc = "length"
  /\ userout \in Files(MaxUser) /\ rightout \in Files(MaxRight)
  /\ cuser = 1 /\ cright = 1
  /\ result = "kUKE"

Next ==
  \/ CheckOutLength \/ MapFails \/ IsEqualLength
  \/ StrStep \/ StrEqual \/ StrDiffers \/ PeStep \/ PeEnd

Spec == Init /\ [][Next]_vars /\ WF_vars(Next)

-----------------------------------------------------------------------------
\* Type invariant: no pointer is ever past the NUL behind its file.
TypeOK ==
  /\ pc \in {"length", "map", "str", "pe", "kOk", "kError"}
  /\ cuser \in 1..Len(userout) + 1 /\ cright \in 1..Len(rightout) + 1
  /\ result \in JudgeResult

Solid(s) == {i \in 1..Len(s) : s[i] \notin Blanks}

\* The ways to pair positions X of s with positions Y of t, in order, such that
\* paired bytes are the same.
Pairings(s, t, X, Y) ==
  {f \in [X -> Y] : /\ \A i \in X : s[i] = t[f[i]]
                    /\ \A i, j \in X : i < j => f[i] < f[j]
                    /\ \A k \in Y : \E i \in X : f[i] = k}

\* Two files are the same but for white space.
SameWords(s, t) == Pairings(s, t, Solid(s), Solid(t)) # {}

\* What a C string function sees of a file: the bytes before the first NUL.
Text(s) ==
  LET end == CHOOSE i \in 1..Len(s) + 1 :
               At(s, i) = "nul" /\ \A j \in 1..i - 1 : s[j] # "nul"
  IN  SubSeq(s, 1, end - 1)

\* How the outputs compare, as module Judger assumes them to be told apart.
\* Files of one length are equal when their texts are, byte for byte and
\* whatever comes after a NUL, so a space where a newline should be makes them
\* differ in white space; for that every byte of both files counts.
Comparison ==
  CASE Len(userout) > MaxLength -> "toolong"
    [] Len(userout) <= MaxLength /\ <<>> \in {userout, rightout} -> "empty"
    [] OTHER -> IF /\ Len(userout) = Len(rightout)
                   /\ Text(userout) = Text(rightout) THEN "equal"
                ELSE IF SameWords(userout, rightout) THEN "blank"
                ELSE "differs"

\* The length check and the two pointer loops (isEqualStr, isPE) compute the
\* verdict a comparison of the two files at once asks for, and run returns
\* kOk with kAC only.
VerdictCorrect ==
  pc \in {"kOk", "kError"} =>
    result = CheckResult(Comparison) /\ (pc = "kOk" <=> result = "kAC")

\* The checker comes to a verdict on every pair of outputs.
CheckerReturns == <>(pc \in {"kOk", "kError"})
=============================================================================
