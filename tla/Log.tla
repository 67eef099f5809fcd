-------------------------------- MODULE Log --------------------------------
(***************************************************************************)
(* utils::Log (log.hpp).  The broker and every worker thread have a Log of *)
(* their own, all of which append to the same file; the global mutex is    *)
(* held from the first << of a statement to the << of endl().  The buffer  *)
(* of timeprefix() is static, so all threads share it.  A statement is     *)
(*   log_ << item ... << item << log_.endl();                              *)
(*                                                                         *)
(* lpc: "idle"  between statements      "lock"  before lockofLog           *)
(*      "time"  before timeprefix       "write" timeprefix returned        *)
(*      "endl"  before << of endl()     "unlock" in unLockofLog            *)
(* Definitions marked "mutated" are slips the properties have to notice;   *)
(* no specification uses them.                                             *)
(***************************************************************************)
EXTENDS Integers, Sequences

CONSTANTS
  Threads,
  MaxLines,   \* bound on the statements of one thread
  MaxItems    \* bound on the items of one statement

ASSUME LogAssumption ==
  /\ "none" \notin Threads
  /\ MaxLines \in Nat /\ MaxItems \in Nat \ {0}

VARIABLES
  lpc,           \* where each thread is
  left,          \* items of its statement still to come
  lines,         \* statements it began
  isLock, isPrefix, isTimePrefix,    \* the flags of its Log
  pending,       \* what its fstream has not flushed yet
  mutex,         \* who holds the mutex
  buf,           \* who last filled the buffer of timeprefix
  file,          \* the log file
  endlFirst      \* whether this build evaluates log_.endl() before the <<

vars == <<lpc, left, lines, isLock, isPrefix, isTimePrefix, pending, mutex,
          buf, file, endlFirst>>

\* What is written: by whom, and for the time prefix whose buffer it was.
Token(kind, t) == [kind |-> kind, by |-> t]
Time(t) == Token("time", t)
Newline(t) == Token("newline", t)

Goto(t, from, to) == lpc[t] = from /\ lpc' = [lpc EXCEPT ![t] = to]
-----------------------------------------------------------------------------
\* endl() asks for the prefixes of the next line, or of this one when the
\* compiler evaluates it before the first <<, which it is free to.
Endl(t) ==
  /\ isPrefix' = [isPrefix EXCEPT ![t] = TRUE]
  /\ isTimePrefix' = [isTimePrefix EXCEPT ![t] = TRUE]

Begin(t) ==
  /\ Goto(t, "idle", "lock")
  /\ lines[t] < MaxLines
  /\ lines' = [lines EXCEPT ![t] = @ + 1]
  /\ \E n \in 1..MaxItems : left' = [left EXCEPT ![t] = n]
  /\ IF endlFirst THEN Endl(t) ELSE UNCHANGED <<isPrefix, isTimePrefix>>
  /\ UNCHANGED <<isLock, pending, mutex, buf, file, endlFirst>>

AfterLock(t) == IF isTimePrefix[t] THEN "time" ELSE "write"

LockUnchecked(t) ==                                              \* mutated
  /\ Goto(t, "lock", AfterLock(t))
  /\ mutex' = t
  /\ isLock' = [isLock EXCEPT ![t] = TRUE]
  /\ UNCHANGED <<left, lines, isPrefix, isTimePrefix, pending, buf, file,
                 endlFirst>>

\* lockofLog, for the first item of a statement.
Lock(t) ==
  /\ Goto(t, "lock", AfterLock(t))
  /\ IF isLock[t] THEN UNCHANGED <<mutex, isLock>>
     ELSE /\ mutex = "none" /\ mutex' = t
          /\ isLock' = [isLock EXCEPT ![t] = TRUE]
  /\ UNCHANGED <<left, lines, isPrefix, isTimePrefix, pending, buf, file,
                 endlFirst>>

TimePrefix(t) ==
  /\ Goto(t, "time", "write")
  /\ buf' = t
  /\ UNCHANGED <<left, lines, isLock, isPrefix, isTimePrefix, pending, mutex,
                 file, endlFirst>>

WriteOneMore(t) ==                                               \* mutated
  /\ Goto(t, "write", IF left[t] = 0 THEN "endl" ELSE "lock")
  /\ left' = [left EXCEPT ![t] = @ - 1]
  /\ pending' = [pending EXCEPT ![t] = Append(@, Token("item", t))]
  /\ isTimePrefix' = [isTimePrefix EXCEPT ![t] = FALSE]
  /\ isPrefix' = [isPrefix EXCEPT ![t] = FALSE]
  /\ UNCHANGED <<lines, isLock, mutex, buf, file, endlFirst>>

\* The rest of <<: the prefixes that are asked for, then the item.
Write(t) ==
  /\ Goto(t, "write", IF left[t] = 1 THEN "endl" ELSE "lock")
  /\ left' = [left EXCEPT ![t] = @ - 1]
  /\ pending' = [pending EXCEPT ![t] = @
                   \o (IF isTimePrefix[t] THEN <<Time(buf)>> ELSE <<>>)
                   \o (IF isPrefix[t] THEN <<Token("prefix", t)>> ELSE <<>>)
                   \o <<Token("item", t)>>]
  /\ isTimePrefix' = [isTimePrefix EXCEPT ![t] = FALSE]
  /\ isPrefix' = [isPrefix EXCEPT ![t] = FALSE]
  /\ UNCHANGED <<lines, isLock, mutex, buf, file, endlFirst>>

WriteEndlUnflushed(t) ==                                         \* mutated
  /\ Goto(t, "endl", "unlock")
  /\ pending' = [pending EXCEPT ![t] = <<Newline(t)>>]
  /\ file' = file \o pending[t]
  /\ IF endlFirst THEN UNCHANGED <<isPrefix, isTimePrefix>> ELSE Endl(t)
  /\ UNCHANGED <<left, lines, isLock, mutex, buf, endlFirst>>

\* << of endl(): the line is ended and flushed.
WriteEndl(t) ==
  /\ Goto(t, "endl", "unlock")
  /\ file' = file \o Append(pending[t], Newline(t))
  /\ pending' = [pending EXCEPT ![t] = <<>>]
  /\ IF endlFirst THEN UNCHANGED <<isPrefix, isTimePrefix>> ELSE Endl(t)
  /\ UNCHANGED <<left, lines, isLock, mutex, buf, endlFirst>>

UnlockFlag(t) ==                                                 \* mutated
  /\ Goto(t, "unlock", "idle")
  /\ isLock[t]
  /\ isLock' = [isLock EXCEPT ![t] = FALSE]
  /\ UNCHANGED <<left, lines, isPrefix, isTimePrefix, pending, mutex, buf, file,
                 endlFirst>>

\* unLockofLog: isLock_ is cleared while the mutex is still held.
Unlock(t) ==
  /\ Goto(t, "unlock", "idle")
  /\ isLock[t]
  /\ isLock' = [isLock EXCEPT ![t] = FALSE]
  /\ mutex' = "none"
  /\ UNCHANGED <<left, lines, isPrefix, isTimePrefix, pending, buf, file,
                 endlFirst>>

-----------------------------------------------------------------------------
\* Log::Log and setPrefix: the first line has its prefixes.
Init ==
  /\ lpc = [t \in Threads |-> "idle"]
  /\ left = [t \in Threads |-> 0]
  /\ lines = [t \in Threads |-> 0]
  /\ isLock = [t \in Threads |-> FALSE]
  /\ isPrefix = [t \in Threads |-> TRUE]
  /\ isTimePrefix = [t \in Threads |-> TRUE]
  /\ pending = [t \in Threads |-> <<>>]
  /\ mutex = "none"
  /\ buf = "none"
  /\ file = <<>>
  /\ endlFirst \in BOOLEAN

Step(t) == TimePrefix(t) \/ Write(t) \/ WriteEndl(t) \/ Unlock(t)

Next == \E t \in Threads : Begin(t) \/ Lock(t) \/ Step(t)

Spec == Init /\ [][Next]_vars

\* Threads are scheduled, and whoever waits for the mutex gets it if it is
\* free again and again.
FairSpec ==
  Spec /\ \A t \in Threads : SF_vars(Lock(t)) /\ WF_vars(Step(t))

-----------------------------------------------------------------------------
TokenType == [kind : {"time", "prefix", "item", "newline"}, by : Threads]

\* Type invariant.
TypeOK ==
  /\ lpc \in [Threads -> {"idle", "lock", "time", "write", "endl", "unlock"}]
  /\ left \in [Threads -> 0..MaxItems]
  /\ lines \in [Threads -> 0..MaxLines]
  /\ isLock \in [Threads -> BOOLEAN]
  /\ isPrefix \in [Threads -> BOOLEAN]
  /\ isTimePrefix \in [Threads -> BOOLEAN]
  /\ pending \in [Threads -> Seq(TokenType)]
  /\ mutex \in Threads \cup {"none"}
  /\ buf \in Threads \cup {"none"}
  /\ file \in Seq(TokenType)
  /\ endlFirst \in BOOLEAN

\* The tokens of file from i on, up to the next newline, are one statement of
\* one thread: its time, its prefix and its items.
WholeLine(i) ==
  \E j \in i + 3..Len(file) :
    /\ file[i].kind = "time" /\ file[i + 1].kind = "prefix"
    /\ \A k \in i + 2..j - 1 : file[k].kind = "item"
    /\ file[j].kind = "newline"
    /\ \A k \in i..j : file[k].by = file[i].by

\* However the threads interleave, the file consists of whole lines: none is
\* cut by another thread's, has no or another thread's time, or lacks its
\* prefix, whichever order the compiler evaluates a statement in.
WholeLines ==
  \A i \in DOMAIN file :
    (i = 1 \/ file[i - 1].kind = "newline") => WholeLine(i)

\* The mutex is held by the one thread that is within a statement, from its
\* first item on, and by nobody else.
HeldWithinStatement ==
  \A t \in Threads :
    (mutex = t) <=> \/ lpc[t] \in {"time", "write", "endl", "unlock"}
                    \/ lpc[t] = "lock" /\ isLock[t]

\* No thread waits for the log for ever.
LineWritten == \A t \in Threads : lpc[t] = "lock" ~> lpc[t] = "idle"
=============================================================================
