------------------------------ MODULE Protocol ------------------------------
(***************************************************************************)
(* The vocabulary of judge_worker/protocol.h that every part of the judge  *)
(* shares: verdicts, return codes, code types and what judging one test    *)
(* case can yield.                                                         *)
(***************************************************************************)
EXTENDS Integers

\* enum JudgeResult, the verdict of a submission.
JudgeResult ==
  {"kAC", "kPE", "kTLE", "kMLE", "kWA", "kRE", "kOLE", "kCE", "kSE", "kUKE"}

\* enum CodeType; a client may also send a number outside the enum, which is
\* treated as kTypeUnknown is.
CodeType ==
  {"kTypeC", "kTypeCpp", "kTypePython", "kTypeJava", "kTypePascal",
   "kTypeBash", "kTypePerl", "kTypeRuby", "kTypeUnknown"}

\* The code types constructJudger builds a Judger for; NULL for the others.
Constructible ==
  {"kTypeC", "kTypeCpp", "kTypePython", "kTypeJava", "kTypeRuby"}

\* How a user's output file compares with the expected one, as far as
\* Checker::run tells outputs apart.  "empty": either file has length 0.
Outputs == {"equal", "blank", "differs", "toolong", "empty"}

\* Checker::run: ReturnCode and result_.  mmap of an empty file fails, so an
\* empty output leaves result_ at its initial kUKE.
CheckResult(out) ==
  CASE out = "equal"   -> "kAC"
    [] out = "blank"   -> "kPE"
    [] out = "differs" -> "kWA"
    [] out = "toolong" -> "kOLE"
    [] OTHER           -> "kUKE"
=============================================================================
