---------------------------- MODULE MCCloneSync ----------------------------
(***************************************************************************)
(* Small instances of CloneSync for TLC: two cloned rows or one, one id to *)
(* mint (or two), and the environments the runs differ in.                 *)
(***************************************************************************)
EXTENDS CloneSync, TLC

CONSTANTS i1, i2, i3, i4, g1, g2, a1, a2

OneRow == 1 :> i1
TwoRows == 1 :> i1 @@ 2 :> i2

\* The ids the reader makes of drawn rows: of the third row; or of the second,
\* that of the third being minted; or of none.
DrawnThird == 3 :> i3
DrawnSecond == 2 :> i2 @@ 3 :> NoId
NoneDrawn == << >>

\* Everything at once, but for pushes that overlap; and pushes that overlap,
\* with conflicts and splits, with failures and crashes, with lost answers.
Storm ==
    { Behaviours \ {"dismiss"},
      {"dismiss", "remoteEdit", "garbled", "skip", "split"},
      {"dismiss", "remoteEdit", "reject", "dropfail", "crash", "lateEdit"},
      {"dismiss", "remoteEdit", "garbled", "lost"} }

\* Session after session with other people at work and nothing failing; every
\* failure, with all local edits saved before the first push; and pushes that
\* overlap after that, with failures, foreign edits or emptied answers.
CalmOrEarly ==
    { {"remoteEdit", "checkfail", "garbled", "split", "lateEdit"},
      Behaviours \ {"lateEdit", "skip", "clear", "dismiss"},
      {"dismiss", "reject", "dropfail"},
      {"dismiss", "remoteEdit"},
      {"dismiss", "garbled"} }

\* A conflict the user skips, in an otherwise undisturbed push.
SkipOnly == { {"remoteEdit", "skip"} }

\* Other people's edits and two pushes in a row, nothing failing.
TwoPushes == { {"remoteEdit", "lateEdit"} }

\* A refused op, nobody else around.
RejectOnly == { {"reject"} }
=============================================================================
