--------------------------- MODULE MCFileTransfer ---------------------------
EXTENDS FileTransfer, TLC

CONSTANTS a, b

\* Without --resume a run only leaves out the journal check; --skip-unstable
\* is MaxFileAttempts = 1.
Resumed == {o \in Flags : o.resume /\ ~o.skipUnstable}

\* Others leave nothing at the dest, or a file as long as any; it may also be
\* damaged, and empty when the source was when it was copied.
Longest == {d \in Content : Len(d) = MaxLen}

\* The two block contents are interchangeable.
BlockSymmetry == Permutations({a, b})
=============================================================================
