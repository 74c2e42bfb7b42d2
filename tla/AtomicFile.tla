----------------------------- MODULE AtomicFile -----------------------------
(***************************************************************************)
(* What a local destination promises about one file, whoever writes it:    *)
(* it is replaced as a whole, by a version some writer asked for, and a    *)
(* power failure leaves the version it has now or one it had since the     *)
(* last time it was known to be on disk.                                   *)
(*                                                                         *)
(* The exception is a destination whose staging directory is on another    *)
(* file system: there the file is rewritten in place, and nothing is       *)
(* promised about it from then on.                                         *)
(***************************************************************************)
CONSTANTS Version,      \* the whole contents writers ask for
          NoFile,       \* the file does not exist
          Undefined,    \* nothing is promised any more
          CrossDevice   \* staging may be on another file system

VARIABLES value,        \* what a reader of the path finds
          lasting       \* what it may find after a power failure

absVars == <<value, lasting>>

Values == Version \cup {NoFile, Undefined}

AbsInit == value \in Version \cup {NoFile} /\ lasting = {value}

\* A writer's version takes the place of the file.
Replace(v) == /\ value # Undefined
              /\ value' = v /\ lasting' = lasting \cup {v}

Remove == /\ value # Undefined
          /\ value' = NoFile /\ lasting' = lasting \cup {NoFile}

\* The directory is synced.
Harden == value # Undefined /\ lasting' = {value} /\ UNCHANGED value

PowerFailure == /\ value # Undefined
                /\ value' \in lasting /\ lasting' = {value'}

RewriteInPlace == /\ CrossDevice
                  /\ value' = Undefined /\ lasting' = {Undefined}

AbsNext == \/ \E v \in Version : Replace(v)
           \/ Remove \/ Harden \/ PowerFailure \/ RewriteInPlace

AbsSpec == AbsInit /\ [][AbsNext]_absVars
=============================================================================
