------------------------------ MODULE MCWakeup ------------------------------
(* Two receivers of job1 and its sender; job2 is one that only the
   registry's past may know. *)
EXTENDS Wakeup, TLC

CONSTANTS s1, r1, r2, job1, job2

Jobs == (s1 :> job1) @@ (r1 :> job1) @@ (r2 :> job1)

\* What earlier jobs may leave: nothing, all of a job, or what a Send or a gc
\* that was cut short has.
Nothing   == [manifest |-> FALSE, notify |-> "none"]
Whole     == [manifest |-> TRUE, notify |-> "good"]
OldMarker == [manifest |-> FALSE, notify |-> "good"]
Leftovers == {Nothing, Whole, OldMarker, [manifest |-> TRUE, notify |-> "none"],
              [manifest |-> FALSE, notify |-> "bad"]}

\* The room for wakeups is taken, by one for this job or for the other.
OneKept == {{job1}, {job2}}
=============================================================================
