----------------------------- MODULE StagedWrite -----------------------------
(***************************************************************************)
(* What transport.go asks of a WriteSession, "an atomic staged write",     *)
(* also of a backend that may lose an answer: the content at the path is   *)
(* replaced in one step, by the whole content the session was to write;    *)
(* a session reports success only when it has done so; and one that        *)
(* reports failure has replaced it or not, or still may, but only once.    *)
(***************************************************************************)
CONSTANTS Session,         \* write sessions, each with one path
          PathOf,          \* the path of each session
          WantedBy,        \* the content each session is to install
          Foreign          \* what other programs may put at a path

VARIABLES object,          \* the content at each path
          state,           \* what each session's caller knows of it
          installed        \* the sessions that have replaced their path's content
vars == <<object, state, installed>>

Init == /\ state = [s \in Session |-> "idle"]
        /\ installed = {}

Open(s) == /\ state[s] = "idle"
           /\ state' = [state EXCEPT ![s] = "open"]
           /\ UNCHANGED <<object, installed>>

Install(s) == /\ state[s] \in {"open", "failed"} /\ s \notin installed
              /\ object' = [object EXCEPT ![PathOf[s]] = WantedBy[s]]
              /\ installed' = installed \cup {s}
              /\ UNCHANGED state

Succeed(s) == /\ state[s] = "open" /\ s \in installed
              /\ state' = [state EXCEPT ![s] = "ok"]
              /\ UNCHANGED <<object, installed>>

Fail(s) == /\ state[s] \in {"idle", "open"}
           /\ state' = [state EXCEPT ![s] = "failed"]
           /\ UNCHANGED <<object, installed>>

Replace(p) == /\ \E c \in Foreign : object' = [object EXCEPT ![p] = c]
              /\ UNCHANGED <<state, installed>>

Next == \/ \E s \in Session : Open(s) \/ Install(s) \/ Succeed(s) \/ Fail(s)
        \/ \E p \in DOMAIN object : Replace(p)

Spec == Init /\ [][Next]_vars
=============================================================================
