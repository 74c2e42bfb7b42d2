------------------------------- MODULE Wakeup -------------------------------
(***************************************************************************)
(* How a receiver learns that a job is in the store: waitForJob polls the  *)
(* store, and may be woken early through a daemon (relay.go, signal_quic). *)
(* The store may hold what earlier jobs of an id have left, and relay gc    *)
(* removes a job's files one after the other, whoever still wants them.    *)
(* The daemon keeps a registry of waiters and of wakeups nobody waited for *)
(* (relay_signal.go); it loses both when it stops.  To reach it a client   *)
(* dials, checks the daemon's certificate against a pin on disk (tofu.go), *)
(* says hello and makes one call (quic.go, helper.go).                     *)
(*                                                                         *)
(* All clients here run under one configuration directory, so that they    *)
(* share the pin of the daemon's address; nobody deletes it.  A client     *)
(* makes one call over its connection.                                     *)
(***************************************************************************)
EXTENDS Naturals, FiniteSets

CONSTANTS Sender, Receiver, Job,
          JobOf,            \* the job of each client
          Insecure,         \* clients that run with --insecure
          MaxWaitersPerJob, MaxPendingJobs,
          MaxHardFails,     \* storeSignalMaxHardFails
          MaxTroubles,      \* bound: errors, timeouts, crashes, lost connections, gcs
          Earlier,          \* what an earlier job may have left under an id
          EarlierPending,   \* the wakeups that may be kept of earlier jobs
          NoFile,           \* a file that is not there
          Empty             \* a pin file that was created and not written

Client == Sender \cup Receiver
Cert   == 1..(MaxTroubles + 1)     \* the certificates the daemon generates, in turn
Ids    == {JobOf[c] : c \in Client}
Files  == [manifest: BOOLEAN, notify: {"none", "good", "bad"}]

ASSUME WakeupAssumption == /\ Sender \cap Receiver = {} /\ Insecure \subseteq Client
                           /\ IsFiniteSet(Receiver) /\ IsFiniteSet(Job)
                           /\ JobOf \in [Client -> Job]
                           /\ MaxWaitersPerJob \in Nat /\ MaxPendingJobs \in Nat
                           /\ MaxHardFails \in Nat \ {0} /\ MaxTroubles \in Nat
                           /\ Earlier \subseteq Files
                           /\ \A P \in EarlierPending :
                                 P \subseteq Job /\ Cardinality(P) <= MaxPendingJobs
                           /\ NoFile \notin Cert \cup {Empty} /\ Empty \notin Cert

VARIABLES
    store,      \* per job: manifest there?, notify marker "none", "good" or "bad"
    gc,         \* per job: runs of gc that have yet to remove the notify marker
    daemon,     \* "down", "key" (its certificate written, its key not yet), "up"
    certFile, keyFile, generated,
    waiters, pending, closed,   \* relayWaiters, relayPending, closed channels
    handler,    \* per client, its session in the daemon: "idle", "called", "waiting", "leaving"
    conn,       \* per client, its side of the call
    live,       \* the clients whose connection to the daemon is up
    offered,    \* the certificate each client met
    pin,
    pc, fails,
    troubles,
    accepted,   \* history: certificates that passed a check against the pin
    cleaned     \* history: jobs of which some gc has removed the manifest

registry == <<waiters, pending, closed>>
mid      == <<store, gc, cleaned>>
identity == <<certFile, keyFile, generated>>
dialing  == <<offered, pin, accepted>>
vars == <<mid, daemon, identity, registry, handler, conn, live, dialing, pc, fails, troubles>>

Trouble == troubles < MaxTroubles /\ troubles' = troubles + 1
Becomes(c, state) == conn' = [conn EXCEPT ![c] = state]
Goto(c, label) == pc' = [pc EXCEPT ![c] = label]
-----------------------------------------------------------------------------
(* Serve and its certificate. *)
Load ==
    /\ daemon = "down" /\ certFile # NoFile /\ keyFile = certFile
    /\ daemon' = "up"
    /\ UNCHANGED <<mid, identity, registry, handler, conn, live, dialing, pc, fails, troubles>>

Generate ==
    /\ daemon = "down" /\ certFile = NoFile
    /\ generated' = generated + 1 /\ certFile' = generated' /\ daemon' = "key"
    /\ UNCHANGED <<mid, keyFile, registry, handler, conn, live, dialing, pc, fails, troubles>>

WriteKey ==
    /\ daemon = "key" /\ keyFile' = certFile /\ daemon' = "up"
    /\ UNCHANGED <<mid, certFile, generated, registry, handler, conn, live, dialing, pc, fails, troubles>>

\* The process ends, and with it its registry and its connections; its
\* configuration directory may go as well (a host set up anew).
Stop ==
    /\ daemon # "down" /\ Trouble
    /\ daemon' = "down" /\ live' = {}
    /\ waiters' = [j \in Job |-> {}] /\ pending' = {} /\ closed' = {}
    /\ handler' = [c \in Client |-> "idle"]
    /\ \/ UNCHANGED identity
       \/ certFile' = NoFile /\ keyFile' = NoFile /\ UNCHANGED generated
    /\ UNCHANGED <<mid, conn, dialing, pc, fails>>
-----------------------------------------------------------------------------
(* DialOpts: verifyTOFU is called from the handshake. *)
Passes(c) == accepted' = accepted \cup {offered[c]} /\ Becomes(c, "hello")

Dial(c) ==
    /\ conn[c] = "dial"
    /\ \/ /\ daemon = "up" /\ live' = live \cup {c}
          /\ offered' = [offered EXCEPT ![c] = certFile]
          /\ Becomes(c, IF c \in Insecure THEN "hello" ELSE "pin")
       \/ daemon # "up" /\ Becomes(c, "err") /\ UNCHANGED <<live, offered>>
    /\ UNCHANGED <<mid, daemon, identity, registry, handler, pin, accepted, pc, fails, troubles>>

ReadPin(c) ==
    /\ conn[c] = "pin"
    /\ \/ pin = NoFile /\ Becomes(c, "create") /\ UNCHANGED <<accepted, troubles>>
       \/ pin = offered[c] /\ Passes(c) /\ UNCHANGED troubles
       \/ pin \notin {NoFile, offered[c]} /\ Becomes(c, "err") /\ UNCHANGED <<accepted, troubles>>
       \/ Trouble /\ Becomes(c, "err") /\ UNCHANGED accepted
    /\ UNCHANGED <<mid, daemon, identity, registry, handler, live, offered, pin, pc, fails>>

\* Mutant of Creates: without O_EXCL, whoever found no pin writes one.
CreatesAnyway == TRUE

\* O_CREATE | O_EXCL.
Creates == pin = NoFile

CreatePin(c) ==
    /\ conn[c] = "create"
    /\ \/ Creates /\ pin' = Empty /\ Becomes(c, "write")
       \/ ~Creates /\ Becomes(c, "reread") /\ UNCHANGED pin
    /\ UNCHANGED <<mid, daemon, identity, registry, handler, live, offered, accepted, pc, fails, troubles>>

\* A failing Close comes after what was written.
WritePin(c) ==
    /\ conn[c] = "write"
    /\ \/ pin' = offered[c] /\ Passes(c) /\ UNCHANGED troubles
       \/ Trouble /\ Becomes(c, "err") /\ pin' \in {pin, offered[c]} /\ UNCHANGED accepted
    /\ UNCHANGED <<mid, daemon, identity, registry, handler, live, offered, pc, fails>>

\* The race was lost; the winner may not have written its pin yet.
RereadPin(c) ==
    /\ conn[c] = "reread"
    /\ IF pin = offered[c] THEN Passes(c) ELSE Becomes(c, "err") /\ UNCHANGED accepted
    /\ UNCHANGED <<mid, daemon, identity, registry, handler, live, offered, pin, pc, fails, troubles>>

\* Hello, its answer (a wrong token or version is refused), and the request.
Hello(c) ==
    /\ conn[c] = "hello"
    /\ \/ c \in live /\ Becomes(c, "asked") /\ UNCHANGED troubles
          /\ handler' = [handler EXCEPT ![c] = "called"]
       \/ c \notin live /\ Becomes(c, "err") /\ UNCHANGED <<handler, troubles>>
       \/ Trouble /\ Becomes(c, "err") /\ UNCHANGED handler
    /\ offered' = [offered EXCEPT ![c] = NoFile]      \* not looked at again
    /\ live' = IF conn'[c] = "err" THEN live \ {c} ELSE live
    /\ UNCHANGED <<mid, daemon, identity, registry, pin, accepted, pc, fails>>

Break(c) ==
    /\ c \in live /\ Trouble /\ live' = live \ {c}
    /\ UNCHANGED <<mid, daemon, identity, registry, handler, conn, dialing, pc, fails>>

Lost(c) ==
    /\ conn[c] = "asked" /\ c \notin live /\ Becomes(c, "err")
    /\ UNCHANGED <<mid, daemon, identity, registry, handler, live, dialing, pc, fails, troubles>>
-----------------------------------------------------------------------------
(* The registry.  A handler that waits does not read from its connection, so
   that it stays when its client is gone. *)
Answer(c, result) ==
    /\ handler' = [handler EXCEPT ![c] = "idle"]
    /\ conn' = [conn EXCEPT ![c] = IF c \in live /\ @ = "asked" THEN result ELSE @]
    /\ live' = live \ {c}              \* the client closes, having its answer

RelayWake(c) ==
    LET j == JobOf[c] IN
    /\ c \in Sender /\ handler[c] = "called"
    /\ \/ /\ waiters[j] = {} /\ UNCHANGED <<waiters, closed>>
          /\ pending' = IF Cardinality(pending) < MaxPendingJobs THEN pending \cup {j}
                        ELSE pending
       \/ /\ waiters[j] # {} /\ pending' = pending \ {j}
          /\ waiters' = [waiters EXCEPT ![j] = {}]
          /\ closed' = closed \cup waiters[j]
    /\ Answer(c, "ok")
    /\ UNCHANGED <<mid, daemon, identity, dialing, pc, fails, troubles>>

\* Mutant of HasRoom: one waiter too many.
HasRoomForOneMore(j) == Cardinality(waiters[j]) <= MaxWaitersPerJob

HasRoom(j) == Cardinality(waiters[j]) < MaxWaitersPerJob

TakesPending(j) == j \in pending

RelayWaitJob(c) ==
    LET j == JobOf[c] IN
    /\ c \in Receiver /\ handler[c] = "called"
    /\ \/ /\ TakesPending(j) /\ pending' = pending \ {j} /\ Answer(c, "ok")
          /\ UNCHANGED waiters
       \/ /\ ~TakesPending(j) /\ ~HasRoom(j) /\ Answer(c, "err")
          /\ UNCHANGED <<waiters, pending>>
       \/ /\ ~TakesPending(j) /\ HasRoom(j)
          /\ waiters' = [waiters EXCEPT ![j] = @ \cup {c}]
          /\ handler' = [handler EXCEPT ![c] = "waiting"]
          /\ UNCHANGED <<pending, conn, live>>
    /\ UNCHANGED <<mid, daemon, identity, closed, dialing, pc, fails, troubles>>

Woken(c) ==
    /\ handler[c] = "waiting" /\ c \in closed
    /\ closed' = closed \ {c} /\ Answer(c, "ok")
    /\ UNCHANGED <<mid, daemon, identity, waiters, pending, dialing, pc, fails, troubles>>

\* Mutant of DeadlinePasses: relayWaitMax = 0.
NoDeadline == FALSE

\* relayWaitMax may pass at any time.
DeadlinePasses == TRUE

Deadline(c) ==
    /\ handler[c] = "waiting" /\ DeadlinePasses
    /\ handler' = [handler EXCEPT ![c] = "leaving"]
    /\ UNCHANGED <<mid, daemon, identity, registry, conn, live, dialing, pc, fails, troubles>>

\* Mutant of RemovedBy: the job's whole list goes with the waiter.
RemovesList(c) == waiters[JobOf[c]]

\* The deferred removal; relayWake may have taken the list since.
RemovedBy(c) == {c}

Leave(c) ==
    /\ handler[c] = "leaving"
    /\ waiters' = [waiters EXCEPT ![JobOf[c]] = @ \ RemovedBy(c)]
    /\ closed' = closed \ {c} /\ Answer(c, "err")
    /\ UNCHANGED <<mid, daemon, identity, pending, dialing, pc, fails, troubles>>
-----------------------------------------------------------------------------
(* The end of Send. *)
PutManifest(s) ==
    /\ pc[s] = "manifest"
    /\ store' = [store EXCEPT ![JobOf[s]].manifest = TRUE] /\ Goto(s, "notify")
    /\ UNCHANGED <<gc, cleaned, daemon, identity, registry, handler, conn, live, dialing, fails, troubles>>

PutNotify(s) ==
    /\ pc[s] = "notify"
    /\ store' = [store EXCEPT ![JobOf[s]].notify = "good"]
    /\ Goto(s, "signal") /\ Becomes(s, "dial")
    /\ UNCHANGED <<gc, cleaned, daemon, identity, registry, handler, live, dialing, fails, troubles>>

Signaled(s) ==
    /\ pc[s] = "signal" /\ conn[s] \in {"ok", "err"}
    /\ Goto(s, IF conn[s] = "ok" THEN "done" ELSE "failed")
    /\ UNCHANGED <<mid, daemon, identity, registry, handler, conn, live, dialing, fails, troubles>>

\* The store loses the marker's content.
Corrupt(j) ==
    /\ store[j].notify = "good" /\ Trouble
    /\ store' = [store EXCEPT ![j].notify = "bad"]
    /\ UNCHANGED <<gc, cleaned, daemon, identity, registry, handler, conn, live, dialing, pc, fails>>

(* The end of GC: the manifest, then the notify marker.  It goes on past a
   removal that fails, and may be killed between the two. *)
GcManifest(j) ==
    /\ Trouble /\ gc' = [gc EXCEPT ![j] = @ + 1]
    /\ \/ store' = [store EXCEPT ![j].manifest = FALSE] /\ cleaned' = cleaned \cup {j}
       \/ UNCHANGED <<store, cleaned>>
    /\ UNCHANGED <<daemon, identity, registry, handler, conn, live, dialing, pc, fails>>

GcNotify(j) ==
    /\ gc[j] > 0 /\ gc' = [gc EXCEPT ![j] = @ - 1]
    /\ store' \in {store, [store EXCEPT ![j].notify = "none"]}
    /\ UNCHANGED <<cleaned, daemon, identity, registry, handler, conn, live, dialing, pc, fails, troubles>>
-----------------------------------------------------------------------------
(* waitForJob.  The first poll is on its own: no error of it is forgiven. *)
StillWaits(r) ==
    /\ Goto(r, "loop") /\ fails' = [fails EXCEPT ![r] = 0]
    /\ IF pc[r] = "firstStat" THEN Becomes(r, "dial") ELSE UNCHANGED conn

PollFails(r) ==
    /\ Trouble
    /\ fails' = [fails EXCEPT ![r] = @ + 1]
    /\ Goto(r, IF pc[r] \in {"first", "firstStat"} \/ fails'[r] >= MaxHardFails
               THEN "failed" ELSE "loop")

\* Mutant of Ticks: once the signal has come the ticker is forgotten.
TicksBeforeSignal(r) == pc[r] = "loop" /\ conn[r] # "spent"

\* The ticker; its poll follows at once.
Ticks(r) == pc[r] = "loop"

\* pollOnce: the notify marker, and the manifest if there is no good marker.
ReadNotify(r) ==
    /\ pc[r] \in {"first", "poll"} \/ Ticks(r)
    /\ \/ /\ store[JobOf[r]].notify = "good" /\ Goto(r, "found")
          /\ UNCHANGED <<fails, troubles>>
       \/ /\ store[JobOf[r]].notify # "good"
          /\ Goto(r, IF pc[r] = "first" THEN "firstStat" ELSE "pollStat")
          /\ UNCHANGED <<fails, troubles>>
       \/ PollFails(r)
    /\ UNCHANGED <<mid, daemon, identity, registry, handler, conn, live, dialing>>

StatManifest(r) ==
    /\ pc[r] \in {"firstStat", "pollStat"}
    /\ \/ store[JobOf[r]].manifest /\ Goto(r, "found") /\ UNCHANGED <<conn, fails, troubles>>
       \/ ~store[JobOf[r]].manifest /\ StillWaits(r) /\ UNCHANGED troubles
       \/ PollFails(r) /\ UNCHANGED conn
    /\ UNCHANGED <<mid, daemon, identity, registry, handler, live, dialing>>

\* Mutant of OnSignal: the wakeup is taken for the job.
TrustSignal(r) == IF conn[r] = "ok" THEN "found" ELSE "loop"

\* A wakeup is a reason to look; a failed one is nothing.
OnSignal(r) == IF conn[r] = "ok" THEN "poll" ELSE "loop"

TakeSignal(r) ==
    /\ pc[r] = "loop" /\ conn[r] \in {"ok", "err"}
    /\ Goto(r, OnSignal(r)) /\ Becomes(r, "spent")
    /\ UNCHANGED <<mid, daemon, identity, registry, handler, live, dialing, fails, troubles>>

\* RecvOptions.Wait has passed.
Timeout(r) ==
    /\ pc[r] = "loop" /\ Trouble /\ Goto(r, "failed")
    /\ UNCHANGED <<mid, daemon, identity, registry, handler, conn, live, dialing, fails>>

\* A process ends when it is done, or is killed; in the middle of a dial too.
Exit(c) ==
    /\ Becomes(c, "gone") /\ live' = live \ {c} /\ offered' = [offered EXCEPT ![c] = NoFile]
    /\ \/ pc[c] \in {"found", "done", "failed"} /\ c \in live /\ UNCHANGED <<pc, troubles>>
       \/ pc[c] \notin {"found", "done", "failed"} /\ Trouble /\ Goto(c, "failed")
    /\ UNCHANGED <<mid, daemon, identity, registry, handler, pin, accepted, fails>>
-----------------------------------------------------------------------------
(* The daemon is up, and earlier jobs with these ids may have used it and left
   something in the store. *)
Init ==
    /\ store \in [Ids -> Earlier] /\ gc = [j \in Ids |-> 0]
    /\ cleaned = {j \in Ids : store[j].notify = "good" /\ ~store[j].manifest}
    /\ daemon = "up" /\ certFile = 1 /\ keyFile = 1 /\ generated = 1
    /\ pending \in EarlierPending
    /\ waiters = [j \in Job |-> {}] /\ closed = {}
    /\ handler = [c \in Client |-> "idle"] /\ conn = [c \in Client |-> "idle"]
    /\ live = {} /\ offered = [c \in Client |-> NoFile]
    /\ pin = NoFile /\ accepted = {}
    /\ pc = [c \in Client |-> IF c \in Sender THEN "manifest" ELSE "first"]
    /\ fails = [r \in Receiver |-> 0]
    /\ troubles = 0

CallStep(c) == \/ Dial(c) \/ ReadPin(c) \/ CreatePin(c) \/ WritePin(c) \/ RereadPin(c)
               \/ Hello(c) \/ Lost(c)
DaemonStep(c) == RelayWake(c) \/ RelayWaitJob(c) \/ Woken(c) \/ Deadline(c) \/ Leave(c)
Poll(r) == ReadNotify(r) \/ StatManifest(r)

Next ==
    \/ Load \/ Generate \/ WriteKey \/ Stop
    \/ \E c \in Client : CallStep(c) \/ DaemonStep(c) \/ Break(c) \/ Exit(c)
    \/ \E s \in Sender : PutManifest(s) \/ PutNotify(s) \/ Signaled(s)
    \/ \E r \in Receiver : Poll(r) \/ TakeSignal(r) \/ Timeout(r)
    \/ \E j \in Ids : Corrupt(j) \/ GcManifest(j) \/ GcNotify(j)

Spec == Init /\ [][Next]_vars

(* The scheduler runs every goroutine, a ticker ticks and a deadline passes, and
   a lost connection is noticed.  No sender has to get on, nobody to reach the
   daemon, and no daemon to start. *)
FairSpec ==
    /\ Spec
    /\ \A r \in Receiver : /\ WF_<<pc, fails>>(Poll(r))
                           /\ WF_<<handler, conn>>(Lost(r) \/ DaemonStep(r))
-----------------------------------------------------------------------------
(* Type invariant of the state above, with the registry's two limits. *)
TypeOK ==
    /\ store \in [Ids -> Files] /\ gc \in [Ids -> 0..MaxTroubles] /\ cleaned \subseteq Ids
    /\ daemon \in {"down", "key", "up"}
    /\ certFile \in Cert \cup {NoFile} /\ keyFile \in {certFile, NoFile}
    /\ generated \in Cert \cup {0}
    /\ waiters \in [Job -> SUBSET Receiver] /\ pending \subseteq Job /\ closed \subseteq Receiver
    /\ \A j \in Job : Cardinality(waiters[j]) <= MaxWaitersPerJob
    /\ Cardinality(pending) <= MaxPendingJobs
    /\ handler \in [Client -> {"idle", "called", "waiting", "leaving"}]
    /\ conn \in [Client -> {"idle", "dial", "pin", "create", "write", "reread", "hello",
                            "asked", "ok", "err", "spent", "gone"}]
    /\ live \subseteq Client /\ offered \in [Client -> Cert \cup {NoFile}]
    /\ pin \in Cert \cup {NoFile, Empty} /\ accepted \subseteq Cert
    /\ pc \in [Client -> {"manifest", "notify", "signal", "done", "first", "firstStat",
                          "loop", "poll", "pollStat", "found", "failed"}]
    /\ fails \in [Receiver -> 0..MaxHardFails] /\ troubles \in 0..MaxTroubles

(* Whoever waits is registered or has been woken, and not both: the deferred
   removal of a waiter whose time is over takes no other off the list, though
   the list may have been taken by relayWake and begun anew since; nobody
   stays on it whose channel is closed, which the next relayWake would close
   again (a panic of the daemon); and nobody on it waits for a wakeup that has
   come before and is kept. *)
NoWaiterForgotten ==
    /\ \A r \in Receiver : handler[r] = "waiting" => r \in waiters[JobOf[r]] \cup closed
    /\ \A j \in Job : waiters[j] \cap closed = {}
    /\ \A j \in pending : \A r \in waiters[j] : handler[r] # "waiting"

(* waitForJob returns nil only for a job whose manifest is in the store,
   whatever wakeups came, those of other senders or left from earlier jobs.
   Only where a gc has been between the manifest and the marker that came after
   it, now or earlier, may a marker be found without one. *)
FoundIsPublished ==
    \A r \in Receiver : pc[r] = "found" =>
        store[JobOf[r]].manifest \/ JobOf[r] \in cleaned

(* The clients that check the pin have all accepted one certificate, also if
   several connect for the first time at once and the daemon is set up anew
   between them ("O_EXCL so concurrent first connects cannot race"). *)
OneCertificate == Cardinality(accepted) <= 1

(* While the manifest is in the store, a receiver finds the job or fails (for
   its limit of failed polls, its time or a kill), whatever becomes of the
   daemon and its wakeups. *)
FindsJob ==
    \A r \in Receiver :
        store[JobOf[r]].manifest /\ pc[r] = "loop"
            ~> pc[r] \in {"found", "failed"} \/ ~store[JobOf[r]].manifest

(* No wait at the daemon stays without an answer: it ends with a wakeup, the
   deadline or the connection. *)
WaitEnds == \A r \in Receiver : conn[r] = "asked" ~> conn[r] # "asked"
=============================================================================
