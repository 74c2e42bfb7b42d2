---------------------------- MODULE Wakeup_proofs ----------------------------
(***************************************************************************)
(* Proofs about Wakeup, for any clients, jobs and limits.                  *)
(***************************************************************************)
EXTENDS Wakeup, FiniteSetTheorems, TLAPS

ConnState == {"idle", "dial", "pin", "create", "write", "reread", "hello",
              "asked", "ok", "err", "spent", "gone"}
Checking  == {"pin", "create", "write", "reread"}
Place     == {"manifest", "notify", "signal", "done", "first", "firstStat",
              "loop", "poll", "pollStat", "found", "failed"}

Before    == {"idle", "dial", "hello"} \cup Checking
Early     == {"manifest", "notify", "first", "firstStat"}
HandlerState == {"idle", "called", "waiting", "leaving"}

(* The inductive invariant.  The daemon makes one certificate more than its
   directory was lost, and has one unless it is down; whoever checks a
   certificate has met one; a receiver that has not failed has polls left. *)
CertOK == /\ generated + (IF certFile = NoFile THEN 1 ELSE 0) <= troubles + 1
          /\ daemon # "down" => certFile # NoFile
          /\ \A c \in Client : conn[c] \in Checking => offered[c] \in Cert
PollsLeft == \A r \in Receiver : pc[r] # "failed" => fails[r] < MaxHardFails

(* What was accepted is the pin; as long as its creator has not written it, the
   pin is empty, and there is one creator. *)
PinOK == /\ accepted \subseteq {pin}
         /\ \A c \in Client : conn[c] = "write" => pin = Empty
         /\ \A c, d \in Client : conn[c] = "write" /\ conn[d] = "write" => c = d

(* A client has no session in the daemon before its one request, and does not
   dial before it is told to; so nobody comes back while still on a list. *)
Sessions == /\ \A c \in Client : pc[c] \in Early => conn[c] = "idle"
            /\ \A c \in Client : conn[c] \in Before => handler[c] = "idle"

(* On a list, or with its channel closed, is only who waits or leaves; a
   receiver waits for its own job. *)
Registered ==
    /\ \A r \in closed : handler[r] \in {"waiting", "leaving"}
    /\ \A j \in Job : \A r \in waiters[j] : JobOf[r] = j /\ handler[r] \in {"waiting", "leaving"}

\* Every run of gc is one of the troubles.
GcCounts == \A j \in Ids : gc[j] <= troubles

\* The parts of NoWaiterForgotten: of those who wait, and of the wakeups kept.
OnOneList ==
    /\ \A r \in Receiver : handler[r] = "waiting" => r \in waiters[JobOf[r]] \cup closed
    /\ \A j \in Job : waiters[j] \cap closed = {}
NoWakeupPassedOver ==
    \A j \in Job : j \in pending => \A r \in waiters[j] : handler[r] # "waiting"

Registry == Registered /\ NoWakeupPassedOver /\ OnOneList

IInv == TypeOK /\ CertOK /\ PollsLeft /\ PinOK /\ Sessions /\ GcCounts /\ Registry
-----------------------------------------------------------------------------
(* The values for "none" and "empty" are no certificates. *)
LEMMA CertFacts == /\ NoFile \notin Cert /\ Empty \notin Cert /\ NoFile # Empty
                   /\ 1 \in Cert /\ Cert \subseteq Nat /\ MaxTroubles \in Nat
  BY WakeupAssumption DEF Cert

(* The ids of the store are the clients' jobs. *)
LEMMA IdFacts == Ids \subseteq Job /\ \A c \in Client : JobOf[c] \in Ids /\ JobOf[c] \in Job
  BY WakeupAssumption DEF Ids

(* The initial states satisfy the invariant. *)
LEMMA InitInv == Init => IInv
  <1> SUFFICES ASSUME Init PROVE IInv
    OBVIOUS
  <1>1. \A j \in Job : Cardinality(waiters[j]) <= MaxWaitersPerJob
    BY FS_EmptySet, WakeupAssumption DEF Init
  <1>2. TypeOK
    <2>1. store \in [Ids -> Files] /\ gc \in [Ids -> 0..MaxTroubles] /\ cleaned \subseteq Ids
      BY CertFacts, WakeupAssumption DEF Init
    <2> QED
      BY <1>1, <2>1, CertFacts, WakeupAssumption DEF Init, TypeOK, Client
  <1>3. CertOK
    BY CertFacts DEF Init, CertOK, Checking
  <1>4. PollsLeft
    BY WakeupAssumption DEF Init, PollsLeft, Client
  <1>5. PinOK /\ GcCounts
    BY DEF Init, PinOK, GcCounts
  <1>6. Sessions
    BY DEF Init, Sessions, Before
  <1>7. Registry
    BY DEF Init, Registry, Registered, NoWakeupPassedOver, OnOneList, Client
  <1> QED
    BY <1>2, <1>3, <1>4, <1>5, <1>6, <1>7 DEF IInv

(* A trouble stays within its bound. *)
LEMMA TroubleCounts ==
  ASSUME TypeOK, Trouble \/ troubles' = troubles
  PROVE  /\ troubles' \in 0..MaxTroubles
         /\ troubles' \in {troubles, troubles + 1}
  BY CertFacts DEF TypeOK, Trouble
-----------------------------------------------------------------------------
(* Serve and its certificate keep the invariant: a new certificate has a
   number that no earlier one had. *)
LEMMA ServeKeeps ==
  ASSUME IInv, Load \/ Generate \/ WriteKey \/ Stop
  PROVE  IInv'
  <1> USE DEF IInv, mid, registry, identity, dialing
  <1>1. CASE Load
    <2>1. TypeOK'
      BY <1>1 DEF Load, TypeOK
    <2>2. CertOK'
      BY <1>1 DEF Load, CertOK
    <2>3. PollsLeft' /\ PinOK' /\ Sessions' /\ GcCounts' /\ Registry'
      BY <1>1 DEF Load, PollsLeft, PinOK, Sessions, GcCounts, Registry, Registered,
         NoWakeupPassedOver, OnOneList
    <2> QED
      BY <2>1, <2>2, <2>3
  <1>2. CASE Generate
    <2>1. generated + 1 \in Cert
      BY <1>2, CertFacts DEF Generate, CertOK, TypeOK, Cert
    <2>2. TypeOK'
      BY <1>2, <2>1 DEF Generate, TypeOK
    <2>3. CertOK'
      BY <1>2, <2>1, CertFacts DEF Generate, CertOK, TypeOK
    <2>4. PollsLeft' /\ PinOK' /\ Sessions' /\ GcCounts' /\ Registry'
      BY <1>2 DEF Generate, PollsLeft, PinOK, Sessions, GcCounts, Registry, Registered,
         NoWakeupPassedOver, OnOneList
    <2> QED
      BY <2>2, <2>3, <2>4
  <1>3. CASE WriteKey
    <2>1. TypeOK'
      BY <1>3 DEF WriteKey, TypeOK
    <2>2. CertOK'
      BY <1>3 DEF WriteKey, CertOK
    <2>3. PollsLeft' /\ PinOK' /\ Sessions' /\ GcCounts' /\ Registry'
      BY <1>3 DEF WriteKey, PollsLeft, PinOK, Sessions, GcCounts, Registry, Registered,
         NoWakeupPassedOver, OnOneList
    <2> QED
      BY <2>1, <2>2, <2>3
  <1>4. CASE Stop
    <2>1. troubles' \in 0..MaxTroubles /\ troubles' = troubles + 1
      BY <1>4, TroubleCounts DEF Stop, Trouble
    <2>2. Cardinality({}) <= MaxWaitersPerJob /\ Cardinality({}) <= MaxPendingJobs
      BY FS_EmptySet, WakeupAssumption
    <2>3. waiters' = [j \in Job |-> {}] /\ pending' = {} /\ closed' = {}
      BY <1>4 DEF Stop
    <2>4. /\ waiters' \in [Job -> SUBSET Receiver]
          /\ \A j \in Job : Cardinality(waiters'[j]) <= MaxWaitersPerJob
      BY <2>2, <2>3
    <2>5. /\ certFile' \in {certFile, NoFile} /\ keyFile' \in {certFile', NoFile}
          /\ generated' = generated
      BY <1>4 DEF Stop, TypeOK
    <2>6. TypeOK'
      BY <1>4, <2>1, <2>2, <2>3, <2>4, <2>5 DEF Stop, TypeOK
    <2>7. CertOK'
      BY <1>4, <2>1, <2>5, CertFacts DEF Stop, CertOK, TypeOK
    <2>8. PollsLeft' /\ PinOK'
      BY <1>4 DEF Stop, PollsLeft, PinOK
    <2>9. handler' = [c \in Client |-> "idle"] /\ UNCHANGED <<gc, conn, pc>>
      BY <1>4 DEF Stop
    <2>10. Registry'
      BY <2>3, <2>9 DEF Registry, Registered, NoWakeupPassedOver, OnOneList, Client
    <2>11. Sessions'
      BY <2>9 DEF Sessions
    <2>12. GcCounts'
      <3>1. \A j \in Ids : gc[j] \in Nat /\ gc[j] <= troubles
        BY DEF TypeOK, GcCounts
      <3>2. troubles \in Nat
        BY DEF TypeOK
      <3> QED
        BY <2>1, <2>9, <3>1, <3>2 DEF GcCounts
    <2> QED
      BY <2>6, <2>7, <2>8, <2>10, <2>11, <2>12
  <1> QED
    BY <1>1, <1>2, <1>3, <1>4
-----------------------------------------------------------------------------
(* Where no gc moves, the count of runs stays within the troubles. *)
LEMMA GcStays ==
  ASSUME TypeOK, GcCounts, UNCHANGED gc, troubles' \in {troubles, troubles + 1}
  PROVE  GcCounts'
  <1>1. \A j \in Ids : gc[j] \in Nat /\ gc[j] <= troubles
    BY DEF TypeOK, GcCounts
  <1>2. troubles \in Nat
    BY DEF TypeOK
  <1> QED
    BY <1>1, <1>2 DEF GcCounts

(* A client's call keeps the invariant if it keeps its own part of it: what it
   leaves alone is the daemon's certificate, the registry and the polls. *)
LEMMA CallFrame ==
  ASSUME IInv, Trouble \/ troubles' = troubles,
         UNCHANGED <<mid, daemon, identity, registry, pc, fails>>,
         handler' \in [Client -> HandlerState],
         \A c \in Client : \/ handler'[c] = handler[c]
                           \/ handler[c] = "idle" /\ handler'[c] = "called" /\ conn'[c] \notin Before,
         \A c \in Client : /\ conn'[c] \in Before => conn[c] \in Before
                           /\ conn[c] = "idle" => conn'[c] = "idle",
         conn' \in [Client -> ConnState], live' \subseteq Client,
         offered' \in [Client -> Cert \cup {NoFile}],
         pin' \in Cert \cup {NoFile, Empty}, accepted' \subseteq Cert,
         \A c \in Client : conn'[c] \in Checking => offered'[c] \in Cert,
         PinOK'
  PROVE  IInv'
  <1> USE DEF IInv, mid, registry, identity
  <1>1. troubles' \in 0..MaxTroubles /\ troubles' \in {troubles, troubles + 1}
    BY TroubleCounts
  <1>2. TypeOK'
    BY <1>1 DEF TypeOK, ConnState, HandlerState
  <1>3. CertOK'
    <2>1. generated \in Nat /\ troubles \in Nat
      <3>1. generated \in Cert \cup {0} /\ troubles \in 0..MaxTroubles
        BY DEF TypeOK
      <3> QED
        BY <3>1, CertFacts
    <2>2. generated + (IF certFile = NoFile THEN 1 ELSE 0) <= troubles + 1
      BY DEF CertOK
    <2>3. troubles' = troubles \/ troubles' = troubles + 1
      BY <1>1
    <2>4. generated' + (IF certFile' = NoFile THEN 1 ELSE 0) <= troubles' + 1
      BY <2>1, <2>2, <2>3
    <2>5. daemon' # "down" => certFile' # NoFile
      BY DEF CertOK
    <2> QED
      BY <2>4, <2>5 DEF CertOK
  <1>4. PollsLeft'
    BY DEF PollsLeft
  <1>5. Registry'
    <2>1. Receiver \subseteq Client /\ closed \subseteq Client /\ \A j \in Job : waiters[j] \subseteq Client
      BY DEF TypeOK, Client
    <2>2. /\ \A r \in Client : handler'[r] = "waiting" <=> handler[r] = "waiting"
          /\ \A r \in Client : handler[r] \in {"waiting", "leaving"} => handler'[r] = handler[r]
      OBVIOUS
    <2>3. Registered'
      BY <2>1, <2>2 DEF Registry, Registered
    <2>4. NoWakeupPassedOver' /\ OnOneList'
      BY <2>1, <2>2 DEF Registry, NoWakeupPassedOver, OnOneList
    <2> QED
      BY <2>3, <2>4 DEF Registry
  <1>6. Sessions'
    BY DEF Sessions
  <1>7. GcCounts'
    BY <1>1, GcStays
  <1> QED
    BY <1>2, <1>3, <1>4, <1>5, <1>6, <1>7
-----------------------------------------------------------------------------
(* A step of the call that leaves the pin alone, and in which nobody creates
   it, keeps what is known of the pin. *)
LEMMA PinFrame ==
  ASSUME PinOK, UNCHANGED <<pin, accepted>>,
         \A c \in Client : conn'[c] = "write" => conn[c] = "write"
  PROVE  PinOK'
  BY DEF PinOK

(* Dialing gives the client the daemon's certificate, or an error. *)
LEMMA DialKeeps == ASSUME IInv, NEW c \in Client, Dial(c) PROVE IInv'
  <1>1. certFile \in Cert \/ daemon # "up"
    BY DEF IInv, TypeOK, CertOK
  <1>2. /\ UNCHANGED <<mid, daemon, identity, registry, handler, pin, accepted, pc, fails, troubles>>
        /\ conn' \in [Client -> ConnState] /\ live' \subseteq Client
        /\ offered' \in [Client -> Cert \cup {NoFile}]
        /\ \A d \in Client : conn'[d] = "write" => conn[d] = "write"
    BY <1>1 DEF Dial, Becomes, IInv, TypeOK, ConnState
  <1>5. \A d \in Client : /\ conn'[d] \in Before => conn[d] \in Before
                          /\ conn[d] = "idle" => conn'[d] = "idle"
    BY DEF Dial, Becomes, IInv, TypeOK, Before
  <1>3. \A d \in Client : conn'[d] \in Checking => offered'[d] \in Cert
    BY <1>1 DEF Dial, Becomes, IInv, TypeOK, CertOK, Checking
  <1>4. PinOK'
    BY <1>2, PinFrame DEF IInv
  <1> QED
    BY <1>2, <1>3, <1>4, <1>5, CallFrame DEF IInv, TypeOK, HandlerState

(* The first look at the pin accepts the certificate only if it is the pin. *)
LEMMA ReadPinKeeps == ASSUME IInv, NEW c \in Client, ReadPin(c) PROVE IInv'
  <1>1. /\ UNCHANGED <<mid, daemon, identity, registry, handler, live, offered, pin, pc, fails>>
        /\ Trouble \/ troubles' = troubles
    BY DEF ReadPin
  <1>2. offered[c] \in Cert
    BY DEF ReadPin, IInv, CertOK, Checking
  <1>3. /\ conn' \in [Client -> ConnState]
        /\ \A d \in Client : conn'[d] = "write" => conn[d] = "write"
        /\ \A d \in Client : conn'[d] \in Checking => conn[d] \in Checking
    BY DEF ReadPin, Passes, Becomes, IInv, TypeOK, ConnState, Checking
  <1>4. \/ accepted' = accepted
        \/ accepted' = accepted \cup {offered[c]} /\ pin = offered[c]
    BY DEF ReadPin, Passes
  <1>5. PinOK'
    BY <1>1, <1>3, <1>4 DEF IInv, PinOK
  <1>6. accepted' \subseteq Cert
    BY <1>2, <1>4 DEF IInv, TypeOK
  <1>7. \A d \in Client : conn'[d] \in Checking => offered'[d] \in Cert
    BY <1>1, <1>3 DEF IInv, CertOK
  <1>8. \A d \in Client : /\ conn'[d] \in Before => conn[d] \in Before
                          /\ conn[d] = "idle" => conn'[d] = "idle"
    BY DEF ReadPin, Passes, Becomes, IInv, TypeOK, Before, Checking
  <1> QED
    BY <1>1, <1>3, <1>5, <1>6, <1>7, <1>8, CallFrame DEF IInv, TypeOK, HandlerState

(* The pin is created where there was none: nothing was accepted before. *)
LEMMA CreatePinKeeps == ASSUME IInv, NEW c \in Client, CreatePin(c) PROVE IInv'
  <1>1. UNCHANGED <<mid, daemon, identity, registry, handler, live, offered, accepted, pc, fails, troubles>>
    BY DEF CreatePin
  <1>2. /\ conn' \in [Client -> ConnState]
        /\ \A d \in Client : conn'[d] \in Checking => conn[d] \in Checking
    BY DEF CreatePin, Becomes, IInv, TypeOK, ConnState, Checking
  <1>3. pin' \in Cert \cup {NoFile, Empty}
    BY DEF CreatePin, IInv, TypeOK
  <1>4. PinOK'
    <2>1. CASE pin = NoFile /\ pin' = Empty /\ Becomes(c, "write")
      <3>1. accepted = {}
        BY <2>1, CertFacts DEF IInv, TypeOK, PinOK
      <3>2. \A d \in Client : conn[d] # "write"
        BY <2>1, CertFacts DEF IInv, PinOK
      <3>3. \A d \in Client : conn'[d] = "write" => d = c
        BY <2>1, <3>2 DEF Becomes, IInv, TypeOK
      <3> QED
        BY <1>1, <2>1, <3>1, <3>3 DEF PinOK
    <2>2. CASE pin' = pin /\ Becomes(c, "reread")
      <3>1. \A d \in Client : conn'[d] = "write" => conn[d] = "write"
        BY <2>2 DEF Becomes, IInv, TypeOK
      <3> QED
        BY <1>1, <2>2, <3>1, PinFrame DEF IInv
    <2> QED
      BY <2>1, <2>2 DEF CreatePin, Creates
  <1>5. \A d \in Client : conn'[d] \in Checking => offered'[d] \in Cert
    BY <1>1, <1>2 DEF IInv, CertOK
  <1>6. \A d \in Client : /\ conn'[d] \in Before => conn[d] \in Before
                          /\ conn[d] = "idle" => conn'[d] = "idle"
    BY DEF CreatePin, Becomes, IInv, TypeOK, Before, Checking
  <1> QED
    BY <1>1, <1>2, <1>3, <1>4, <1>5, <1>6, CallFrame DEF IInv, TypeOK, HandlerState

(* The one creator writes its certificate, and nothing was accepted before. *)
LEMMA WritePinKeeps == ASSUME IInv, NEW c \in Client, WritePin(c) PROVE IInv'
  <1>1. /\ UNCHANGED <<mid, daemon, identity, registry, handler, live, offered, pc, fails>>
        /\ Trouble \/ troubles' = troubles
    BY DEF WritePin
  <1>2. offered[c] \in Cert
    BY DEF WritePin, IInv, CertOK, Checking
  <1>3. /\ conn' \in [Client -> ConnState]
        /\ conn'[c] \notin Checking
        /\ \A d \in Client : d # c => conn'[d] = conn[d]
    BY DEF WritePin, Passes, Becomes, IInv, TypeOK, ConnState, Checking
  <1>4. \/ pin' \in {pin, offered[c]} /\ accepted' = accepted
        \/ pin' = offered[c] /\ accepted' = accepted \cup {offered[c]}
    BY DEF WritePin, Passes
  <1>5. accepted = {}
    <2>1. pin = Empty
      BY DEF WritePin, IInv, PinOK
    <2> QED
      BY <2>1, CertFacts DEF IInv, TypeOK, PinOK
  <1>6. \A d \in Client : conn'[d] # "write"
    BY <1>3 DEF WritePin, IInv, PinOK, Checking
  <1>7. PinOK'
    BY <1>4, <1>5, <1>6 DEF PinOK
  <1>8. pin' \in Cert \cup {NoFile, Empty} /\ accepted' \subseteq Cert
    BY <1>2, <1>4, <1>5 DEF IInv, TypeOK
  <1>9. \A d \in Client : conn'[d] \in Checking => offered'[d] \in Cert
    BY <1>1, <1>3 DEF IInv, CertOK
  <1>10. \A d \in Client : /\ conn'[d] \in Before => conn[d] \in Before
                           /\ conn[d] = "idle" => conn'[d] = "idle"
    BY DEF WritePin, Passes, Becomes, IInv, TypeOK, Before, Checking
  <1> QED
    BY <1>1, <1>3, <1>7, <1>8, <1>9, <1>10, CallFrame DEF IInv, TypeOK, HandlerState

(* Who lost the race accepts only what the winner has written. *)
LEMMA RereadPinKeeps == ASSUME IInv, NEW c \in Client, RereadPin(c) PROVE IInv'
  <1>1. UNCHANGED <<mid, daemon, identity, registry, handler, live, offered, pin, pc, fails, troubles>>
    BY DEF RereadPin
  <1>2. offered[c] \in Cert
    BY DEF RereadPin, IInv, CertOK, Checking
  <1>3. /\ conn' \in [Client -> ConnState]
        /\ \A d \in Client : conn'[d] = "write" => conn[d] = "write"
        /\ \A d \in Client : conn'[d] \in Checking => conn[d] \in Checking
    BY DEF RereadPin, Passes, Becomes, IInv, TypeOK, ConnState, Checking
  <1>4. \/ accepted' = accepted
        \/ accepted' = accepted \cup {offered[c]} /\ pin = offered[c]
    BY DEF RereadPin, Passes
  <1>5. PinOK'
    BY <1>1, <1>3, <1>4 DEF IInv, PinOK
  <1>6. accepted' \subseteq Cert
    BY <1>2, <1>4 DEF IInv, TypeOK
  <1>7. \A d \in Client : conn'[d] \in Checking => offered'[d] \in Cert
    BY <1>1, <1>3 DEF IInv, CertOK
  <1>8. \A d \in Client : /\ conn'[d] \in Before => conn[d] \in Before
                          /\ conn[d] = "idle" => conn'[d] = "idle"
    BY DEF RereadPin, Passes, Becomes, IInv, TypeOK, Before, Checking
  <1> QED
    BY <1>1, <1>3, <1>5, <1>6, <1>7, <1>8, CallFrame DEF IInv, TypeOK, HandlerState

(* The rest of a call, and its end, do not look at the pin. *)
LEMMA CallEndsKeep ==
  ASSUME IInv, NEW c \in Client, Hello(c) \/ Lost(c) \/ Break(c)
  PROVE  IInv'
  <1>1. /\ UNCHANGED <<mid, daemon, identity, registry, pin, accepted, pc, fails>>
        /\ Trouble \/ troubles' = troubles
    BY DEF Hello, Lost, Break, dialing
  <1>2. /\ handler' \in [Client -> HandlerState]
        /\ \A d \in Client : \/ handler'[d] = handler[d]
                             \/ handler[d] = "idle" /\ handler'[d] = "called" /\ conn'[d] \notin Before
    <2>1. conn[c] = "hello" => handler[c] = "idle"
      BY DEF IInv, Sessions, Before
    <2>2. handler' = handler \/ /\ handler' = [handler EXCEPT ![c] = "called"]
                                /\ conn[c] = "hello" /\ conn'[c] = "asked"
      BY DEF Hello, Lost, Break, Becomes, IInv, TypeOK
    <2> QED
      BY <2>1, <2>2 DEF IInv, TypeOK, HandlerState, Before, Checking
  <1>3. /\ conn' \in [Client -> ConnState]
        /\ conn'[c] \notin Checking \/ conn'[c] = conn[c]
        /\ \A d \in Client : d # c => conn'[d] = conn[d]
    BY DEF Hello, Lost, Break, Becomes, IInv, TypeOK, ConnState, Checking
  <1>4. live' \subseteq Client
    BY DEF Hello, Lost, Break, IInv, TypeOK
  <1>5. /\ offered' \in [Client -> Cert \cup {NoFile}]
        /\ offered' = offered \/ (conn'[c] \notin Checking
                                  /\ \A d \in Client : d # c => offered'[d] = offered[d])
    BY DEF Hello, Lost, Break, Becomes, dialing, IInv, TypeOK, Checking
  <1>6. PinOK'
    BY <1>1, <1>3, PinFrame DEF IInv, Checking
  <1>7. \A d \in Client : conn'[d] \in Checking => offered'[d] \in Cert
    BY <1>3, <1>5 DEF IInv, CertOK
  <1>8. \A d \in Client : /\ conn'[d] \in Before => conn[d] \in Before
                          /\ conn[d] = "idle" => conn'[d] = "idle"
    BY DEF Hello, Lost, Break, Becomes, dialing, IInv, TypeOK, Before, Checking
  <1> QED
    BY <1>1, <1>2, <1>3, <1>4, <1>5, <1>6, <1>7, <1>8, CallFrame DEF IInv, TypeOK, HandlerState
-----------------------------------------------------------------------------
(* A step in the registry keeps the invariant if it keeps the registry's own
   part of it; it ends calls, and begins no check of a pin. *)
LEMMA RegistryFrame ==
  ASSUME IInv, UNCHANGED <<mid, daemon, identity, dialing, pc, fails, troubles>>,
         handler' \in [Client -> HandlerState],
         conn' \in [Client -> ConnState], live' \subseteq Client,
         \A c \in Client : conn'[c] = conn[c] \/ (conn[c] = "asked" /\ conn'[c] \in {"ok", "err"}),
         \A c \in Client : handler[c] = "idle" => handler'[c] = "idle",
         waiters' \in [Job -> SUBSET Receiver], pending' \subseteq Job, closed' \subseteq Receiver,
         \A j \in Job : Cardinality(waiters'[j]) <= MaxWaitersPerJob,
         Cardinality(pending') <= MaxPendingJobs,
         Registry'
  PROVE  IInv'
  <1> USE DEF IInv, mid, identity, dialing
  <1>1. TypeOK'
    BY DEF TypeOK, ConnState, HandlerState
  <1>2. CertOK'
    BY DEF CertOK, Checking
  <1>3. PollsLeft'
    BY DEF PollsLeft
  <1>4. PinOK'
    <2>1. \A c \in Client : conn'[c] = "write" => conn[c] = "write"
      OBVIOUS
    <2> QED
      BY <2>1, PinFrame
  <1>5. Sessions' /\ GcCounts'
    BY DEF Sessions, GcCounts, Before, Checking
  <1> QED
    BY <1>1, <1>2, <1>3, <1>4, <1>5

(* An answer ends the session, and the client's call or nothing. *)
LEMMA AnswerEnds ==
  ASSUME TypeOK, NEW c \in Client, NEW result \in {"ok", "err"}, Answer(c, result)
  PROVE  /\ handler' \in [Client -> HandlerState]
         /\ handler' = [handler EXCEPT ![c] = "idle"]
         /\ conn' \in [Client -> ConnState] /\ live' \subseteq Client
         /\ \A d \in Client : conn'[d] = conn[d] \/ (conn[d] = "asked" /\ conn'[d] \in {"ok", "err"})
  <1>1. conn' = [conn EXCEPT ![c] = IF c \in live /\ conn[c] = "asked" THEN result ELSE conn[c]]
    BY DEF Answer
  <1>2. conn' \in [Client -> ConnState]
    BY <1>1 DEF TypeOK, ConnState
  <1>3. \A d \in Client : conn'[d] = conn[d] \/ (conn[d] = "asked" /\ conn'[d] \in {"ok", "err"})
    BY <1>1 DEF TypeOK
  <1>4. /\ handler' \in [Client -> HandlerState]
        /\ handler' = [handler EXCEPT ![c] = "idle"]
        /\ live' \subseteq Client
    BY DEF Answer, TypeOK, HandlerState
  <1> QED
    BY <1>2, <1>3, <1>4

(* The limits hold of finite sets; a smaller set stays within them. *)
LEMMA Limits ==
  ASSUME TypeOK
  PROVE  /\ \A j \in Job : \A W \in SUBSET waiters[j] : Cardinality(W) <= MaxWaitersPerJob
         /\ \A P \in SUBSET pending : Cardinality(P) <= MaxPendingJobs
         /\ IsFiniteSet(pending)
         /\ \A j \in Job : IsFiniteSet(waiters[j])
  <1>1. /\ IsFiniteSet(pending)
        /\ \A j \in Job : IsFiniteSet(waiters[j])
    BY FS_Subset, WakeupAssumption DEF TypeOK
  <1>2. ASSUME NEW j \in Job, NEW W \in SUBSET waiters[j]
        PROVE  Cardinality(W) <= MaxWaitersPerJob
    <2>1. Cardinality(W) <= Cardinality(waiters[j]) /\ IsFiniteSet(W)
      BY <1>1, FS_Subset
    <2>2. Cardinality(W) \in Nat /\ Cardinality(waiters[j]) \in Nat
      BY <1>1, <2>1, FS_CardinalityType
    <2> QED
      BY <2>1, <2>2, WakeupAssumption DEF TypeOK
  <1>3. ASSUME NEW P \in SUBSET pending
        PROVE  Cardinality(P) <= MaxPendingJobs
    <2>1. Cardinality(P) <= Cardinality(pending) /\ IsFiniteSet(P)
      BY <1>1, FS_Subset
    <2>2. Cardinality(P) \in Nat /\ Cardinality(pending) \in Nat
      BY <1>1, <2>1, FS_CardinalityType
    <2> QED
      BY <2>1, <2>2, WakeupAssumption DEF TypeOK
  <1> QED
    BY <1>1, <1>2, <1>3

(* A wakeup empties the list of its job, or is kept for it when the list is
   empty and there is room. *)
LEMMA RelayWakeKeeps == ASSUME IInv, NEW c \in Client, RelayWake(c) PROVE IInv'
  <1> DEFINE j == JobOf[c]
  <1>1. /\ j \in Job /\ TypeOK /\ Registered /\ NoWakeupPassedOver /\ OnOneList
        /\ c \notin Receiver /\ Receiver \subseteq Client
    BY WakeupAssumption DEF IInv, Registry, RelayWake, Client
  <1>2. Answer(c, "ok") /\ UNCHANGED <<mid, daemon, identity, dialing, pc, fails, troubles>>
    BY DEF RelayWake
  <1>3. /\ handler' \in [Client -> HandlerState]
        /\ handler' = [handler EXCEPT ![c] = "idle"]
        /\ conn' \in [Client -> ConnState] /\ live' \subseteq Client
        /\ \A d \in Client : conn'[d] = conn[d] \/ (conn[d] = "asked" /\ conn'[d] \in {"ok", "err"})
    BY <1>1, <1>2, AnswerEnds
  <1>4. /\ waiters' \in [Job -> SUBSET Receiver] /\ pending' \subseteq Job
        /\ closed' \subseteq Receiver
        /\ \A k \in Job : waiters'[k] \subseteq waiters[k]
        /\ \A k \in pending' : k \in pending \/ waiters[k] = {}
    BY <1>1 DEF RelayWake, TypeOK
  <1>5. \A k \in Job : Cardinality(waiters'[k]) <= MaxWaitersPerJob
    BY <1>1, <1>4, Limits
  <1>6. Cardinality(pending') <= MaxPendingJobs
    <2>1. CASE pending' \subseteq pending
      BY <1>1, <2>1, Limits
    <2>2. CASE pending' = pending \cup {j} /\ j \notin pending /\ Cardinality(pending) < MaxPendingJobs
      <3>1. IsFiniteSet(pending) /\ Cardinality(pending) \in Nat
        BY <1>1, Limits, FS_CardinalityType
      <3>2. Cardinality(pending') = Cardinality(pending) + 1
        BY <2>2, <3>1, FS_AddElement
      <3> QED
        BY <2>2, <3>1, <3>2, WakeupAssumption
    <2> QED
      BY <2>1, <2>2 DEF RelayWake
  <1>7. \A r \in Receiver : handler'[r] = handler[r]
    BY <1>1, <1>3 DEF TypeOK
  <1>8. Registry'
    <2>1. /\ closed' \subseteq closed \cup waiters[j] /\ waiters[j] \subseteq Receiver
          /\ closed \subseteq Receiver
      BY <1>1 DEF RelayWake, TypeOK
    <2>2. Registered'
      BY <1>1, <1>4, <1>7, <2>1 DEF Registered, TypeOK
    <2>3. NoWakeupPassedOver'
      BY <1>1, <1>4, <1>7 DEF NoWakeupPassedOver, TypeOK
    <2>4. OnOneList'
      <3>1. CASE waiters' = waiters /\ closed' = closed
        BY <1>7, <3>1, <1>1 DEF OnOneList
      <3>2. CASE waiters' = [waiters EXCEPT ![j] = {}] /\ closed' = closed \cup waiters[j]
        <4>1. waiters'[j] = {} /\ \A k \in Job : k # j => waiters'[k] = waiters[k]
          BY <1>1, <3>2 DEF TypeOK
        <4>2. \A k \in Job : k # j => waiters[k] \cap waiters[j] = {}
          BY <1>1 DEF Registered
        <4>3. \A k \in Job : waiters'[k] \cap closed' = {}
          BY <1>1, <3>2, <4>1, <4>2 DEF OnOneList
        <4>4. \A r \in Receiver : handler'[r] = "waiting" => r \in waiters'[JobOf[r]] \cup closed'
          BY <1>1, <1>7, <3>2, <4>1, IdFacts DEF OnOneList
        <4> QED
          BY <4>3, <4>4 DEF OnOneList
      <3> QED
        BY <3>1, <3>2 DEF RelayWake
    <2> QED
      BY <2>2, <2>3, <2>4 DEF Registry
  <1>9. \A d \in Client : handler[d] = "idle" => handler'[d] = "idle"
    BY <1>1, <1>3 DEF TypeOK
  <1> QED
    BY <1>2, <1>3, <1>4, <1>5, <1>6, <1>8, <1>9, RegistryFrame

(* A receiver registers only when no wakeup is kept for its job, and there is
   room. *)
LEMMA RelayWaitJobKeeps == ASSUME IInv, NEW c \in Client, RelayWaitJob(c) PROVE IInv'
  <1> DEFINE j == JobOf[c]
  <1>1. /\ j \in Job /\ TypeOK /\ Registered /\ NoWakeupPassedOver /\ OnOneList
        /\ c \in Receiver /\ handler[c] = "called" /\ Receiver \subseteq Client
    BY WakeupAssumption DEF IInv, Registry, RelayWaitJob, Client
  <1>2. UNCHANGED <<mid, daemon, identity, closed, dialing, pc, fails, troubles>>
    BY DEF RelayWaitJob
  <1>3. c \notin closed /\ \A k \in Job : c \notin waiters[k]
    BY <1>1 DEF Registered
  <1>4. CASE /\ pending' \subseteq pending /\ UNCHANGED waiters
             /\ Answer(c, "ok") \/ Answer(c, "err")
    <2>1. /\ handler' \in [Client -> HandlerState]
          /\ handler' = [handler EXCEPT ![c] = "idle"]
          /\ conn' \in [Client -> ConnState] /\ live' \subseteq Client
          /\ \A d \in Client : conn'[d] = conn[d] \/ (conn[d] = "asked" /\ conn'[d] \in {"ok", "err"})
      BY <1>1, <1>4, AnswerEnds
    <2>2. /\ waiters' \in [Job -> SUBSET Receiver] /\ pending' \subseteq Job
          /\ closed' \subseteq Receiver
          /\ \A k \in Job : Cardinality(waiters'[k]) <= MaxWaitersPerJob
      BY <1>1, <1>2, <1>4 DEF TypeOK
    <2>3. Cardinality(pending') <= MaxPendingJobs
      BY <1>1, <1>4, Limits
    <2>4. /\ handler'[c] = "idle" /\ \A d \in Client : d # c => handler'[d] = handler[d]
      BY <1>1, <2>1 DEF TypeOK
    <2>5. Registry'
      <3>1. Registered'
        BY <1>1, <1>2, <1>3, <1>4, <2>4 DEF Registered, TypeOK
      <3>2. NoWakeupPassedOver'
        BY <1>1, <1>4, <2>4 DEF NoWakeupPassedOver, TypeOK
      <3>3. OnOneList'
        BY <1>1, <1>2, <1>4, <2>4 DEF OnOneList
      <3> QED
        BY <3>1, <3>2, <3>3 DEF Registry
    <2>6. \A d \in Client : handler[d] = "idle" => handler'[d] = "idle"
      BY <2>4
    <2> QED
      BY <1>2, <2>1, <2>2, <2>3, <2>5, <2>6, RegistryFrame
  <1>5. CASE /\ j \notin pending /\ HasRoom(j)
             /\ waiters' = [waiters EXCEPT ![j] = @ \cup {c}]
             /\ handler' = [handler EXCEPT ![c] = "waiting"]
             /\ UNCHANGED <<pending, conn, live>>
    <2>1. /\ handler' \in [Client -> HandlerState]
          /\ handler'[c] = "waiting" /\ \A d \in Client : d # c => handler'[d] = handler[d]
          /\ conn' \in [Client -> ConnState] /\ live' \subseteq Client
      BY <1>1, <1>5 DEF TypeOK, ConnState, HandlerState
    <2>2. /\ waiters' \in [Job -> SUBSET Receiver]
          /\ waiters'[j] = waiters[j] \cup {c}
          /\ \A k \in Job : k # j => waiters'[k] = waiters[k]
      BY <1>1, <1>5 DEF TypeOK
    <2>3. \A k \in Job : Cardinality(waiters'[k]) <= MaxWaitersPerJob
      <3>1. IsFiniteSet(waiters[j]) /\ Cardinality(waiters[j]) \in Nat
        BY <1>1, Limits, FS_CardinalityType
      <3>2. Cardinality(waiters[j] \cup {c}) \in {Cardinality(waiters[j]), Cardinality(waiters[j]) + 1}
        BY <3>1, FS_AddElement
      <3>3. Cardinality(waiters'[j]) <= MaxWaitersPerJob
        BY <1>5, <2>2, <3>1, <3>2, WakeupAssumption DEF HasRoom
      <3> QED
        BY <1>1, <2>2, <3>3 DEF TypeOK
    <2>4. Registered'
      BY <1>1, <1>2, <2>1, <2>2 DEF Registered, TypeOK
    <2>5. NoWakeupPassedOver'
      <3>1. ASSUME NEW k \in Job, k \in pending', NEW r \in waiters'[k], handler'[r] = "waiting"
            PROVE  FALSE
        <4>1. k # j /\ k \in pending
          BY <1>5, <3>1
        <4>2. r \in waiters[k] /\ r \in Client /\ JobOf[r] = k
          BY <1>1, <2>2, <3>1, <4>1 DEF Registered, TypeOK
        <4>3. r # c /\ handler[r] = "waiting"
          BY <2>1, <3>1, <4>1, <4>2
        <4> QED
          BY <1>1, <4>1, <4>2, <4>3 DEF NoWakeupPassedOver
      <3> QED
        BY <3>1 DEF NoWakeupPassedOver
    <2>6. OnOneList'
      <3>1. \A k \in Job : waiters'[k] \cap closed' = {}
        BY <1>1, <1>2, <1>3, <2>2 DEF OnOneList
      <3>2. \A r \in Receiver : handler'[r] = "waiting" => r \in waiters'[JobOf[r]] \cup closed'
        BY <1>1, <1>2, <2>1, <2>2, IdFacts DEF OnOneList
      <3> QED
        BY <3>1, <3>2 DEF OnOneList
    <2>7. /\ pending' \subseteq Job /\ closed' \subseteq Receiver
          /\ Cardinality(pending') <= MaxPendingJobs
          /\ \A d \in Client : conn'[d] = conn[d]
          /\ \A d \in Client : handler[d] = "idle" => handler'[d] = "idle"
      BY <1>1, <1>2, <1>5, <2>1 DEF TypeOK
    <2> QED
      BY <1>2, <2>1, <2>2, <2>3, <2>4, <2>5, <2>6, <2>7, RegistryFrame DEF Registry
  <1> QED
    BY <1>4, <1>5 DEF RelayWaitJob, TakesPending

(* The end of a wait only takes the one who leaves out of the registry. *)
LEMMA WaitEndsKeep ==
  ASSUME IInv, NEW c \in Client, Woken(c) \/ Deadline(c) \/ Leave(c)
  PROVE  IInv'
  <1>1. /\ TypeOK /\ Registered /\ NoWakeupPassedOver /\ OnOneList
        /\ JobOf[c] \in Job /\ Receiver \subseteq Client
    BY WakeupAssumption DEF IInv, Registry, Client
  <1>2. UNCHANGED <<mid, daemon, identity, pending, dialing, pc, fails, troubles>>
    BY DEF Woken, Deadline, Leave, registry
  <1>3. /\ handler' \in [Client -> HandlerState]
        /\ handler' = [handler EXCEPT ![c] = "idle"] \/ Deadline(c)
        /\ conn' \in [Client -> ConnState] /\ live' \subseteq Client
        /\ \A d \in Client : conn'[d] = conn[d] \/ (conn[d] = "asked" /\ conn'[d] \in {"ok", "err"})
    <2>1. CASE Deadline(c)
      BY <1>1, <2>1 DEF Deadline, TypeOK, ConnState, HandlerState
    <2>2. CASE Woken(c) \/ Leave(c)
      <3>1. Answer(c, "ok") \/ Answer(c, "err")
        BY <2>2 DEF Woken, Leave
      <3> QED
        BY <1>1, <3>1, AnswerEnds
    <2> QED
      BY <2>1, <2>2
  <1>4. /\ waiters' \in [Job -> SUBSET Receiver] /\ closed' \subseteq closed
        /\ \A k \in Job : waiters'[k] \subseteq waiters[k] /\ waiters[k] \subseteq waiters'[k] \cup {c}
        /\ closed \subseteq closed' \cup {c}
    <2>1. \/ waiters' = waiters
          \/ waiters' = [waiters EXCEPT ![JobOf[c]] = @ \ {c}]
      BY DEF Woken, Deadline, Leave, RemovedBy, registry
    <2>2. closed' = closed \/ closed' = closed \ {c}
      BY DEF Woken, Deadline, Leave, registry
    <2> QED
      BY <1>1, <2>1, <2>2 DEF TypeOK
  <1>5. \A k \in Job : Cardinality(waiters'[k]) <= MaxWaitersPerJob
    BY <1>1, <1>4, Limits
  <1>6. pending' \subseteq Job /\ Cardinality(pending') <= MaxPendingJobs /\ closed' \subseteq Receiver
    BY <1>1, <1>2, <1>4 DEF TypeOK
  <1>7. /\ handler'[c] # "waiting" /\ handler[c] # "idle"
        /\ \A d \in Client : d # c => handler'[d] = handler[d]
    BY <1>1, <1>3 DEF Deadline, Woken, Leave, TypeOK
  <1>8. \/ handler'[c] = "leaving"
        \/ c \notin closed' /\ \A k \in Job : c \notin waiters'[k]
    <2>1. CASE Deadline(c)
      BY <1>1, <2>1 DEF Deadline, TypeOK
    <2>2. CASE Woken(c)
      <3>1. c \in closed /\ closed' = closed \ {c} /\ waiters' = waiters
        BY <2>2 DEF Woken
      <3> QED
        BY <1>1, <3>1 DEF OnOneList
    <2>3. CASE Leave(c)
      <3>1. closed' = closed \ {c} /\ waiters' = [waiters EXCEPT ![JobOf[c]] = @ \ {c}]
        BY <2>3 DEF Leave, RemovedBy
      <3>2. \A k \in Job : k # JobOf[c] => c \notin waiters[k]
        BY <1>1 DEF Registered
      <3> QED
        BY <1>1, <3>1, <3>2 DEF TypeOK
    <2> QED
      BY <2>1, <2>2, <2>3
  <1>9. Registry'
    <2>1. Registered'
      BY <1>1, <1>4, <1>7, <1>8 DEF Registered, TypeOK
    <2>2. NoWakeupPassedOver'
      BY <1>1, <1>2, <1>4, <1>7 DEF NoWakeupPassedOver, TypeOK
    <2>3. OnOneList'
      <3>1. \A k \in Job : waiters'[k] \cap closed' = {}
        BY <1>1, <1>4 DEF OnOneList
      <3>2. \A r \in Receiver : handler'[r] = "waiting" => r \in waiters'[JobOf[r]] \cup closed'
        BY <1>1, <1>4, <1>7, IdFacts DEF OnOneList
      <3> QED
        BY <3>1, <3>2 DEF OnOneList
    <2> QED
      BY <2>1, <2>2, <2>3 DEF Registry
  <1>10. \A d \in Client : handler[d] = "idle" => handler'[d] = "idle"
    BY <1>7
  <1> QED
    BY <1>2, <1>3, <1>4, <1>5, <1>6, <1>9, <1>10, RegistryFrame
-----------------------------------------------------------------------------
(* A step of Send's end, of waitForJob or of the store, and the end of a
   process, leave the daemon and the pin alone, and check no certificate. *)
LEMMA PollFrame ==
  ASSUME IInv, Trouble \/ troubles' = troubles,
         UNCHANGED <<daemon, identity, registry, handler, pin, accepted>>,
         store' \in [Ids -> Files], gc' \in [Ids -> 0..MaxTroubles], cleaned' \subseteq Ids,
         conn' \in [Client -> ConnState], live' \subseteq Client,
         offered' \in [Client -> Cert \cup {NoFile}],
         \A c \in Client : conn'[c] \in Checking => conn'[c] = conn[c] /\ offered'[c] = offered[c],
         pc' \in [Client -> Place], fails' \in [Receiver -> 0..MaxHardFails],
         PollsLeft', Sessions', GcCounts'
  PROVE  IInv'
  <1> USE DEF IInv, identity, registry
  <1>1. troubles' \in 0..MaxTroubles /\ troubles' \in {troubles, troubles + 1}
    BY TroubleCounts
  <1>2. TypeOK'
    BY <1>1 DEF TypeOK, ConnState, Place
  <1>3. CertOK'
    <2>1. generated \in Nat /\ troubles \in Nat
      <3>1. generated \in Cert \cup {0} /\ troubles \in 0..MaxTroubles
        BY DEF TypeOK
      <3> QED
        BY <3>1, CertFacts
    <2>2. generated + (IF certFile = NoFile THEN 1 ELSE 0) <= troubles + 1
      BY DEF CertOK
    <2>3. troubles' = troubles \/ troubles' = troubles + 1
      BY <1>1
    <2>4. generated' + (IF certFile' = NoFile THEN 1 ELSE 0) <= troubles' + 1
      BY <2>1, <2>2, <2>3
    <2>5. /\ daemon' # "down" => certFile' # NoFile
          /\ \A c \in Client : conn'[c] \in Checking => offered'[c] \in Cert
      BY DEF CertOK
    <2> QED
      BY <2>4, <2>5 DEF CertOK
  <1>4. PinOK'
    <2>1. \A c \in Client : conn'[c] = "write" => conn[c] = "write"
      BY DEF Checking
    <2> QED
      BY <2>1, PinFrame
  <1>5. Registry'
    BY DEF Registry, Registered, NoWakeupPassedOver, OnOneList
  <1> QED
    BY <1>2, <1>3, <1>4, <1>5

(* Publishing, notifying, and the store's own trouble. *)
LEMMA SenderKeeps ==
  ASSUME IInv, NEW s \in Client, PutManifest(s) \/ PutNotify(s) \/ Signaled(s)
  PROVE  IInv'
  <1>1. /\ UNCHANGED <<gc, cleaned, daemon, identity, registry, handler, live, dialing, fails, troubles>>
        /\ JobOf[s] \in Ids /\ TypeOK /\ PollsLeft /\ Sessions /\ GcCounts
    BY IdFacts DEF PutManifest, PutNotify, Signaled, IInv, mid
  <1>2. store' \in [Ids -> Files]
    <2>1. store \in [Ids -> Files]
      BY <1>1 DEF TypeOK
    <2>2. \/ store' = store
          \/ store' = [store EXCEPT ![JobOf[s]].manifest = TRUE]
          \/ store' = [store EXCEPT ![JobOf[s]].notify = "good"]
      BY DEF PutManifest, PutNotify, Signaled, mid
    <2> QED
      BY ONLY <1>1, <2>1, <2>2 DEF Files
  <1>3. /\ conn' \in [Client -> ConnState]
        /\ \A c \in Client : conn'[c] \in Checking => conn'[c] = conn[c]
    BY <1>1 DEF PutManifest, PutNotify, Signaled, Becomes, TypeOK, ConnState, Checking
  <1>4. pc' \in [Client -> Place]
    BY <1>1 DEF PutManifest, PutNotify, Signaled, Goto, TypeOK, Place
  <1>5. PollsLeft'
    <2>1. \A c \in Client : pc'[c] # "failed" => pc[c] # "failed"
      BY <1>1 DEF PutManifest, PutNotify, Signaled, Goto, TypeOK
    <2> QED
      BY <1>1, <2>1 DEF PollsLeft, Client
  <1>6. Sessions'
    <2>1. \A c \in Client : pc'[c] \in Early => pc[c] \in Early /\ conn'[c] = conn[c]
      BY <1>1 DEF PutManifest, PutNotify, Signaled, Goto, Becomes, TypeOK, Early
    <2>2. \A c \in Client : conn'[c] \in Before => conn[c] \in Before
      BY <1>1 DEF PutManifest, PutNotify, Signaled, Becomes, TypeOK, Sessions, Early, Before
    <2> QED
      BY <1>1, <2>1, <2>2 DEF Sessions
  <1>7. GcCounts'
    BY <1>1 DEF GcCounts
  <1> QED
    BY <1>1, <1>2, <1>3, <1>4, <1>5, <1>6, <1>7, PollFrame DEF TypeOK, dialing

(* The store's own trouble, and the steps of gc. *)
LEMMA StoreKeeps ==
  ASSUME IInv, NEW j \in Ids, Corrupt(j) \/ GcManifest(j) \/ GcNotify(j)
  PROVE  IInv'
  <1>1. /\ UNCHANGED <<daemon, identity, registry, handler, conn, live, dialing, pc, fails>>
        /\ Trouble \/ troubles' = troubles
        /\ TypeOK /\ PollsLeft /\ Sessions /\ GcCounts
    BY DEF Corrupt, GcManifest, GcNotify, IInv
  <1>2. store' \in [Ids -> Files]
    <2>1. store \in [Ids -> Files]
      BY <1>1 DEF TypeOK
    <2>2. \/ store' = store
          \/ store' = [store EXCEPT ![j].manifest = FALSE]
          \/ store' = [store EXCEPT ![j].notify = "bad"]
          \/ store' = [store EXCEPT ![j].notify = "none"]
      BY DEF Corrupt, GcManifest, GcNotify
    <2> QED
      BY ONLY <2>1, <2>2 DEF Files
  <1>3. cleaned' \subseteq Ids
    BY <1>1 DEF Corrupt, GcManifest, GcNotify, TypeOK
  <1>4. /\ troubles \in Nat /\ \A k \in Ids : gc[k] \in Nat /\ gc[k] <= troubles
        /\ troubles' \in 0..MaxTroubles /\ MaxTroubles \in Nat
    BY <1>1, TroubleCounts, CertFacts DEF TypeOK, GcCounts
  <1>5. gc' \in [Ids -> Nat] /\ \A k \in Ids : gc'[k] <= troubles'
    <2>1. CASE GcManifest(j)
      <3>1. gc' = [gc EXCEPT ![j] = gc[j] + 1] /\ troubles' = troubles + 1
        BY <2>1 DEF GcManifest, Trouble
      <3> QED
        BY <1>1, <1>4, <3>1 DEF TypeOK
    <2>2. CASE GcNotify(j)
      <3>1. gc' = [gc EXCEPT ![j] = gc[j] - 1] /\ gc[j] > 0 /\ troubles' = troubles
        BY <2>2 DEF GcNotify
      <3> QED
        BY <1>1, <1>4, <3>1 DEF TypeOK
    <2>3. CASE Corrupt(j)
      <3>1. gc' = gc /\ troubles' = troubles + 1
        BY <2>3 DEF Corrupt, Trouble
      <3> QED
        BY <1>1, <1>4, <3>1 DEF TypeOK
    <2> QED
      BY <2>1, <2>2, <2>3
  <1>6. gc' \in [Ids -> 0..MaxTroubles] /\ GcCounts'
    BY <1>4, <1>5 DEF GcCounts
  <1>7. PollsLeft' /\ Sessions'
    BY <1>1 DEF PollsLeft, Sessions
  <1>8. conn \in [Client -> ConnState] /\ pc \in [Client -> Place]
    BY <1>1 DEF TypeOK, ConnState, Place
  <1> QED
    BY <1>1, <1>2, <1>3, <1>6, <1>7, <1>8, PollFrame DEF TypeOK, dialing

(* A failed poll is counted, and the last one ends the receiver. *)
LEMMA PollFailsCounts ==
  ASSUME TypeOK, PollsLeft, NEW r \in Receiver, pc[r] # "failed", PollFails(r)
  PROVE  /\ pc' \in [Client -> Place] /\ fails' \in [Receiver -> 0..MaxHardFails]
         /\ PollsLeft'
  <1>1. r \in Client /\ fails[r] \in 0..MaxHardFails /\ fails[r] < MaxHardFails
    BY DEF TypeOK, PollsLeft, Client
  <1>2. MaxHardFails \in Nat
    BY WakeupAssumption
  <1>3. fails' = [fails EXCEPT ![r] = fails[r] + 1]
    BY DEF PollFails
  <1>4. fails[r] + 1 \in 0..MaxHardFails
    BY <1>1, <1>2
  <1>5. fails' \in [Receiver -> 0..MaxHardFails] /\ fails'[r] = fails[r] + 1
    BY <1>3, <1>4 DEF TypeOK
  <1>6. \/ pc' = [pc EXCEPT ![r] = "failed"]
        \/ pc' = [pc EXCEPT ![r] = "loop"] /\ ~(fails'[r] >= MaxHardFails)
    BY DEF PollFails, Goto
  <1>7. pc' \in [Client -> Place]
    BY <1>1, <1>6 DEF TypeOK, Place
  <1>8. ASSUME NEW q \in Receiver, pc'[q] # "failed"
        PROVE  fails'[q] < MaxHardFails
    <2>1. CASE q = r
      <3>1. ~(fails'[r] >= MaxHardFails)
        BY <1>1, <1>6, <1>8, <2>1 DEF TypeOK
      <3> QED
        BY <1>1, <1>2, <1>5, <2>1, <3>1
    <2>2. CASE q # r
      <3>1. q \in Client /\ fails'[q] = fails[q]
        BY <1>3, <2>2 DEF TypeOK, Client
      <3>2. pc[q] # "failed"
        BY <1>6, <1>8, <2>2, <3>1 DEF TypeOK
      <3> QED
        BY <3>1, <3>2 DEF PollsLeft
    <2> QED
      BY <2>1, <2>2
  <1> QED
    BY <1>5, <1>7, <1>8 DEF PollsLeft

(* A poll: found, another look, waiting again with no failures, or a failure. *)
LEMMA PollKeeps == ASSUME IInv, NEW r \in Receiver, Poll(r) PROVE IInv'
  <1>1. /\ UNCHANGED <<mid, daemon, identity, registry, handler, live, dialing>>
        /\ TypeOK /\ PollsLeft /\ Sessions /\ GcCounts /\ r \in Client /\ pc[r] # "failed"
    BY DEF Poll, ReadNotify, StatManifest, Ticks, IInv, Client
  <1>6. Sessions'
    <2>1. \A c \in Client : c # r => pc'[c] = pc[c] /\ conn'[c] = conn[c]
      BY <1>1 DEF Poll, ReadNotify, StatManifest, PollFails, StillWaits, Goto, Becomes, TypeOK
    <2>2. /\ pc'[r] \in Early => pc[r] \in Early /\ conn'[r] = conn[r]
          /\ conn'[r] = conn[r] \/ pc[r] \in Early
      BY <1>1 DEF Poll, ReadNotify, StatManifest, PollFails, StillWaits, Ticks, Goto, Becomes,
         TypeOK, Early
    <2> QED
      BY <1>1, <2>1, <2>2 DEF Sessions, Before
  <1>7. GcCounts'
    <2>1. troubles' \in {troubles, troubles + 1}
      BY <1>1, TroubleCounts DEF Poll, ReadNotify, StatManifest, PollFails
    <2> QED
      BY <1>1, <2>1, GcStays DEF mid
  <1>2. /\ conn' \in [Client -> ConnState]
        /\ \A c \in Client : conn'[c] \in Checking => conn'[c] = conn[c]
    <2>1. conn' = conn \/ conn' = [conn EXCEPT ![r] = "dial"]
      BY DEF Poll, ReadNotify, StatManifest, StillWaits, Becomes
    <2> QED
      BY <1>1, <2>1 DEF TypeOK, ConnState, Checking
  <1>3. CASE PollFails(r)
    <2>1. Trouble
      BY <1>3 DEF PollFails
    <2>2. /\ pc' \in [Client -> Place] /\ fails' \in [Receiver -> 0..MaxHardFails]
          /\ PollsLeft'
      BY <1>1, <1>3, PollFailsCounts
    <2> QED
      BY <1>1, <1>2, <1>6, <1>7, <2>1, <2>2, PollFrame DEF TypeOK, dialing, mid
  <1>4. CASE /\ troubles' = troubles
             /\ fails' = fails \/ fails' = [fails EXCEPT ![r] = 0]
             /\ \E label \in Place \ {"failed"} : Goto(r, label)
    <2>1. /\ pc' \in [Client -> Place]
          /\ \A q \in Client : q # r => pc'[q] = pc[q]
      BY <1>1, <1>4 DEF Goto, TypeOK, Place
    <2>2. /\ fails' \in [Receiver -> 0..MaxHardFails]
          /\ \A q \in Receiver : fails'[q] = fails[q] \/ fails'[q] = 0
          /\ \A q \in Receiver : q # r => fails'[q] = fails[q]
      BY <1>1, <1>4, WakeupAssumption DEF TypeOK
    <2>3. 0 < MaxHardFails
      BY WakeupAssumption
    <2>4. PollsLeft'
      BY <1>1, <2>1, <2>2, <2>3 DEF PollsLeft, Client
    <2> QED
      BY <1>1, <1>2, <1>4, <1>6, <1>7, <2>1, <2>2, <2>4, PollFrame DEF TypeOK, dialing, mid
  <1>5. QED
    <2>1. {"found", "firstStat", "pollStat", "loop"} \subseteq Place \ {"failed"}
      BY DEF Place
    <2>2. CASE ReadNotify(r)
      BY <1>3, <1>4, <2>1, <2>2 DEF ReadNotify
    <2>3. CASE StatManifest(r)
      BY <1>3, <1>4, <2>1, <2>3 DEF StatManifest, StillWaits
    <2> QED
      BY <2>2, <2>3 DEF Poll

(* The signal's result, the deadline of the wait, and the end of a process. *)
LEMMA EndingsKeep ==
  ASSUME IInv, NEW c \in Client,
         Exit(c) \/ (c \in Receiver /\ (TakeSignal(c) \/ Timeout(c)))
  PROVE  IInv'
  <1>1. /\ UNCHANGED <<mid, daemon, identity, registry, handler, pin, accepted, fails>>
        /\ TypeOK /\ PollsLeft /\ Sessions /\ GcCounts /\ (Trouble \/ troubles' = troubles)
    BY DEF Exit, TakeSignal, Timeout, dialing, IInv
  <1>2. \/ pc' = pc
        \/ pc' = [pc EXCEPT ![c] = "failed"]
        \/ pc[c] # "failed" /\ \E label \in {"poll", "loop"} : pc' = [pc EXCEPT ![c] = label]
    BY DEF Exit, TakeSignal, OnSignal, Timeout, Goto
  <1>3. pc' \in [Client -> Place]
    BY <1>1, <1>2 DEF TypeOK, Place
  <1>4. PollsLeft'
    <2>1. \A d \in Client : pc'[d] # "failed" => pc[d] # "failed"
      BY <1>1, <1>2 DEF TypeOK
    <2> QED
      BY <1>1, <2>1 DEF PollsLeft, Client
  <1>5. /\ conn' \in [Client -> ConnState] /\ live' \subseteq Client
        /\ offered' \in [Client -> Cert \cup {NoFile}]
        /\ \A d \in Client : conn'[d] \in Checking =>
                conn'[d] = conn[d] /\ offered'[d] = offered[d]
    <2>1. CASE Exit(c)
      BY <1>1, <2>1 DEF Exit, Becomes, TypeOK, ConnState, Checking
    <2>2. CASE TakeSignal(c) \/ Timeout(c)
      BY <1>1, <2>2 DEF TakeSignal, Timeout, Becomes, dialing, TypeOK, ConnState, Checking
    <2> QED
      BY <2>1, <2>2
  <1>6. Sessions'
    <2>1. /\ \A d \in Client : pc'[d] \in Early => pc[d] \in Early /\ d # c
          /\ \A d \in Client : d # c => conn'[d] = conn[d]
      BY <1>1, <1>2 DEF Exit, TakeSignal, Timeout, Goto, OnSignal, Becomes, TypeOK, Early
    <2>2. conn'[c] \in Before => conn'[c] = conn[c]
      BY <1>1 DEF Exit, TakeSignal, Timeout, Becomes, TypeOK, Before, Checking
    <2> QED
      BY <1>1, <2>1, <2>2 DEF Sessions
  <1>7. GcCounts'
    <2>1. troubles' \in {troubles, troubles + 1}
      BY <1>1, TroubleCounts
    <2> QED
      BY <1>1, <2>1, GcStays DEF mid
  <1> QED
    BY <1>1, <1>3, <1>4, <1>5, <1>6, <1>7, PollFrame DEF TypeOK, mid
-----------------------------------------------------------------------------
(* Every step keeps the invariant. *)
LEMMA Inductive == IInv /\ [Next]_vars => IInv'
  <1> SUFFICES ASSUME IInv, [Next]_vars PROVE IInv'
    OBVIOUS
  <1>1. CASE Load \/ Generate \/ WriteKey \/ Stop
    BY <1>1, ServeKeeps
  <1>2. ASSUME NEW c \in Client, CallStep(c) PROVE IInv'
    BY <1>2, DialKeeps, ReadPinKeeps, CreatePinKeeps, WritePinKeeps, RereadPinKeeps,
       CallEndsKeep DEF CallStep
  <1>3. ASSUME NEW c \in Client, DaemonStep(c) PROVE IInv'
    BY <1>3, RelayWakeKeeps, RelayWaitJobKeeps, WaitEndsKeep DEF DaemonStep
  <1>4. ASSUME NEW c \in Client, Break(c) PROVE IInv'
    BY <1>4, CallEndsKeep
  <1>5. ASSUME NEW c \in Client, Exit(c) PROVE IInv'
    BY <1>5, EndingsKeep
  <1>6. ASSUME NEW s \in Sender, PutManifest(s) \/ PutNotify(s) \/ Signaled(s) PROVE IInv'
    BY <1>6, SenderKeeps DEF Client
  <1>7. ASSUME NEW r \in Receiver, Poll(r) PROVE IInv'
    BY <1>7, PollKeeps
  <1>8. ASSUME NEW r \in Receiver, TakeSignal(r) \/ Timeout(r) PROVE IInv'
    BY <1>8, EndingsKeep DEF Client
  <1>9. ASSUME NEW j \in Ids, Corrupt(j) \/ GcManifest(j) \/ GcNotify(j) PROVE IInv'
    BY <1>9, StoreKeeps
  <1>10. CASE UNCHANGED vars
    <2>1. TypeOK' = TypeOK /\ CertOK' = CertOK /\ PollsLeft' = PollsLeft
      BY <1>10 DEF vars, mid, identity, registry, dialing, TypeOK, CertOK, PollsLeft
    <2>2. PinOK' = PinOK /\ Sessions' = Sessions /\ GcCounts' = GcCounts
      BY <1>10 DEF vars, mid, identity, registry, dialing, PinOK, Sessions, GcCounts
    <2>3. Registry' = Registry
      BY <1>10 DEF vars, registry, Registry, Registered, NoWakeupPassedOver, OnOneList
    <2> QED
      BY <2>1, <2>2, <2>3 DEF IInv
  <1> QED
    BY <1>1, <1>2, <1>3, <1>4, <1>5, <1>6, <1>7, <1>8, <1>9, <1>10 DEF Next

(* The invariant holds of every behaviour. *)
LEMMA Invariant == Spec => []IInv
  BY InitInv, Inductive, PTL DEF Spec

(* The state has its type; above all, the registry stays within its limits of
   waiters per job and of kept wakeups (relayMaxWaitersPerJob,
   relayMaxPendingJobs), whatever clients call, leave and lose. *)
THEOREM TypeCorrect == Spec => []TypeOK
  <1>1. IInv => TypeOK
    BY DEF IInv
  <1> QED
    BY <1>1, Invariant, PTL

(* Whoever waits at the daemon is on its job's list or has been woken, however
   the removals of those who leave and the wakeups that take the list
   interleave; no channel is closed that is still on a list; and no wakeup is
   kept for a job somebody waits for (relayWaitJob and its deferred removal,
   relayWake). *)
THEOREM NoWaiterIsForgotten == Spec => []NoWaiterForgotten
  <1>1. IInv => NoWaiterForgotten
    BY DEF IInv, TypeOK, Registry, OnOneList, NoWakeupPassedOver, NoWaiterForgotten
  <1> QED
    BY <1>1, Invariant, PTL

(* All clients of one configuration directory accept one certificate: what was
   accepted is what the pin holds, and only its one creator writes it
   (verifyTOFU, O_EXCL). *)
THEOREM OneCertificateAccepted == Spec => []OneCertificate
  <1>1. IInv => OneCertificate
    <2> SUFFICES ASSUME IInv PROVE OneCertificate
      OBVIOUS
    <2>1. accepted = {} \/ accepted = {pin}
      BY DEF IInv, PinOK
    <2>2. Cardinality({}) = 0 /\ Cardinality({pin}) = 1
      BY FS_EmptySet, FS_Singleton
    <2> QED
      BY <2>1, <2>2 DEF OneCertificate
  <1> QED
    BY <1>1, Invariant, PTL
-----------------------------------------------------------------------------
(* What FoundIsPublished rests on: the marker is written after the manifest,
   and whoever is past either has it in the store, unless a gc has taken it. *)
MayBeFound(j) == store[j].manifest \/ j \in cleaned

Published ==
    /\ \A j \in Ids : store[j].notify = "good" => MayBeFound(j)
    /\ \A c \in Client : pc[c] \in {"notify", "found"} => MayBeFound(JobOf[c])

(* Who goes on to a place that is neither, in the same store, claims nothing. *)
LEMMA MovesOn ==
  ASSUME TypeOK, Published, UNCHANGED mid, NEW c \in Client,
         NEW label \in Place \ {"notify", "found"}, pc' = pc \/ Goto(c, label)
  PROVE  Published'
  BY DEF TypeOK, Published, MayBeFound, Goto, mid

(* Where a job may be found it stays so, unless its marker or its manifest is
   changed; and then it is for the one step to say. *)
LEMMA StoreMoves ==
  ASSUME TypeOK, Published, pc' = pc,
         cleaned \subseteq cleaned',
         \A k \in Ids : \/ store'[k].manifest = store[k].manifest
                        \/ MayBeFound(k)',
         \A k \in Ids : store'[k].notify = "good" => store[k].notify = "good"
  PROVE  Published'
  <1>1. \A k \in Ids : MayBeFound(k) => MayBeFound(k)'
    BY DEF MayBeFound
  <1> QED
    BY <1>1, IdFacts DEF Published

(* The sender's steps, in their order. *)
LEMMA SenderPublishes ==
  ASSUME TypeOK, Published, NEW s \in Client, PutManifest(s) \/ PutNotify(s)
  PROVE  Published'
  <1>1. JobOf[s] \in Ids /\ (\A c \in Client : JobOf[c] \in Ids) /\ cleaned' = cleaned
    BY IdFacts DEF PutManifest, PutNotify
  <1>2. CASE PutManifest(s)
    <2>1. /\ store' = [store EXCEPT ![JobOf[s]] = [store[JobOf[s]] EXCEPT !.manifest = TRUE]]
          /\ pc' = [pc EXCEPT ![s] = "notify"]
      BY <1>2 DEF PutManifest, Goto
    <2>2. /\ store'[JobOf[s]].manifest
          /\ \A j \in Ids : j # JobOf[s] => store'[j] = store[j]
      BY <1>1, <2>1 DEF TypeOK, Files
    <2> QED
      BY <1>1, <2>1, <2>2 DEF TypeOK, Published, MayBeFound
  <1>3. CASE PutNotify(s)
    <2>1. /\ store' = [store EXCEPT ![JobOf[s]] = [store[JobOf[s]] EXCEPT !.notify = "good"]]
          /\ pc' = [pc EXCEPT ![s] = "signal"] /\ MayBeFound(JobOf[s])
      BY <1>3 DEF PutNotify, Goto, Published
    <2>2. \A j \in Ids : /\ store'[j].manifest = store[j].manifest
                         /\ j # JobOf[s] => store'[j] = store[j]
      BY <1>1, <2>1 DEF TypeOK, Files
    <2> QED
      BY <1>1, <2>1, <2>2 DEF TypeOK, Published, MayBeFound
  <1> QED
    BY <1>2, <1>3

(* A poll says found for a good marker or for the manifest itself. *)
LEMMA PollFindsPublished ==
  ASSUME TypeOK, Published, NEW r \in Receiver, Poll(r)
  PROVE  Published'
  <1>1. UNCHANGED mid /\ r \in Client /\ JobOf[r] \in Ids
    BY IdFacts DEF Poll, ReadNotify, StatManifest, Client
  <1>2. \/ Goto(r, "found") /\ MayBeFound(JobOf[r])
        \/ \E label \in Place \ {"notify", "found"} : Goto(r, label)
    <2>1. {"firstStat", "pollStat", "loop", "failed"} \subseteq Place \ {"notify", "found"}
      BY DEF Place
    <2>2. PollFails(r) => \E label \in Place \ {"notify", "found"} : Goto(r, label)
      BY <2>1 DEF PollFails
    <2>3. CASE ReadNotify(r)
      BY <1>1, <2>1, <2>2, <2>3 DEF ReadNotify, Published
    <2>4. CASE StatManifest(r)
      BY <2>1, <2>2, <2>4 DEF StatManifest, StillWaits, MayBeFound
    <2> QED
      BY <2>3, <2>4 DEF Poll
  <1>3. CASE Goto(r, "found") /\ MayBeFound(JobOf[r])
    BY <1>1, <1>3 DEF Goto, TypeOK, Published, MayBeFound, mid
  <1> QED
    BY <1>1, <1>2, <1>3, MovesOn

(* The store's trouble and gc: whose manifest goes is cleaned. *)
LEMMA StorePublishes ==
  ASSUME TypeOK, Published, NEW j \in Ids, Corrupt(j) \/ GcManifest(j) \/ GcNotify(j)
  PROVE  Published'
  <1>1. pc' = pc /\ cleaned \subseteq cleaned'
    BY DEF Corrupt, GcManifest, GcNotify
  <1>2. CASE store' = [store EXCEPT ![j] = [store[j] EXCEPT !.manifest = FALSE]] /\ j \in cleaned'
    <2>1. \A k \in Ids : /\ store'[k].notify = store[k].notify
                         /\ k # j => store'[k].manifest = store[k].manifest
      BY <1>2 DEF TypeOK, Files
    <2>2. MayBeFound(j)'
      BY <1>2 DEF MayBeFound
    <2> QED
      BY <1>1, <2>1, <2>2, StoreMoves
  <1>3. CASE \E n \in {"bad", "none"} : store' = [store EXCEPT ![j] = [store[j] EXCEPT !.notify = n]]
    <2>1. \A k \in Ids : /\ store'[k].manifest = store[k].manifest
                         /\ store'[k].notify = "good" => store[k].notify = "good"
      BY <1>3 DEF TypeOK, Files
    <2> QED
      BY <1>1, <2>1, StoreMoves
  <1>4. CASE store' = store
    BY <1>1, <1>4, StoreMoves
  <1> QED
    BY <1>2, <1>3, <1>4 DEF Corrupt, GcManifest, GcNotify

LEMMA PublishedInductive == TypeOK /\ Published /\ [Next]_vars => Published'
  <1> SUFFICES ASSUME TypeOK, Published, [Next]_vars PROVE Published'
    OBVIOUS
  <1>1. CASE UNCHANGED <<mid, pc>>
    BY <1>1 DEF Published, MayBeFound, mid
  <1>2. CASE Load \/ Generate \/ WriteKey \/ Stop
    BY <1>1, <1>2 DEF Load, Generate, WriteKey, Stop
  <1>3. ASSUME NEW c \in Client, CallStep(c) PROVE Published'
    BY <1>1, <1>3 DEF CallStep, Dial, ReadPin, CreatePin, WritePin, RereadPin, Hello, Lost
  <1>4. ASSUME NEW c \in Client, DaemonStep(c) \/ Break(c) PROVE Published'
    BY <1>1, <1>4 DEF DaemonStep, RelayWake, RelayWaitJob, Woken, Deadline, Leave, Break
  <1>5. {"done", "failed", "poll", "loop"} \subseteq Place \ {"notify", "found"}
    BY DEF Place
  <1>6. ASSUME NEW c \in Client, Exit(c) PROVE Published'
    BY <1>5, <1>6, MovesOn DEF Exit
  <1>7. ASSUME NEW s \in Sender, PutManifest(s) \/ PutNotify(s) \/ Signaled(s)
        PROVE  Published'
    <2>1. s \in Client
      BY DEF Client
    <2>2. CASE Signaled(s)
      BY <1>5, <2>1, <2>2, MovesOn DEF Signaled
    <2> QED
      BY <1>7, <2>1, <2>2, SenderPublishes
  <1>8. ASSUME NEW r \in Receiver, Poll(r) PROVE Published'
    BY <1>8, PollFindsPublished
  <1>9. ASSUME NEW r \in Receiver, TakeSignal(r) \/ Timeout(r) PROVE Published'
    BY <1>5, <1>9, MovesOn DEF TakeSignal, OnSignal, Timeout, Client
  <1>10. ASSUME NEW j \in Ids, Corrupt(j) \/ GcManifest(j) \/ GcNotify(j) PROVE Published'
    BY <1>10, StorePublishes
  <1>11. CASE UNCHANGED vars
    BY <1>1, <1>11 DEF vars
  <1> QED
    BY <1>2, <1>3, <1>4, <1>6, <1>7, <1>8, <1>9, <1>10, <1>11 DEF Next

(* A receiver that goes on to Recv has a manifest to read, whoever sent it a
   wakeup and however the store loses markers, unless some gc has removed the
   manifest of this job, before or since: whatever earlier jobs left, and
   however many gcs run (waitForJob, pollOnce, GC). *)
THEOREM FoundJobsArePublished == Spec => []FoundIsPublished
  <1>1. Init => Published
    BY IdFacts DEF Init, Published, MayBeFound, Client
  <1>2. Spec => []TypeOK
    BY TypeCorrect
  <1>3. Published => FoundIsPublished
    BY DEF Published, MayBeFound, FoundIsPublished, Client
  <1> QED
    BY <1>1, <1>2, <1>3, PublishedInductive, PTL DEF Spec
=============================================================================
