------------------------------- MODULE Relay -------------------------------
(***************************************************************************)
(* The mid-hop relay of one job id: Send, Recv and GC of                   *)
(* internal/relay/relay.go, three programs that never talk to each other   *)
(* but through a store in between, which has no transactions: every put,   *)
(* read and remove is a step.                                              *)
(*                                                                         *)
(* A chunk stands for its content and its digest.  A manifest is the       *)
(* sequence of its files.  One sender at a time, as README.md asks for,    *)
(* but it may be run again at any time, with the job of an earlier run     *)
(* still in the store; several receivers; gc by hand or by cron.           *)
(*                                                                         *)
(* The wakeup signal (relay_signal.go) only makes a poll of the store      *)
(* happen earlier, and a poll may happen here at any time.                 *)
(***************************************************************************)
EXTENDS Naturals, Sequences, FiniteSets

CONSTANTS Chunk,
          Path, Order,        \* the paths of the source, in the order of Walk
          Trees,              \* what the source may hold
          MaxLen,             \* longest file, in chunks
          Receiver, Dest, DestOf,
          Reusing,            \* the destinations that can reuse chunks (Caps)
          LeaseRefreshEvery,  \* leaseRefreshEvery
          MaxSends,           \* bound: runs of send
          MaxUpsets,          \* bound: crashes, I/O errors, damaged objects, forced gc
                              \* runs, edits of the source while it is read
          Directory, Nothing, NoManifest

Content == UNION {[1..n -> Chunk] : n \in 0..MaxLen}
File    == [path: Path, size: 0..MaxLen, chunks: Content]
ChunksOf(files) == UNION {{files[i].chunks[k] : k \in 1..Len(files[i].chunks)} :
                              i \in 1..Len(files)}

ASSUME TreesAssumption == Trees \subseteq [Path -> Content \cup {Directory}]
ASSUME OrderAssumption == /\ Order \in Seq(Path)
                          /\ \A i, j \in DOMAIN Order : Order[i] = Order[j] => i = j
ASSUME DestAssumption  == DestOf \in [Receiver -> Dest] /\ Reusing \subseteq Dest
ASSUME BoundAssumption == /\ {MaxLen, MaxSends, MaxUpsets} \subseteq Nat
                          /\ LeaseRefreshEvery \in Nat \ {0}
ASSUME NullAssumption  == /\ Directory \notin Content
                          /\ Nothing \notin Content
                          /\ NoManifest \notin Seq(File)

VARIABLES
    tree,                                   \* the source, while a send reads it
    \* the store
    lease, manifest, notify, ack, objects,
    poisoned,                               \* objects whose bytes are not their digest's
    \* Send
    spc, walked, files, cur, uploaded,      \* walked: sizes seen by Walk; files: man.Files
    \* Recv, by receiver
    rpc, man, at, buf, old, failed,         \* at: index into man; old: staged file reused
    staging, dest,                          \* what is on the destinations
    \* GC
    gpc, doomed, consent,                   \* consent: what let this gc go on
    \* history
    sends, upsets,                          \* counters, bounded
    published, received,                    \* manifests put; manifests acked
    gcdSend, gcdJob,                        \* gc removed something in this send; objects of this job
    cause                                   \* a receiver's run was disturbed

store    == <<lease, manifest, notify, ack, objects, poisoned>>
sender   == <<tree, sends, spc, walked, files, cur, uploaded>>
receiver == <<rpc, man, at, buf, old, failed, staging, dest>>
gc       == <<gpc, doomed, consent>>
vars     == <<store, sender, receiver, gc, upsets, published, received,
              gcdSend, gcdJob, cause>>

\* Something happened that the runs of these receivers may fail for.
Disturb(receivers) == cause' = [r \in Receiver |-> cause[r] \/ r \in receivers]
Undisturbed == UNCHANGED cause

\* A disturbance from outside, MaxUpsets of them at most.
Upset == upsets < MaxUpsets /\ upsets' = upsets + 1
-----------------------------------------------------------------------------
(* Send. *)

\* Mutant of SendGone: what was put is remembered for the next send.
SendRemembers == /\ spc' = "idle" /\ tree' = Nothing /\ walked' = [p \in Path |-> 0]
                 /\ files' = <<>> /\ cur' = <<>> /\ UNCHANGED uploaded

\* Where the run ends, well or not, and its variables with it.
SendGone == /\ spc' = "idle" /\ tree' = Nothing /\ walked' = [p \in Path |-> 0]
            /\ files' = <<>> /\ cur' = <<>> /\ uploaded' = {}

StartSend ==
    /\ spc = "idle" /\ sends < MaxSends
    /\ sends' = sends + 1
    /\ tree' \in Trees
    /\ spc' = "lease"
    /\ gcdSend' = FALSE
    /\ UNCHANGED <<store, walked, files, cur, uploaded, receiver, gc, upsets, published, received,
                   gcdJob, cause>>

AllRead == Len(files) = Len(Order)

\* Mutant of WriteLease: the lease is not extended before the manifest is put.
WriteLeaseOnce ==
    /\ \/ spc = "lease"   /\ spc' = "walk" /\ lease' = "live"
       \/ spc = "refresh" /\ spc' = "read" /\ lease' = "live"
       \/ spc = "read" /\ AllRead /\ spc' = "manifest" /\ UNCHANGED lease
    /\ UNCHANGED <<tree, sends, manifest, notify, ack, objects, poisoned, walked, files, cur,
                   uploaded, receiver, gc, upsets, published, received, gcdSend, gcdJob, cause>>

\* writeLease: before the walk, every LeaseRefreshEvery files, and once more
\* when all objects are up.
WriteLease ==
    /\ \/ spc = "lease"   /\ spc' = "walk"
       \/ spc = "refresh" /\ spc' = "read"
       \/ spc = "read" /\ AllRead /\ spc' = "manifest"
    /\ lease' = "live"
    /\ UNCHANGED <<tree, sends, manifest, notify, ack, objects, poisoned, walked, files, cur, uploaded,
                   receiver, gc, upsets, published, received, gcdSend, gcdJob, cause>>

\* Walk sees sizes (a directory's is not a content's).
Walk ==
    /\ spc = "walk"
    /\ walked' = [p \in Path |-> IF tree[p] = Directory THEN 0 ELSE Len(tree[p])]
    /\ spc' = "read"
    /\ UNCHANGED <<tree, sends, store, files, cur, uploaded, receiver, gc, upsets, published,
                   received, gcdSend, gcdJob, cause>>

Reading == spc = "read" /\ ~AllRead
Current == Order[Len(files) + 1]

\* Mutant of UploadChunk: what was put is kept by file instead of by digest.
UploadByPath ==
    LET c == tree[Current][Len(cur) + 1] IN
    /\ Reading /\ tree[Current] # Directory /\ Len(cur) < Len(tree[Current])
    /\ objects' = IF Current \in uploaded THEN objects ELSE objects \cup {c}
    /\ uploaded' = uploaded \cup {Current}
    /\ cur' = Append(cur, c)
    /\ UNCHANGED <<tree, sends, lease, manifest, notify, ack, poisoned, spc, walked, files,
                   receiver, gc, upsets, published, received, gcdSend, gcdJob, cause>>

\* The object of a chunk is put unless this send has put or seen it already,
\* or something is there under its name.
UploadChunk ==
    LET c == tree[Current][Len(cur) + 1] IN
    /\ Reading /\ tree[Current] # Directory /\ Len(cur) < Len(tree[Current])
    /\ objects' = IF c \in uploaded THEN objects ELSE objects \cup {c}
    /\ uploaded' = uploaded \cup {c}
    /\ cur' = Append(cur, c)
    /\ UNCHANGED <<tree, sends, lease, manifest, notify, ack, poisoned, spc, walked, files, receiver, gc,
                   upsets, published, received, gcdSend, gcdJob, cause>>

\* The end of a file: a size other than Walk's is an error, but a size of 0 is
\* no hint and is not checked.
FinishFile ==
    /\ Reading /\ tree[Current] # Directory /\ Len(cur) >= Len(tree[Current])
    /\ walked[Current] \in {0, Len(cur)}
    /\ files' = Append(files, [path |-> Current, size |-> walked[Current], chunks |-> cur])
    /\ cur' = <<>>
    /\ spc' = IF Len(files') % LeaseRefreshEvery = 0 THEN "refresh" ELSE "read"
    /\ UNCHANGED <<tree, sends, store, walked, uploaded, receiver, gc, upsets, published,
                   received, gcdSend, gcdJob, cause>>

\* A directory opens, but does not read; a file that changed its size.
SendFails ==
    /\ Reading
    /\ \/ tree[Current] = Directory
       \/ /\ tree[Current] # Directory /\ Len(cur) >= Len(tree[Current])
          /\ walked[Current] \notin {0, Len(cur)}
    /\ SendGone
    /\ UNCHANGED <<sends, store, receiver, gc, upsets, published, received, gcdSend,
                   gcdJob, cause>>

\* validateManifest, as far as a manifest that Send wrote can fail it.
Valid(m) == \A i \in 1..Len(m) : m[i].size = Len(m[i].chunks)

PutManifest ==
    /\ spc = "manifest"
    /\ manifest' = files /\ published' = published \cup {files}
    /\ gcdJob' = gcdSend
    /\ Disturb(IF Valid(files) /\ ~gcdSend /\ ChunksOf(files) \cap poisoned = {}
               THEN {} ELSE Receiver)
    /\ spc' = "notify"
    /\ UNCHANGED <<tree, sends, lease, notify, ack, objects, poisoned, walked, files, cur, uploaded,
                   receiver, gc, upsets, received, gcdSend>>

PutNotify ==
    /\ spc = "notify"
    /\ notify' = TRUE
    /\ Disturb(IF gcdSend THEN Receiver ELSE {})
    /\ SendGone
    /\ UNCHANGED <<sends, lease, manifest, ack, objects, poisoned, receiver, gc, upsets,
                   published, received, gcdSend, gcdJob>>

Send == \/ StartSend \/ WriteLease \/ Walk \/ UploadChunk \/ FinishFile \/ SendFails
        \/ PutManifest \/ PutNotify
-----------------------------------------------------------------------------
(* Recv. *)
Active(r) == rpc[r] # "idle"
Peers(r)  == {q \in Receiver \ {r} : DestOf[q] = DestOf[r] /\ Active(q)}

\* What a receiver may count on when it starts: nothing is published, or
\* everything a published job needs is there.
Sound ==
    \/ ~notify /\ manifest = NoManifest
    \/ /\ lease = "live" /\ manifest # NoManifest
       /\ Valid(manifest)
       /\ ChunksOf(manifest) \subseteq objects \ poisoned

\* How a receiver moves on; the deferred removal of its staging is "cleanup".
Goto(r, l) == rpc' = [rpc EXCEPT ![r] = l] /\ UNCHANGED failed
Fail(r)    == /\ rpc' = [rpc EXCEPT ![r] = "cleanup"]
              /\ failed' = [failed EXCEPT ![r] = TRUE]
RecvOnly   == UNCHANGED <<sender, gc, upsets, published, gcdSend, gcdJob>>

\* Two receivers into one destination share their staging, and take it from
\* each other.
StartRecv(r) ==
    /\ ~Active(r)
    /\ Goto(r, "wait")
    /\ Disturb(Peers(r) \cup (IF Sound /\ Peers(r) = {} THEN {} ELSE {r}))
    /\ UNCHANGED <<store, man, at, buf, old, staging, dest, received>> /\ RecvOnly

\* pollOnce finds the notify marker or the manifest.
Poll(r) ==
    /\ rpc[r] = "wait" /\ (notify \/ manifest # NoManifest)
    /\ Goto(r, "lease")
    /\ UNCHANGED <<store, man, at, buf, old, staging, dest, received, cause>> /\ RecvOnly

ReadLease(r) ==
    /\ rpc[r] = "lease"
    /\ \/ lease = "live" /\ Goto(r, "manifest")
       \/ lease # "live" /\ Fail(r)
    /\ UNCHANGED <<store, man, at, buf, old, staging, dest, received, cause>> /\ RecvOnly

FileOf(r)   == man[r][at[r]]
StagedAt(r) == staging[DestOf[r]][FileOf(r).path]

\* Mutant of Stage: the promotion does not start over at the first file.
StageOnly(r, m, i) ==
    LET more == i <= Len(m) IN
    /\ Goto(r, IF more THEN "stage" ELSE "promote")
    /\ at'  = [at EXCEPT ![r] = i]
    /\ old' = [old EXCEPT ![r] = IF more THEN staging[DestOf[r]][m[i].path] ELSE Nothing]

\* On to file i of manifest m: materialize takes the signature of what is staged
\* under its name and opens a write session.  After the last, the promotion.
Stage(r, m, i) ==
    LET more == i <= Len(m) IN
    /\ Goto(r, IF more THEN "stage" ELSE "promote")
    /\ at'  = [at EXCEPT ![r] = IF more THEN i ELSE 1]
    /\ old' = [old EXCEPT ![r] = IF more THEN staging[DestOf[r]][m[i].path] ELSE Nothing]

ReadManifest(r) ==
    /\ rpc[r] = "manifest"
    /\ IF manifest # NoManifest /\ Valid(manifest)
       THEN man' = [man EXCEPT ![r] = manifest] /\ Stage(r, manifest, 1)
       ELSE Fail(r) /\ UNCHANGED <<man, at, old>>
    /\ UNCHANGED <<store, buf, staging, dest, received, cause>> /\ RecvOnly

\* The chunks of the file staged before, which an earlier run left, if the
\* destination can reuse chunks; the others are fetched.
ReusableOld(r) == IF DestOf[r] \notin Reusing \/ old[r] = Nothing THEN {} ELSE {old[r][k] : k \in 1..Len(old[r])}

StageChunk(r) ==
    LET c == FileOf(r).chunks[Len(buf[r]) + 1]
        available == \/ c \in ReusableOld(r) /\ StagedAt(r) = old[r]
                     \/ c \notin ReusableOld(r) /\ c \in objects \ poisoned
    IN
    /\ rpc[r] = "stage" /\ Len(buf[r]) < Len(FileOf(r).chunks)
    /\ \/ available /\ buf' = [buf EXCEPT ![r] = Append(@, c)] /\ Goto(r, "stage")
       \/ ~available /\ Fail(r) /\ UNCHANGED buf
    /\ UNCHANGED <<store, man, at, old, staging, dest, received, cause>> /\ RecvOnly

CommitStaged(r) ==
    /\ rpc[r] = "stage" /\ Len(buf[r]) = Len(FileOf(r).chunks)
    /\ staging' = [staging EXCEPT ![DestOf[r]][FileOf(r).path] = buf[r]]
    /\ buf' = [buf EXCEPT ![r] = <<>>]
    /\ Stage(r, man[r], at[r] + 1)
    /\ UNCHANGED <<store, man, dest, received, cause>> /\ RecvOnly

\* Mutant of Promotable: what is staged under this name is taken as it is.
PromotableAsIs(r) == StagedAt(r) # Nothing

\* promoteStaged reads the staged file back and compares size and digest,
Promotable(r) == StagedAt(r) = FileOf(r).chunks

ReadStaged(r) ==
    /\ rpc[r] = "promote" /\ at[r] <= Len(man[r])
    /\ \/ Promotable(r) /\ buf' = [buf EXCEPT ![r] = StagedAt(r)] /\ Goto(r, "put")
       \/ ~Promotable(r) /\ Fail(r) /\ UNCHANGED buf
    /\ UNCHANGED <<store, man, at, old, staging, dest, received, cause>> /\ RecvOnly

\* ... writes what it has read to the file's own name,
CommitFile(r) ==
    /\ rpc[r] = "put"
    /\ dest' = [dest EXCEPT ![DestOf[r]][FileOf(r).path] = buf[r]]
    /\ buf' = [buf EXCEPT ![r] = <<>>]
    /\ Goto(r, "unstage")
    /\ UNCHANGED <<store, man, at, old, staging, received, cause>> /\ RecvOnly

\* ... and removes the staged file, whosoever it is by now; an error of that is
\* ignored.
Unstage(r) ==
    /\ rpc[r] = "unstage"
    /\ \/ staging' = [staging EXCEPT ![DestOf[r]][FileOf(r).path] = Nothing] /\ UNCHANGED upsets
       \/ Upset /\ UNCHANGED staging
    /\ at' = [at EXCEPT ![r] = @ + 1]
    /\ Goto(r, "promote")
    /\ UNCHANGED <<store, sender, man, buf, old, dest, gc, published, received, gcdSend,
                   gcdJob, cause>>

PutAck(r) ==
    /\ rpc[r] = "promote" /\ at[r] > Len(man[r])
    /\ ack' = TRUE /\ received' = received \cup {man[r]}
    /\ Goto(r, "cleanup")
    /\ UNCHANGED <<lease, manifest, notify, objects, poisoned, man, at, buf, old, staging,
                   dest, cause>> /\ RecvOnly

\* A receiver's variables when it is not running.
RecvGone(r) ==
    /\ rpc' = [rpc EXCEPT ![r] = "idle"] /\ failed' = [failed EXCEPT ![r] = FALSE]
    /\ man' = [man EXCEPT ![r] = NoManifest] /\ at' = [at EXCEPT ![r] = 0]
    /\ buf' = [buf EXCEPT ![r] = <<>>] /\ old' = [old EXCEPT ![r] = Nothing]
    /\ cause' = [cause EXCEPT ![r] = FALSE]

\* removeTree: the staged files of the manifest, whoever staged them.
CleanUp(r) ==
    LET paths == IF man[r] = NoManifest THEN {} ELSE {man[r][i].path : i \in 1..Len(man[r])} IN
    /\ rpc[r] = "cleanup"
    /\ staging' = [staging EXCEPT ![DestOf[r]] =
                      [p \in Path |-> IF p \in paths THEN Nothing ELSE @[p]]]
    /\ RecvGone(r)
    /\ UNCHANGED <<store, dest, received>> /\ RecvOnly

Recv(r) == \/ StartRecv(r) \/ Poll(r) \/ ReadLease(r) \/ ReadManifest(r) \/ StageChunk(r) \/ CommitStaged(r) \/ ReadStaged(r) \/ CommitFile(r) \/ Unstage(r)
           \/ PutAck(r) \/ CleanUp(r)
-----------------------------------------------------------------------------
(* GC. *)
GcOnly == UNCHANGED <<sender, receiver, published, received>>

\* An ack, or a lease that has run out, is asked for unless forced; where the
\* ack cannot be seen, the lease is read.
StartGC ==
    /\ gpc = "idle"
    /\ \/ gpc' = "read" /\ consent' = "forced" /\ Upset
       \/ gpc' = "read" /\ consent' = "acked" /\ ack /\ UNCHANGED upsets
       \/ gpc' = "lease" /\ UNCHANGED consent /\ (Upset \/ (~ack /\ UNCHANGED upsets))
    /\ UNCHANGED <<store, doomed, gcdSend, gcdJob, cause>> /\ GcOnly

CheckLease ==
    /\ gpc = "lease"
    /\ \/ lease = "expired" /\ gpc' = "read" /\ consent' = "expired"
       \/ lease # "expired" /\ gpc' = "idle" /\ UNCHANGED consent
    /\ UNCHANGED <<store, doomed, gcdSend, gcdJob, cause, upsets>> /\ GcOnly

\* A manifest that cannot be read is taken for none.
ReadDoomed ==
    /\ gpc = "read"
    /\ \/ doomed' = (IF manifest = NoManifest THEN {} ELSE ChunksOf(manifest)) /\ UNCHANGED upsets
       \/ doomed' = {} /\ Upset
    /\ gpc' = "objects" /\ consent' = "none"
    /\ UNCHANGED <<store, gcdSend, gcdJob, cause>> /\ GcOnly

\* A removal happens, or gc remembers its error and goes on.
Removes == gcdSend' = TRUE /\ Disturb(Receiver) /\ UNCHANGED upsets
Misses  == Upset /\ UNCHANGED <<gcdSend, cause>>

RemoveObject ==
    /\ gpc = "objects"
    /\ \E c \in doomed :
        /\ doomed' = doomed \ {c}
        /\ \/ /\ Removes /\ gcdJob' = TRUE
              /\ objects' = objects \ {c} /\ poisoned' = poisoned \ {c}
           \/ Misses /\ UNCHANGED <<objects, poisoned, gcdJob>>
    /\ UNCHANGED <<lease, manifest, notify, ack, gpc, consent>> /\ GcOnly

\* ... then lease, manifest, notify and ack, in that order.
RemoveMeta ==
    /\ \/ gpc = "objects" /\ doomed = {} /\ gpc' = "manifest"
       \/ gpc = "manifest" /\ gpc' = "notify"
       \/ gpc = "notify" /\ gpc' = "ack"
       \/ gpc = "ack" /\ gpc' = "idle"
    /\ \/ /\ Removes
          /\ lease' = IF gpc = "objects" THEN "none" ELSE lease
          /\ manifest' = IF gpc = "manifest" THEN NoManifest ELSE manifest
          /\ notify' = (gpc # "notify" /\ notify) /\ ack' = (gpc # "ack" /\ ack)
       \/ Misses /\ UNCHANGED <<lease, manifest, notify, ack>>
    /\ UNCHANGED <<objects, poisoned, doomed, consent, gcdJob>> /\ GcOnly

GC == StartGC \/ CheckLease \/ ReadDoomed \/ RemoveObject \/ RemoveMeta
-----------------------------------------------------------------------------
(* What goes wrong around them. *)
\* Send gets an error or is killed; what it has put stays.
SendStops ==
    /\ spc # "idle" /\ Upset /\ SendGone
    /\ UNCHANGED <<sends, store, receiver, gc, published,
                   received, gcdSend, gcdJob, cause>>

\* An I/O error, or the end of the patience of waitForJob.
RecvError(r) ==
    /\ Active(r) /\ rpc[r] # "cleanup" /\ Upset
    /\ Fail(r) /\ Disturb({r})
    /\ UNCHANGED <<store, sender, man, at, buf, old, staging, dest, gc, published,
                   received, gcdSend, gcdJob>>

\* Killed: the staging files stay.
RecvCrash(r) ==
    /\ Active(r) /\ Upset
    /\ RecvGone(r)
    /\ UNCHANGED <<store, sender, staging, dest, gc, published, received, gcdSend,
                   gcdJob>>

\* Killed: no error of its own ends it.
GcStops ==
    /\ gpc # "idle" /\ Upset
    /\ gpc' = "idle" /\ consent' = "none" /\ doomed' = {}
    /\ UNCHANGED <<store, sender, receiver, published, received, gcdSend, gcdJob,
                   cause>>

\* The lease of a slow upload may run out; a TTL outlasts the one put between
\* the last refresh and the manifest.
Expire ==
    /\ lease = "live" /\ spc # "manifest"
    /\ lease' = "expired"
    /\ Disturb(IF notify \/ manifest # NoManifest THEN Receiver ELSE {})
    /\ UNCHANGED <<manifest, notify, ack, objects, poisoned, sender, receiver, gc,
                   upsets, published, received, gcdSend, gcdJob>>

Poison ==
    /\ Upset
    /\ \E c \in objects \ poisoned : poisoned' = poisoned \cup {c}
    /\ Disturb(Receiver)
    /\ UNCHANGED <<lease, manifest, notify, ack, objects, sender, receiver, gc,
                   published, received, gcdSend, gcdJob>>

EditSource ==
    /\ spc # "idle" /\ Upset
    /\ tree' \in Trees \ {tree}
    /\ \A p \in Path : tree'[p] = Directory <=> tree[p] = Directory
    /\ UNCHANGED <<store, sends, spc, walked, files, cur, uploaded, receiver, gc, published,
                   received, gcdSend, gcdJob, cause>>

Environment == \/ SendStops \/ GcStops \/ Expire \/ Poison \/ EditSource
               \/ \E r \in Receiver : RecvError(r) \/ RecvCrash(r)

Init ==
    /\ tree = Nothing
    /\ lease = "none" /\ manifest = NoManifest /\ notify = FALSE /\ ack = FALSE
    /\ objects = {} /\ poisoned = {}
    /\ spc = "idle" /\ walked = [p \in Path |-> 0] /\ files = <<>> /\ cur = <<>>
    /\ uploaded = {}
    /\ rpc = [r \in Receiver |-> "idle"] /\ failed = [r \in Receiver |-> FALSE]
    /\ man = [r \in Receiver |-> NoManifest] /\ at = [r \in Receiver |-> 0]
    /\ buf = [r \in Receiver |-> <<>>] /\ old = [r \in Receiver |-> Nothing]
    /\ staging = [d \in Dest |-> [p \in Path |-> Nothing]]
    /\ dest = [d \in Dest |-> [p \in Path |-> Nothing]]
    /\ gpc = "idle" /\ doomed = {} /\ consent = "none"
    /\ sends = 0 /\ upsets = 0
    /\ published = {} /\ received = {} /\ gcdSend = FALSE /\ gcdJob = FALSE
    /\ cause = [r \in Receiver |-> FALSE]

Next == Send \/ (\E r \in Receiver : Recv(r)) \/ GC \/ Environment

Spec == Init /\ [][Next]_vars
-----------------------------------------------------------------------------
(* Type invariant of the state above. *)
TypeOK ==
    /\ tree \in Trees \cup {Nothing}
    /\ lease \in {"none", "live", "expired"}
    /\ manifest \in Seq(File) \cup {NoManifest}
    /\ notify \in BOOLEAN /\ ack \in BOOLEAN /\ gcdSend \in BOOLEAN /\ gcdJob \in BOOLEAN
    /\ objects \subseteq Chunk /\ poisoned \subseteq objects
    /\ spc \in {"idle", "lease", "walk", "read", "refresh", "manifest", "notify"}
    /\ walked \in [Path -> 0..MaxLen]
    /\ files \in Seq(File) /\ cur \in Seq(Chunk) /\ uploaded \subseteq Chunk
    /\ rpc \in [Receiver -> {"idle", "wait", "lease", "manifest", "stage",
                             "promote", "put", "unstage", "cleanup"}]
    /\ man \in [Receiver -> Seq(File) \cup {NoManifest}]
    /\ at \in [Receiver -> Nat] /\ buf \in [Receiver -> Seq(Chunk)]
    /\ old \in [Receiver -> Seq(Chunk) \cup {Nothing}]
    /\ failed \in [Receiver -> BOOLEAN] /\ cause \in [Receiver -> BOOLEAN]
    /\ staging \in [Dest -> [Path -> Seq(Chunk) \cup {Nothing}]]
    /\ dest \in [Dest -> [Path -> Seq(Chunk) \cup {Nothing}]]
    /\ gpc \in {"idle", "lease", "read", "objects", "manifest", "notify", "ack"}
    /\ doomed \subseteq Chunk /\ consent \in {"none", "forced", "acked", "expired"}
    /\ sends \in 0..MaxSends /\ upsets \in 0..MaxUpsets
    /\ published \subseteq Seq(File) /\ received \subseteq Seq(File)

(* The store holds every object its manifest names, after any number of sends
   that were cut short or sent again, unless gc took objects while that job was
   being sent or afterwards: Send puts the objects before the manifest, and
   skips only what is there. *)
ManifestIsBacked ==
    manifest # NoManifest /\ ~gcdJob => ChunksOf(manifest) \subseteq objects

(* Recv fails only for something that happened: the lease ran out while a job
   was published, gc removed something, an object was damaged, the source
   changed its size from nothing during the send, another receiver wrote to
   the same destination, or I/O.  Never because a sender is sending the
   job again meanwhile, was slow, or was killed, nor for what an earlier
   receiver that was killed left in the staging directory. *)
RecvFailureHasCause ==
    \A r \in Receiver : rpc[r] = "cleanup" /\ failed[r] => cause[r]

(* Recv keeps the relay's promise: what it puts in place, file by file, is one
   published manifest, and it acks only when all of it is in place, also
   when receivers take each other's staged files away. *)
Promoting(r) == rpc[r] \in {"promote", "put", "unstage"}
Promoted(r)  == IF rpc[r] = "unstage" THEN at[r] ELSE IF Promoting(r) THEN at[r] - 1 ELSE 0
Promise == INSTANCE Delivery WITH
               chosen    <- [r \in Receiver |-> IF Promoting(r) THEN man[r] ELSE NoManifest],
               put       <- [r \in Receiver |-> Promoted(r)],
               confirmed <- received
ImplementsDelivery == Promise!Spec

(* SECURITY.md:44: gc deletes the job after an ack.  So the job it finds acked,
   with no send under way, has been received. *)
AckedJobsOnly ==
    [][gpc' = "read" /\ consent' = "acked" /\ spc = "idle" /\ gpc = "idle"
           => manifest \in received \cup {NoManifest}]_vars
=============================================================================
