# A verification of quiksync

quiksync copies and mirrors file trees: local to local, over SSH, over its own
QUIC daemon, to S3 and NFS, and through a store that two machines share
(relay). This directory holds TLA+ models of its core, the TLC runs that check
them, and proofs for the TLA+ proof system. `PROJECT.json` maps each
definition to the lines of Go it stands for, and lists runs, hazards, findings
and theorems.

    tlc -workers 2 -config SyncTree.cfg MCSyncTree      # a run: cfg, MC module
    tlapm FileTransfer_proofs.tla                       # proofs: one module per *_proofs.tla

All paths below are under `src/internal/` unless they say otherwise.

## Inventory

| Component | State it keeps | Operations | Status |
|---|---|---|---|
| transfer of one file, `engine/engine.go` transferOne, tryTransfer | metadata, attempt count, both signatures, forceTransfer | two read passes, two generation checks, plan, write, commit, retries | FileTransfer |
| journal, `journal/journal.go` | JSONL file, map in memory | load, Get, Put | JournalLog |
| index, `index/cache.go` | one JSON file per path | Get, Put, Delete | in FileTransfer |
| local write sessions, `transport/local/local.go` | staging file, open old file, its size and mtime | BeginWrite, WriteChunk, ReuseChunk, Commit, Abort, sweep | LocalWrite, AtomicFile |
| run, `engine/engine.go` Run, deleteExtras | walked list, job channel, counters | walk, workers, delete gate, delete | SyncTree |
| tree operations, `local.go`, `transport/safepath.go` | the file system | MkdirAll, Chmod, Symlink, Remove, Confine | in SyncTree |
| walk, `fsmeta/walk.go` | none | Walk, MatchExclude | in SyncTree |
| chunker, delta, `chunk/`, `delta/` | none | StreamChunks, Diff, NeedsTransfer | partly in FileTransfer |
| relay, `relay/relay.go` | lease, objects, manifest, notify, ack in a store; staging at the receiver | Send, Recv, GC | Relay, Delivery |
| relay wakeup, `transport/daemon/relay_signal.go`, `relay/signal_quic.go`, waitForJob | waiters and pending wakeups per job; failed polls | relayWake, relayWaitJob, Notify, Wait, the polls | Wakeup |
| helper sessions, `transport/daemon/helper.go`, `quic.go`, `transport/ssh/` | one write session per server loop; the client's mutex | request and reply per operation | RemoteCopy, StagedWrite |
| S3, `transport/s3/` | object, signature sidecar, local staging | as a transport | Stores, StagedWrite |
| NFS, `transport/nfs/` | as local, through an NFS client | as a transport | Stores, StagedWrite |
| limiter, `transfer/limiter.go` | tokens | Wait | planned |
| autotuner, `autotune/` | profile, pinned chunk average | Probe, Observe | planned, its clamps |
| pins and certificates, `transport/daemon/tofu.go` | pin file per address, the daemon's certificate and key | verifyTOFU, loadOrCreatePinnedTLS | in Wakeup |
| protocol, `protocol/` | none | WriteMsg, ReadMsg | a reliable stream that may break, in RemoteCopy |
| compression, progress, CLI, parsing | – | – | not modelled: library codecs, output, strings |

How they interact. `Run` walks the source, puts the list into a channel and
lets workers take from it; a worker calls `tryTransfer`, which reads the source
twice through the `Transport` interface, asks journal and index, and drives a
`WriteSession` of the destination. When all workers are done `deleteExtras`
may remove what the destination has besides. Journal and index live below the
destination and are shared by the workers and, run after run, by processes.
The source's owner, other programs at the destination, other writers of the
same file, a signal, and a power failure act at any moment. The relay is a
second program beside the engine: `send`, `recv` and `gc` are processes on
different machines that share nothing but a store without transactions, and
find out about each other only by reading it, or early through a daemon that
keeps a registry of who waits for which job. A remote end of a copy is a
`Transport` whose operations are requests to a helper process, over one
connection that all workers of the engine share under one mutex.

Hard, and therefore what the properties are about:

- a source that changes between two reads, two Stats, or a Stat and a rename;
- a process that dies between rename, index and journal, or inside an append;
- journal and index entries that were right once;
- several writers, sweeps of staging files and removals on one destination;
- the order in which bytes, renames and directory entries reach the disk;
- workers that reach a directory, its files, and a link in any order;
- a list made at the start of a run and used for deletes at its end;
- links at the destination which every path is resolved through;
- replies that do not name their request, on a connection that may break between
  an effect and its answer, while a reader or a write session holds the mutex;
- an object and a sidecar of it written by two calls, and an old file that is
  checked by one call and read by the next;
- wakeups that come early, late, twice, or die with the daemon that kept them;
- first connections that race for a pin file;
- a job in the relay's store that is sent again, received, acked and collected
  by processes that see each other's files in any intermediate state.

`PROJECT.json` has each of them as a hazard at its line, with the properties that
would catch it going wrong.

## Modules

### FileTransfer (with JournalLog)

One regular file, copied to a local destination run after run.

| State | Code |
|---|---|
| `src`, `gone`, `dst` | the two files: content as a sequence of blocks, and mtime |
| `log` | the journal file as JournalLog describes it |
| `idx` | the index file of this path |
| `pc` | where tryTransfer is; one step is one system call or one block |
| `entry` | `Journal.by` |
| `meta`, `attempts`, `opt` | transferOne's variables, and the flags |
| `force`, `buf`, `sig`, `destSig`, `stage`, `oldGen` | tryTransfer's variables and its write session |

A block is what the chunker cuts, and a digest is the content itself. Steps:
`CheckJournal`, `DigestDest`, `OpenSource`, `ReadBlock`, `DigestRead` (the resume
check, engine.go:515-554), `QuickCheck`, `Pass1Read`, `StatSource`, `Plan`,
`PutInProgress`, `BeginWrite`, `SendBlock`, `Pass2Read`, `Commit`, `PutIndex`,
`PutComplete`; then `PutFailed`, or `BackOff` and `Retry`. `IOError` lets each
call fail as it can, the hash of the destination, the plan and the three journal
puts among them; `LetGo` is an error the code passes over (Stat at the resume
check, the quick check and before a retry, the index), which is no cause for a
failure. `ForceTransfer` is the resume check's way out, for a journal entry
without a digest (an `OldLog` has one) or with one that no longer fits; its
`idx.Delete` may fail unseen. `Crash` ends the process anywhere; `EditSource` is one
write of the owner, which takes effect in the middle of a pass as a write to an
open file does; `MeddleWithDest` replaces, removes or damages the destination.
The write session is kept simple here (one writer); LocalWrite has its details.
The destination is hashed, and its signature taken, in one step, where the
source is read block by block: another writer at the destination may act before
or after it and not inside. Such a write is `meddled` from then on, and only
FailureHasCause, RunEnds and the properties that speak of the source claim
anything of an attempt that is.

JournalLog keeps of a JSONL file what a later load can tell apart: the last
good line, whether a bad line exists, and what follows the last newline. `Put`
after a torn line makes one bad line of two.

### LocalWrite and AtomicFile

Write sessions of any number of writers on one destination file. `sess[s]` is
the writer's plan and its `writeSession`, `temp[s]` its staging file, `dst` the
destination and `durable` what the destination may be after a power failure:
a rename adds to it, a directory sync reduces it to the present file, and a
file's bytes survive only if they were synced. `BeginWrite` and `StatOld` are
two steps, because the code opens the old file and stats the path by name in
between of which others may act; `Verify` is Commit up to the sync, `Install`
its rename. `CopyOpen`, `CopyBlock`, `CopyEnd` are copyAcrossDevices. An open
file stays what it was when the path is renamed over, and is seen to change
when it is written to (`Replaced`, `Overwritten`).

AtomicFile is the promise: a file that is replaced as a whole, and that a power
failure takes back at most to a version it had since its entry was last known
to be on disk. Once a copy across file systems begins it promises nothing.

### SyncTree

One run over a tree of two names with a name below each, at the level of one
operation per path. `WalkSource` takes the list, `Take`, `MakeDir`, `MakeLink`,
`Begin` and `Install` are a worker's (Begin up to BeginWrite, Install the rest),
`Gather` is the gate of `--delete`; `RemoveFile`, `RemoveDir` and `DeleteEnds`
are deleteExtras, with its walk of the destination in Gather: files and links go
in the order of the walk and an error ends it, directories then go deepest
first, those of one depth in any order (sort.Slice is not stable), and an error
is let go. The queue and both lists are sets of which `First` or `Deepest` says
what comes next. A worker looks at the context between two chunks, so Install
may also end by cancellation. `Confine` gives the path the OS is handed, links followed.
`staged` says which directories hold a `.quiksync.tmp`, which a walk never
lists and which keeps its directory from being removed. A version stands for
size, mtime and content: what happens where these disagree is FileTransfer's.

A worker has metadata (`worker[w].meta`), the walk's at first. LooksTheSame
compares the destination with them and not with the source, so that a skip may
rest on a source that is no more; a source that is something else than they say
fails the attempt, at once or as unstable, and `LookAgain` then takes new
metadata from the source, which may have become a directory or a link meanwhile
(ChangeSource puts anything in place of anything). `SourceAt` is Stat through
Confine at the source. `HalfMade` is what a call that fails leaves: the thing in
a link's way removed, a parent made, a directory made and not yet chmodded.

### Relay and Delivery

One job id, its store, a sender, receivers and gc. Every put, read and remove
of the store is a step.

| State | Code |
|---|---|
| `lease`, `manifest`, `notify`, `ack`, `objects` | the files of `jobPaths` in the store |
| `poisoned` | objects whose bytes no longer have the digest they are named by |
| `tree`, `spc`, `walked`, `files`, `cur`, `uploaded` | Send: source, position, sizes of Walk, `man.Files`, chunks of the file at hand, its map of digests |
| `rpc`, `man`, `at`, `buf`, `old`, `failed` | Recv: position, manifest, file at hand, what materialize has written, signature of the file staged before, result |
| `staging`, `dest` | each destination's `.quiksync` staging and its files |
| `gpc`, `doomed`, `consent` | GC: position, digests still to remove, what let it start |
| `published`, `received`, `gcdSend`, `gcdJob`, `cause` | history, for the properties |

Send is `StartSend`, `WriteLease` (before the walk, every LeaseRefreshEvery
files, and before the manifest), `Walk`, `UploadChunk`, `FinishFile`,
`PutManifest`, `PutNotify`, or `SendFails`. Recv is `StartRecv`, `Poll`,
`ReadLease`, `ReadManifest`, `StageChunk`, `CommitStaged`, then file by file
`ReadStaged` (with the check of its digest), `CommitFile` and `Unstage`, and
`PutAck` and `CleanUp`, the deferred removal of what was staged. Chunks of a file
staged before are reused only where the destination can (`Reusing`,
relay.go:580); elsewhere all are fetched. GC is `StartGC` (the ack),
`CheckLease`, `ReadDoomed`, `RemoveObject` and `RemoveMeta`; a removal that fails
(`Misses`) does not stop it. Errors end Send and Recv, and a kill each of
the three, anywhere (`SendStops`, `RecvError`, `RecvCrash`, `GcStops`); `Expire`
is time, `Poison` damage in the store, `EditSource` the owner.

A TTL is assumed to outlast the one put between the last lease refresh and the
manifest, so `Expire` does not happen there; anywhere else it may. A poll may
happen at any time here; when it does is Wakeup's subject.

Delivery is the promise to a receiver: it chooses one published manifest, puts
its files in place one by one with exactly their content, and confirms when all
are. It may give up at any point, with some files in place: `promoteStaged` goes
file by file. Objects, leases, staging and gc are not in it.

### Wakeup

How a receiver learns that its job is there: from the first poll of waitForJob
to found or failed, the daemon's registry, the daemon's certificate, and the
client's way to a connection.

| State | Code |
|---|---|
| `store` | a job's manifest and notify marker, as earlier jobs of the id left them at first |
| `gc`, `cleaned` | GC between its removal of the manifest and of the marker; history of jobs whose manifest some gc removed |
| `waiters`, `pending`, `closed` | relayWaiters, relayPending, and the channels relayWake has closed |
| `handler` | each client's loop in the daemon: called, waiting, or past its deadline and not yet removed |
| `daemon`, `certFile`, `keyFile`, `generated` | Serve and loadOrCreatePinnedTLS |
| `conn`, `live`, `offered` | a client's call: dial, pin check, hello, request, answer; the certificate it met |
| `pin`, `accepted` | the pin file; history of accepted certificates |
| `pc`, `fails` | Send's last steps; waitForJob and hardFails |

What holds relayMu is one step; closing the channels of the waiters is in the
step that takes their list, because nobody can tell. `RelayWaitJob` registers,
`Woken` and `Deadline` are the two arms of its select, both possible when both
are ready, and `Leave` is the deferred removal. A handler that waits does not
read its connection, so it stays when its client is gone and takes the next
wakeup with it; the model has these ghosts. `Stop` is the daemon's end, with or
without its configuration directory. `CreatePin` and `WritePin` are two steps; an
error of the write or the close after it may leave the pin empty or written.
`GcManifest` and `GcNotify` are the two removals of a gc that this module sees, each
of which may fail; several may run. `Earlier` is what earlier jobs may have left:
nothing, a whole job, a marker without a job (a gc that was cut short), a manifest
without a marker (a Send that was), or a marker that cannot be read.

### RemoteCopy

Workers of the engine, the connection to each remote end, and the helpers.
Either end may be local, in which case its calls are single steps.

| State | Code |
|---|---|
| `link[e].holder` | the mutex `mu` of ssh.Transport and daemon.Client |
| `link[e].requests`, `replies` | the stream in both directions |
| `link[e].serving` | RunRemoteHelperOpts: at ReadMsg, sending a file, or returned |
| `sess` | the helper's `session`; one per worker for a local destination |
| `me` | a worker: place in tryTransfer, blocks read, both signatures, error, attempts |
| `queue`, `result` | Run's job channel and results |

`Ask` and `Hear` are a plain call; `OpenRead`, `Read`, `Drain` and `Close` a
reader; `Keeps` says which calls leave the mutex with the worker. `Serve`,
`ServeOpenRead`, `Stream` and `ReadEOF` are the helper. A connection takes
`ReplyRoom` replies before a write blocks. `Break` loses any suffix of what is on
the way, and either leaves the helper to find out or kills it. The workers here
do not use the index or journal, and the source does not change.

### Stores

Writers of one path in S3 or NFS, from GetSignature to Commit, each call to the
store a step. `Start`, `GetSidecar`, `Bind`, `GetObject`, `StatObject` and
`HashBlock` are GetSignature, which reads block by block (ChunkReader): the body
of an S3 object stays what it was when it was opened, an open NFS file shows what
others write in place between two READs; `BeginWrite`, `OpenOld`, `WriteChunk`, `CheckOld`, `ReuseChunk` a
session; `Promote`, `PutAnswered`, `PutSidecar` its Commit (PutObject and the
sidecar's, or RENAME), and `PromoteFails` an error before or after the effect.
`Remove` and `RemoveSidecar` are runs with `--delete` (any number at once;
S3's deletes the sidecar of an object that is not there too), `Overwrite` another
program. The two transports share a module because their sessions differ in
few guards, which is where `kind` is asked. An ETag and a digest stand for the
content; NFS's mtime is a small clock that others' writes may repeat.

### StagedWrite

What the engine asks of any `WriteSession`: the file changes only as a whole,
to what a session wants that was begun, and once for each; a session that says
ok has done it; one that failed may have, or still may, if only the answer was
lost. RemoteCopy
and Stores both implement it. AtomicFile, for the local transport, says more
(power failures).

### How the modules fit together

LocalWrite justifies FileTransfer's `Commit` as one step (DestStaysWhole,
Refinement), RemoteCopy and Stores do so for other transports but for one thing,
a commit that took place and is reported as failed; and FileTransfer's results justify SyncTree's `Install` and
`LooksTheSame`. The composition is by these promises and not by one product
model, whose state space would be out of reach.

## Runs

| Run | Question | Bounds |
|---|---|---|
| file_transfer | Is what is installed, claimed, reported and blamed right? | 2 block contents, files of at most 2 blocks (others put files of 2), mtimes 1..2, 2 attempts, 2 upsets, `--resume` with or without `--checksum` |
| file_transfer_live | Does each run end, and does the destination catch up? | 1 block content, 1 block, 1 upset, an owner without end |
| file_transfer_recopy | violated: engine.go:545 | files of at most 1 block |
| local_write | Is the file atomic for readers and over power failures? | 2 writers, versions `<<a>>` and `<<b, a>>`, 2 troubles |
| sync_tree | Does a clean run mirror, and delete only then? | 2 workers, 2 names, 1 below each, 2 troubles |
| sync_tree_links | violated: README.md:76 | the same |
| relay | Is a job complete in the store, and received as it was sent? | 1 receiver, 2 files of at most 1 chunk, 2 chunk contents, 2 sends, 1 upset |
| relay_peers | The same, with receivers that share a destination | 2 receivers, 1 file of 1 chunk, 2 contents, 2 sends |
| relay_ack | violated: SECURITY.md:44 | as relay |
| remote_copy | Do replies stay in step, sessions and the mutex end, files change as a whole? | 2 workers, 2 files of 2 blocks of which the first is there, either end or both remote, room for 1 reply, 2 attempts, 2 troubles |
| stores | Is the signature true, and every staged block, whatever the store did since? | 2 writers of `<<a, b>>` and `<<b, a>>`, S3 or NFS, any object and sidecar at first, 2 mtimes, 2 troubles |
| wakeup | Is every wakeup taken, every waiter kept, only a published job found; is every published job found, and does every wait end? | 1 sender, 2 receivers (one `--insecure`), 2 job ids, room for 1 waiter and 1 pending job, one wakeup kept at first, for either id, 2 failed polls, anything left by earlier jobs, 1 trouble |

What they show:

- *OnlySourceVersionsCommitted*: every block put in place is one the source had
  at that place under that mtime, and all of them are one version unless the
  owner made two under one mtime: never a mix of versions that mtimes tell
  apart, however writes fall between reads. *HiddenEditsCaught*: two edits that
  keep size and mtime do not get a mix past the double read either. Enough of
  them do: with six, each in the right place between two reads of both passes,
  and a block that the plan reuses, the two passes agree on a content the file
  never had (TLC finds it with edits alone; with five it does not).
  *JournalClaimsCommitted*: the journal never runs ahead of the
  rename. *FinishedMeansSynced*: "copied" and "skipped" are true, and where
  mtimes lie a checked journal entry or `--checksum` still makes them true.
  *FailureHasCause*: leftovers of earlier runs never make a copy fail.
- *RunEnds*, *EventuallySynced*: see fairness.
- *DestIsWhole*, *PowerFailureLeavesWhole*, *ImplementsAtomicFile*: the
  destination is whole for readers and after power failures. *FailureHasCause*
  (LocalWrite): a writer nobody disturbs does not trip over its own checks.
  *HalfCopyShows*: where a commit has to copy across file systems and so rewrites
  the destination in place, no half of the copy passes for the version: it has an mtime
  no source has, until the whole version is there.
- *DeletesOnlyAfterCleanJob*, *NilMeansMirror*, *FailureHasCause* (SyncTree):
  no delete without a clean job and none of what was walked or excluded; a nil
  result means a mirror, whatever order the workers took, and with `--delete`
  nothing besides but directories that are not empty or are in one nobody may
  write to; a path fails for a reason outside of the run. They leave out runs in which a path was led
  through a link at the destination (`followed`): sync_tree_links shows why.
- *ManifestIsBacked*: a manifest in the store has its objects, after sends cut
  short or repeated, unless gc worked during that send or later.
  *RecvFailureHasCause*: neither a slow, a killed or a second sender, nor what a
  killed receiver left staged, makes a receiver fail. *ImplementsDelivery*: what
  is promoted and acked is one published manifest, not a mix of two sends, also
  when receivers take each other's staged files away.

- *RepliesInStep*, *SessionHasOwner*, *FailureHasCause* (RemoteCopy): no call
  meets what an earlier one left in the connection or in the helper, after
  errors at either end, cancellation in the middle of a pass, and readers closed
  early. *ImplementsStagedWrite*: also when the answer to a commit is lost.
  *RunEnds*: see fairness.
- *SignatureIsTrue*: GetSignature returns what the object was at some moment of
  the call, with one exception: a file on NFS that another program writes in place
  between two READs may be signed as one it never was, though each block of the
  signature is one the file had there (`PiecedFrom`; and an error of Open is taken
  for no file). That is harmless: each reused block is checked against its digest
  (StagedBlocksTrue). Remove's order (object first) and Commit's (sidecar last) leave
  stale sidecars, and the digest in the object's metadata makes them harmless.
  *StagedBlocksTrue*: a reused block is right even if the object is replaced
  between the ETag check and the ranged read. *FailureHasCause* (Stores):
  nothing that earlier runs left makes a copy fail.
- *NoWaiterForgotten*: a receiver that waits is registered or woken, and not
  both, and no wakeup for its job is kept while it is registered: the deferred
  removal of one that leaves, which races relayWake and a new waiter of the job,
  drops nobody else, and no channel is closed twice. A wakeup that a leaving waiter takes with it is lost for the others; nothing here says
  it is not, since the polls make up for it. *FoundIsPublished*: a wakeup is no
  proof of a job; what waitForJob returns for has a manifest, or some gc has removed
  one, in this job or before it, and left the marker. *OneCertificate*: all
  who check the pin have accepted one certificate. *FindsJob*, *WaitEnds*: see
  fairness.

Why the bounds are enough. Two block contents tell two versions apart, two
blocks let a write fall between two reads of one pass and let a block move to
another offset (the first occurrence rule), and mtimes 1..2 allow one edit at
a new mtime before each of the two attempts and any number of states between. An
upset is a crash, an I/O error, a removal, damage, or an edit that keeps the
mtime; two allow, for example, a crash in an append and a second one in the
append after it. What others put at the destination is nothing or a file of the
longest kind in file_transfer (`Longest`; damage may still give any content), and any
content in its other runs. Two writers are the smallest number that race; two versions
that share a block at different offsets exercise reuse in both directions.
Two names with a child each give a link to a sibling, a directory with its
file, and a link or file in a directory's place on either side. Two sends are
one job and its successor, with gc, a lease that runs out, and the receiver
between any two of their steps; two files give a promotion that stops half way
and an object that both jobs share; one chunk content may be in both trees. A
forced gc, a crash, an error, a damaged object and an edit during a send count
as upsets, and so does a removal that fails; gc after an ack or an expired lease
is free. Relay's destination can reuse chunks, that of relay_peers cannot. Two workers are the
smallest number that can wait for each other; two files let one meet what the
other left; with room for one reply a helper blocks while its client stops
reading; of two blocks one is written and one reused; two troubles are an error
and what goes wrong while it is cleaned up after. In wakeup the limits of one
waiter and one pending job make both overflow, the kept wakeup of an earlier job
is for the receivers' job or fills the room, and two receivers race for the pin and for the waiter's
place. A daemon that stops and a gc that starts count as a trouble each; the restart
and new certificate after the one, and the second removal of the other, are free; one is all that the liveness
properties leave room for.

`CHECK_DEADLOCK FALSE` is set everywhere because the systems do stop: a source
that is gone, a journal that cannot be read, all troubles used up, a run that
returned, no sends left. Symmetry is used for block contents, writers, workers and receivers, which the
modules never tell apart, and only in runs of safety properties.

### Fairness

`FairSpec` of FileTransfer assumes that a process that runs goes on
(`WF(Step)`: the Go scheduler runs a goroutine that is not blocked, and the
pause between attempts is a timer), and that someone keeps starting the job,
with `--checksum` now and then (`SF` of StartRun: strong, because a run that
is on disables it and a crash enables it again). Neither the owner nor the
errors are fair. RunEnds needs only the first; attempts are counted, so an
owner who never stops writing cannot hold a run. But within one pass he can: a
file that grows as fast as it is read has no end, which the length bound hides;
the model's passes are finite because files are.
EventuallySynced needs `--checksum` because an edit that keeps size and mtime
is invisible to any other run without a journal entry.

`FairSpec` of RemoteCopy: each worker and each helper goes on, and Run closes
its transports. WF of a worker is enough for the mutex although others may take
it again and again, because the state in which nobody else wants it is reached:
files are finite. (Go's sync.Mutex would not starve a waiter anyway.) A broken
connection is noticed by both sides, as keepalives or the closed pipe see to.

`FairSpec` of Wakeup: a receiver's polls (a ticker), and either its notice that the
connection is lost or the daemon's handler of its call (register, wait, deadline,
answer) go on. It need not dial, and neither senders nor the daemon have to run: the
job is found by polling alone, which is what `pollOnce` is for. A gc may take the job
away again, and then nothing is promised (FindsJob ends there).

## Findings

Each is a violated property of a run of its own.

1. engine.go:545, a digest mismatch "must re-copy": the duty is forgotten if
   that attempt fails or dies, because the complete entry is already replaced
   by an in-progress one, and the next attempt skips by size and mtime.
2. README.md:76, "one-way mirror": a file whose path still is a link at the
   destination is compared and written through that link.
3. SECURITY.md:44, gc deletes a job "after ack": the ack of an earlier send of
   the same job id is still in the store when the id is sent again
   (relay.go:617 looks for the file only), and gc deletes the new job before
   anybody received it.

In more places the repository says otherwise than the code does. The models do what
the code does, and no run is spent on these:

- relay.go:153, "ready=true means the job is published": the marker alone makes
  a poll ready, and gc removes the manifest before the marker. FoundIsPublished
  says what is left of it.
- README.md:9, "crash-safe resume": a first journal line that a crash or a full
  disk cut short, with none after it that parses, is "journal corrupt" to
  every later run, which fails until someone deletes the file (journal.go:109).
- README.md:225, "never overwrite a good dest with a partial file": with the
  staging directory on another file system local.go:418 truncates and rewrites.
  HalfCopyShows says what is left of it.
- engine.go:800 and README.md:125, excluded paths are protected from `--delete`
  (postreview_test.go:112 tests it with the pattern `vendor/*`): what is below an
  excluded directory is not, if the pattern matches the directory only, although
  the walk of the source leaves it out for that (engine.go:801).
  NilMeansMirror says what the code does here: such a file is removed.
- relay.go:352, "a mid-job failure does not leave a half-updated destination":
  one between two promotions does.
- README.md:24, a mutation is "requeued": not if the size changed before a read
  pass ended. `chunk.go:169` reports it as a plain error, and the file fails at its
  first attempt.

Met on the way, and modelled, without a property of its own: staging
directories keep their directory from being removed by `--delete`; a read-only
source directory gets its mode before its files, which then fail; `Symlink`
removes a whole directory in its way, in copy mode too. `send` is to "publish a tree"
(cli/relay.go:23), but Walk lists directories too, Send opens and reads what is
listed, and a directory cannot be read: a tree with a subdirectory is never
published (`SendFails`; the relay's tests send flat trees only). A file that
was empty when walked and has grown when read gives a manifest that
validateManifest refuses. Gc removes the objects of the present manifest only:
those of an earlier manifest or of a send that stopped stay. A gc during a send
takes objects away that the send has counted as uploaded: the manifest then names
objects that are not there, and a receiver fails on the first of them. A gc that
is cut short after the manifest, or whose removal of the marker fails, leaves a
marker without a job.

Met on the way in the sessions, stores and the wakeup:

- A client that dies between creating and writing its pin file leaves an empty
  pin; every later connection reports a mismatch until someone deletes it. The
  loser of a race for the pin may meet it empty, and fails once. A daemon that
  dies between writing its certificate and its key cannot start again
  (`Load` and `Generate` are both disabled).
- `RelayWait` reads its reply without looking at the context, and the daemon does
  not notice that a waiter has gone: it stays registered until relayWaitMax and
  takes one wakeup with it. Polling makes up for it.
- README.md:158 says a signal over SSH "unblocks a waiting peer"; the registry
  is process-local (relay_signal.go:20), and each SSH connection starts a helper
  process of its own, so over SSH a notify and a wait never meet. Only the QUIC
  daemon's registry is modelled.
- waitForJob gives up if its first poll has an error; only later polls are
  counted up to storeSignalMaxHardFails.
- A commit whose answer is lost is reported as failed and may be counted and
  journaled so, although the file is in place; the next run finds it.
- S3's BeginWrite takes any error of its HEAD for "no old object", and the
  first reused block then fails the file. NFS's GetSignature takes any error
  of Open for a missing file, and sends everything.
- Not modelled, seen while reading: S3's Walk gives LastModified where Stat gives
  quiksync-mod-nano (NFS: whole seconds and the server's precision), so that a
  source there may look changed at the first attempt; NFS applies neither mode
  nor mtime, and sweeps no staging leftovers; the two stores' excludes lack some
  of the rules of fsmeta.MatchExclude; no remote transport can make links.

## Proofs

`LocalWrite_proofs` proves of LocalWrite, for every set of writers and blocks,
every set of versions and every bound:

- `TypeCorrect`: Spec => []TypeOK
- `DestStaysWhole`: Spec => []DestIsWhole
- `PowerFailureSafe`: Spec => []PowerFailureLeavesWhole
- `FailuresHaveCauses`: Spec => []FailureHasCause
- `HalfCopiesShow`: Spec => []HalfCopyShows
- `Refinement`: Spec => ImplementsAtomicFile

from VersionAssumption (versions are finite sequences of blocks) and
NullAssumption (the values for "none" are none of the others), both evaluated
by TLC in the runs.

DestIsWhole is not inductive: nothing in it says that the staging file about to
be renamed is the version and synced, nor that what a power failure may bring
back is. `IInv` adds
`SessionOK` (from the digest check on, a staging file *is* the version its
writer wants, and is synced; a writer copies only once a copy was begun; the
file it copies to exists), `DiskOK` (the destination and everything in `durable` is a
whole version, synced, with its own or its first mtime), and `FarOK` (only
where the root may be on another file system is a file staged there, which is
what lets the abstract RewriteInPlace depend on CrossDevice). `Inductive` is
proved with one lemma per conjunct (`TypeStep`, `SessionsKept`, `DiskKept`,
`FarKept`), each by cases on the action; `GoodSurvives` says that a power
failure leaves a synced file as it is, which is where the order of sync and
rename is used. `Refinement` follows with `InitMaps` and `StepMaps`: Install is
Replace, Finish is Harden or a stutter, CopyOpen is RewriteInPlace, every step
of a session that only touches its staging file is a stutter.

`FailuresHaveCauses` and `HalfCopiesShow` are proved from a second
invariant, `Calm`: a session nobody interfered with still has before it the
destination that the plan, BeginWrite and StatOld met, and its staging file is
there, young, and holds the blocks written so far; while it copies, the destination
holds just the blocks copied (`Copied`), and after that the whole version with
its mtime (`Ended`). Each check is then met
(`CalmReuses`, `CalmDigest`), and everything others do is an upset
(`DisturbedUpsets`).

`Wakeup_proofs` proves of Wakeup, for every set of senders, receivers and jobs
(those finite), every limit and every number of troubles:

- `TypeCorrect`: Spec => []TypeOK, the registry's two limits with it
- `OneCertificateAccepted`: Spec => []OneCertificate
- `FoundJobsArePublished`: Spec => []FoundIsPublished
- `NoWaiterIsForgotten`: Spec => []NoWaiterForgotten

from WakeupAssumption, which TLC evaluates in the Wakeup run. OneCertificate
needs `PinOK`: what was accepted is what the pin file holds, at most one client
is between creating the file and writing it, and the file is empty until it
has; so CreatePin and WritePin happen only when nothing was accepted yet, and
every other step compares with the file. NoWaiterForgotten
needs `Registered`: on a list, or with its channel closed, is only a
receiver whose handler waits or leaves, and under its own job only, so that a new
registration touches no job for which a wakeup is kept and meets nothing of its own
that is left; and `Sessions`: a client has no handler in the daemon before its one
request. The limits are proved with the
library's facts about cardinalities (`Limits`). `CertOK` bounds the daemon's
certificates by its troubles, and `PollsLeft` says that a receiver that goes on
has failed polls left. The steps fall into three groups that leave each
other's state alone, each with a frame lemma that says what is left to show:
the call (`CallFrame`), the registry (`RegistryFrame`), and the polls
(`PollFrame`). FoundIsPublished needs `Published`: a sender that is past its
manifest, and a marker that can be read, mean a manifest in the store unless some gc
has removed one. `GcCounts` bounds gcs by the troubles.

`FileTransfer_proofs` proves of FileTransfer, for any blocks, any length, any
number of attempts, runs and disturbances, and all flags:

- `TypeCorrect`: Spec => []TypeOK
- `CommittedVersions`: Spec => []OnlySourceVersionsCommitted
- `ClaimsAreCommitted`: ~EndlessEdits => (Spec => []JournalClaimsCommitted)
- `FinishedIsSynced`: Spec => []FinishedMeansSynced
- `FailuresHaveCauses`: Spec => []FailureHasCause
- `TwoHiddenEditsCaught`: Spec => []HiddenEditsCaught

from BoundsAssumption, NullsAssumption and OthersAssumption (what others put at the
destination is a content). With EndlessEdits the model keeps no
history (`Recorded`), so that what was committed is not known: the claim of the
journal is then not stated, and the one about versions is empty. `IInv` adds
four things the properties do not say. `World`: where mtimes do not lie, a
destination with the source's mtime is the source, and the source is no older
than the metadata of the attempt. `Past`: every version put in place is one the
history accounts for. `Journal`: the same of the entry in memory, of the last
line and of a whole line short of its newline, so that a load after any crash
finds no false claim. `Attempt`: what the attempt knows at each step. Most of it
holds under `Same`, that the source is as the metadata say for all the attempt
can tell: what was read is a prefix of the source, pass 1's signature is the
source's, the plan is of the destination, the staging file is pass 1's where
both passes read the same. After an edit that an mtime tells, `Same` is false
and nothing is claimed until the next Stat; after one that it does not tell,
the attempt still knows of each block that the source had it there (`BufHad`,
`SigHad`), which is why OnlySourceVersionsCommitted is stated by blocks. It was
stated by versions alone before, which is false, see above: the attempt to
prove it showed that. `NeverStuck` is the reuse of a block: an attempt that
nothing disturbed finds each block where the plan says. One lemma per action
shows that the step keeps `IInv` (`StepFrame`, `QuietStep` and `FailStep` for
steps that leave the files alone, `AttemptStands` for what others do to them).

HiddenEditsCaught needs a second invariant on top of `IInv`, `Counts`, which sets
the number of upsets against what the two passes have read. While pass 1 reads,
what was read continued by what is left to read is a version (`ReadsVersion`),
or there have been two edits, or one that changed the size, which Stat will see
(`Torn1`). The first edit that keeps the mtime finds a source that is still as
the metadata say (`World`), so it either changes the size or puts one block in
place of another (`EditInPlace`), and then the version before it or the one
after it has what was read and what is to come. From pass 1's Stat on, its
signature is a version or two edits are spent; pass 2 then reads a prefix of the
source unless a third is, and a source read whole that agrees with pass 1 makes
the signature a version after all. TLC confirmed `Counts` on the instance
of the run; the theorem has no bound on the length of the file or on what else goes
wrong, and none on the number of edits but the two of the property.

`Relay_proofs` proves of Relay, for any files, chunks, receivers and sends:

- `TypeCorrect`: Spec => []TypeOK
- `ManifestsAreBacked`: Spec => []ManifestIsBacked
- `FailuresHaveCauses`: Spec => []RecvFailureHasCause
- `Refinement`: Spec => ImplementsDelivery

ManifestIsBacked needs two things it does not say. `SendOK`: what a send has
read so far is in `uploaded`, and `uploaded` is in the store unless gc worked
during the send. `JobOK`: a manifest in the store is a published one, and
published manifests list their files in order. Delivery needs `RecvOK`: a
receiver stages and promotes by a published manifest, and its buffer is a
prefix of the file's chunks. That what it promotes is right does not come from
what it staged, which another receiver of the shared staging prefix may replace,
but from the digest being compared at promotion (`Promotable`). `CalmOK` (with
`Ready`) says what a receiver that nothing happened to may rely on, for
RecvFailureHasCause.

`Stores_proofs` proves of Stores, for any writers, contents, kinds of store and
troubles:

- `TypeCorrect`: Spec => []TypeOK
- `SignaturesAreTrue`: Spec => []SignatureIsTrue
- `StagedBlocksAreTrue`: Spec => []StagedBlocksTrue
- `FailuresHaveCauses`: Spec => []FailureHasCause
- `Refinement`: Spec => ImplementsStagedWrite

from ContentAssumption. SignatureIsTrue rests on `TagOK` (a digest in an object's
metadata is the object's own) and `Looks` (what GetSignature has seen so far):
whatever sidecar is found, it is used only if its digest is that of the object
read next. `Stages` says that what is staged is a prefix of what the writer
wants, `Undisturbed` that where nobody interfered everything read is still at
the path, from which FailureHasCause follows. A file on NFS that others
write while it is read is the exception: of it the theorem says only where each
block is from (`PiecedFrom`). The refinement maps a session's
states to StagedWrite's by `Caller` and rests on `Puts`: only a writer that
promoted has put, and nobody reports success without it; a Commit that has put
the object and not yet heard of it is the abstract one whose answer may be lost.

`RemoteCopy_proofs` proves of RemoteCopy, for any workers, files, blocks, room
for replies, attempts and troubles, and whichever ends are remote:

- `TypeCorrect`: Spec => []TypeOK
- `RepliesStayInStep`: Spec => []RepliesInStep
- `SessionsHaveOwners`: Spec => []SessionHasOwner
- `FailuresHaveCauses`: Spec => []FailureHasCause
- `Refinement`: (Known # 1..Blocks) => (Spec => ImplementsStagedWrite)

from BoundsAssumption and NoSessionAssumption. The refinement's hypothesis is one
of the mapping and not of the code: a destination that has every block before
the run does not show that a file was installed. `IInv` is a conversation:
`Holders` says from a worker's place alone whether it holds an end's mutex, and
`Talks` what is then on the connection, for an end nobody holds (`Quiet`), for a
call (`InCall`: the request, or its one answer) and for a stream (`InStream`:
data in order, then one reply that ends it, as long as the reader reads; once it
only drains, that the stream has an end). RepliesInStep is read off it, and a
short read is told from a whole one. `Sessions` says which blocks the helper's
session holds before a worker's call and after it, so that a commit finds all of
them, and an aborted session nothing; it claims nothing once the connection is
lost, when only `Begun` is left: a request that outlives its worker's interest
in it is of a file that was taken. That is what the refinement needs, with
`Requests`: a commit still on the way is the abstract session whose answer is
lost. `Jobs` gives each file to one worker. Lemmas on one call (`CallFacts`,
`DoesFacts`) serve the helper's loop and the local transport alike. The proof
asked for two changes of the model: the type of `sess` is now part of TypeOK,
and `Done` gives an answer to each request in one arm only (two of its arms
could apply to the same request, and CASE may then choose either).

`SyncTree_proofs` proves of SyncTree, for any names, trees, excludes, workers
and troubles:

- `TypeCorrect`: Spec => []TypeOK
- `CleanDeletes`: Spec => []DeletesOnlyAfterCleanJob
- `MirrorsOnNil`: Spec => []NilMeansMirror
- `FailuresHaveCauses`: Spec => []FailureHasCause

from OrderAssumption (the walk has every path once), ValueAssumption and
TreeAssumption (what a run may find are trees: nothing is below what is not a
directory). `IInv` adds to the types: `Phases`, what each phase of Run implies
of the lists and of the jobs; `Listing`, what the walk listed and what the
source has had since; `Metas`, that what a worker's metadata say is something its
path has had; `Jobs`, that every listed path is in the queue, with one
worker only, or has its outcome, which is what makes the result independent of
the order; `Writes`, that what a worker is writing is a version of its path, in
a directory that is there; `Placed`, path by path: a handled path has what the
source had (`Mirror`), one not yet handled is as before the run but for a
directory a worker made for a file below it (`Untouched`), and what is excluded
or not listed is left alone (`Protected`, `Unlisted`); and `Deletes`: what is on
deleteExtras' lists may go, and every extra is on a list or was left for good
(`LeftBehind`), which needs that nothing below it is still to come, the reason
for deepest first. `StepKeeps` says what is left to show of a worker's step:
which path it touched (`Touches`) and, if it failed, why (`Cause`); Take,
MakeDir, MakeLink, Begin, Install and IOError each have a lemma that shows it.
`RemovalKeeps` and `StaysBehind` do that for RemoveFile and RemoveDir. The proof
of NilMeansMirror showed that an earlier form of it was false, in a tree no run
had: an empty directory inside a read-only one stays, and Run returns nil.

Only model-checked: liveness, which this prover cannot express under fairness:
RunEnds, EventuallySynced, FindsJob and WaitEnds. Every invariant and every
refinement that a passing run checks is also a theorem.

## Not modelled, and why

- `--dry-run` (writes nothing) and StableWindow (one more way into
  "unstable", by wall-clock time).
- Rolling hash, codecs, JSON, log lines: data, or libraries.
- The tuner's choice of workers and chunk size, but for its consequence that
  an index entry made with another chunk average is no entry.
- Windows' and NFS's rename semantics; users and permissions beyond a
  directory that may not be written to.
- Other job ids of a relay (jobs share nothing in the store), file
  modes and mtimes of a manifest, the size limits of ReadAll.
- Of the remote protocol: Walk, Remove, MkdirAll and the peer statistics (plain
  calls like Stat), messages that do not decode, and limits of their size.
- Of S3 and NFS: listing, credentials, mounting, keys and paths.
- `--signal ssh`, see above; a second daemon or a second address.
- The limiter (a token bucket over real time), the tuner's scores (floating
  point heuristics), progress output, compression, endpoint strings and the
  command line.

## Plan

1. Pure operators against reference definitions: findCut's bounds and cover,
   Diff with lengths, ValidateReuseRange and ValidateWriteRange at 64 bits,
   autotuner clamps, the limiter as a discrete bucket.
2. Theorems about those operators, as far as no induction over data is needed.
