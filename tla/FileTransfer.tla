---------------------------- MODULE FileTransfer ----------------------------
(***************************************************************************)
(* One regular file, copied by internal/engine/engine.go (transferOne and  *)
(* tryTransfer) to a local destination while its owner keeps editing it,   *)
(* run after run.  A run may be killed anywhere; the journal and the index *)
(* are what the next run finds on disk.                                    *)
(*                                                                         *)
(* A file's content is a sequence of blocks.  A block is what the chunker  *)
(* cuts: one block is read, digested, sent or reused at a time, and a      *)
(* digest stands for the content it is the digest of.  Stat returns size   *)
(* and modification time, which is all the code calls a generation.        *)
(*                                                                         *)
(* Two processes other than the transfer act on the files: the owner of    *)
(* the source (in place, one block at a time, as any program writes to an  *)
(* open file) and whatever else touches the destination.                   *)
(***************************************************************************)
EXTENDS Naturals, Sequences, FiniteSets

CONSTANTS Block,            \* the contents one chunk can have
          MaxLen,           \* longest file, in blocks
          MaxMtime,         \* bound: the source's mtimes are 1..MaxMtime
          EndlessEdits,     \* the owner may set the mtime back, and so never stop
          MaxFileAttempts,  \* Config.MaxFileAttempts
          Options,          \* the command line flags a run may be given
          OthersData,       \* what others than a transfer may put at the dest
          MaxUpsets,        \* bound: crashes, I/O errors and edits that keep the mtime
          NoFile, Blank,    \* nothing there; a block of a truncated staging file
          NoDigest,         \* of a journal entry without one
          NoEntry, Nothing, Fragment   \* see JournalLog

Flags == [checksum: BOOLEAN, resume: BOOLEAN, skipUnstable: BOOLEAN]

ASSUME BoundsAssumption == /\ MaxLen \in Nat
                           /\ MaxMtime \in Nat \ {0}
                           /\ MaxFileAttempts \in Nat \ {0}
                           /\ MaxUpsets \in Nat
                           /\ EndlessEdits \in BOOLEAN
                           /\ Options \subseteq Flags

ForeignTime == 0            \* an mtime the source never has

Content == UNION {[1..n -> Block] : n \in 0..MaxLen}
File    == [data: Content, mtime: 0..MaxMtime]
Gen     == [size: 0..MaxLen, mtime: 0..MaxMtime]
GenOf(f) == [size |-> Len(f.data), mtime |-> f.mtime]
BlocksOf(d) == {d[i] : i \in 1..Len(d)}

Entry == [status: {"in_progress", "complete"}, digest: Content \cup {NoDigest}, gen: Gen]
           \cup [status: {"failed"}]

ASSUME OthersAssumption == OthersData \subseteq Content
ASSUME NullsAssumption == /\ NoFile \notin File \cup Content \cup Gen
                          /\ Blank \notin Block /\ NoDigest \notin Content
                          /\ NoEntry \notin Entry
                          /\ Nothing \notin Entry
                          /\ Fragment \notin Entry
                          /\ Nothing # Fragment

INSTANCE JournalLog

VARIABLES
    \* what the disks hold
    src, gone,              \* the source file, whether it was unlinked
    dst,                    \* the destination file
    log,                    \* the job's journal file
    idx,                    \* the index file: signature last committed, by generation
    \* the process
    pc, opt, entry,         \* entry: Journal.by, the journal in memory
    meta, attempts, force,  \* transferOne: FileMeta, attempts; forceTransfer
    buf, sig, destSig,      \* blocks read so far; pass 1's and the dest's signature
    stage, oldGen,          \* the write session: staging file, dest as it was opened
    result,
    \* history
    upsets,                 \* how many of the bounded disturbances happened
    versions,               \* every version the source has had
    committed,              \* every version a write session put in place
    touched,                \* the source changed since meta was read
    meddled,                \* the dest was changed by others during this run
    forged,                 \* src or dst was edited under an unchanged size and mtime
    vouched,                \* this attempt had a complete journal entry to check against
    owed,                   \* a resume check found the dest wrong; not recopied since
    faulted                 \* an I/O error was injected in this run

disks   == <<src, gone, dst, log, idx>>
locals  == <<force, buf, sig, destSig, stage, oldGen>>
job     == <<opt, meta, attempts>>
history == <<versions, committed, touched, meddled, forged, vouched, owed, faulted>>
vars    == <<disks, pc, job, entry, locals, result, upsets, history>>

\* Values of the process's variables while no run is on.
NoFlags == [checksum |-> FALSE, resume |-> FALSE, skipUnstable |-> FALSE]
NoMeta  == [size |-> 0, mtime |-> ForeignTime]

Pcs == {"idle", "journal", "hashD", "openD", "readD", "quick", "open1", "read1", "stat1", "plan",
        "inProgress", "begin", "open2", "read2", "stat2", "commit", "index",
        "complete", "plain", "unstable", "sleep", "done"}
-----------------------------------------------------------------------------
\* What goes wrong does so MaxUpsets times at most.
Upset == upsets < MaxUpsets /\ upsets' = upsets + 1

\* The history of files; none is kept of an owner who never stops writing.
Recorded(files, f) == IF EndlessEdits THEN files ELSE files \cup {f}

(* Where a step leaves the attempt.  tryTransfer's variables die with it, and
   a write session that was not committed is aborted. *)
Goto(l) == pc' = l /\ UNCHANGED result
Drop    == /\ force' = FALSE
           /\ buf' = <<>> /\ sig' = <<>> /\ destSig' = NoFile
           /\ stage' = <<>> /\ oldGen' = NoFile
Fail(l) == Goto(l) /\ Drop          \* l: "plain", or "unstable" (unstableError)
End(r)  == pc' = "done" /\ result' = r /\ Drop

\* Mutant of SameGeneration: the mtime is not compared.
SameSize == ~gone /\ Len(src.data) = meta.size

\* The generation check of both Stats: the source is there, size and mtime as
\* in the metadata this attempt started from.
SameGeneration == ~gone /\ GenOf(src) = meta

\* The journal entry the resume check may act on, the dest file having the
\* size and mtime it records.
Resumable ==
    /\ opt.resume
    /\ entry # NoEntry
    /\ entry.status = "complete"
    /\ entry.gen = meta
    /\ ~opt.checksum
    /\ dst # NoFile
    /\ GenOf(dst) = entry.gen

\* Mutant of LooksTheSame: --checksum is ignored.
LooksTheSameAlways == dst # NoFile /\ GenOf(dst) = meta

\* The size and mtime comparison.
LooksTheSame == ~opt.checksum /\ dst # NoFile /\ GenOf(dst) = meta

\* The index has a signature for the dest's present size and mtime; the live
\* content decides whether it may be used.
IndexHit == /\ ~opt.checksum /\ ~force
            /\ idx # NoFile /\ dst # NoFile
            /\ GenOf(idx) = GenOf(dst)

\* Mutants of DestSignature: the index is believed without a look at the dest;
\* a missing dest has the signature of an empty file.
IndexSignature == IF IndexHit THEN idx.data
                  ELSE IF dst = NoFile THEN NoFile ELSE dst.data
EmptySignature == IF dst = NoFile THEN <<>> ELSE dst.data

\* The signature the dest is compared with: the index's if the dest still has
\* that content, otherwise (and when that one is empty) a fresh one.
DestSignature == IF IndexHit /\ idx.data = dst.data THEN idx.data
                 ELSE IF dst = NoFile THEN NoFile ELSE dst.data

DestBlocks == IF destSig = NoFile THEN {} ELSE BlocksOf(destSig)
FullWire   == DestBlocks = {}

\* delta.Diff: blocks of the source's signature the dest does not have.
Missing == BlocksOf(sig) \ DestBlocks
\* ... and the dest block that stands in at offset i (first occurrence wins).
HasReuse(i) == i \in 1..Len(sig) /\ sig[i] \in DestBlocks
OldOffset(i) == CHOOSE k \in 1..Len(destSig) :
                    /\ destSig[k] = sig[i]
                    /\ \A j \in 1..(k - 1) : destSig[j] # sig[i]

\* The dest path still is the file BeginWrite opened, by size and mtime.
OldUnchanged == dst # NoFile /\ oldGen # NoFile /\ GenOf(dst) = oldGen

-----------------------------------------------------------------------------
(* One run of the job: the journal is opened and read, the walk finds the file.
   A journal that cannot be read ends the run before it does anything. *)
StartRun(o) ==
    /\ pc = "idle" /\ ~gone
    /\ ~Unreadable(log)
    /\ opt' = o
    /\ entry' = Loaded(log)
    /\ meta' = GenOf(src) /\ attempts' = 1
    /\ pc' = "journal" /\ result' = "none"
    /\ UNCHANGED <<disks, locals, upsets, history>>

\* idx.Delete, whose error is let go.
ForgetIndex == \/ idx' = NoFile /\ UNCHANGED upsets
               \/ idx # NoFile /\ UNCHANGED idx /\ Upset

\* Copy, whatever the cheaper checks say: the journal entry has no digest, or
\* one that the dest or the source no longer has under the recorded size and mtime.
ForceTransfer == force' = TRUE /\ ForgetIndex
MustRecopy    == ForceTransfer /\ owed' = TRUE

CheckJournal ==
    /\ pc = "journal"
    /\ vouched' = Resumable
    /\ \/ /\ ~Resumable
          /\ Goto("quick") /\ UNCHANGED <<force, idx, upsets>>
       \/ /\ Resumable /\ entry.digest = NoDigest
          /\ ForceTransfer /\ Goto("open1")
       \/ /\ Resumable /\ entry.digest # NoDigest
          /\ Goto("hashD") /\ UNCHANGED <<force, idx, upsets>>
    /\ UNCHANGED <<src, gone, dst, log, job, entry, buf, sig, destSig, stage, oldGen,
                   versions, committed, touched, meddled, forged, owed, faulted>>

\* The dest is opened and hashed.
DigestDest ==
    /\ pc = "hashD"
    /\ \/ dst = NoFile /\ Fail("plain") /\ UNCHANGED <<idx, owed, upsets>>
       \/ /\ dst # NoFile /\ dst.data = entry.digest
          /\ Goto("openD") /\ UNCHANGED <<locals, idx, owed, upsets>>
       \/ /\ dst # NoFile /\ dst.data # entry.digest
          /\ MustRecopy /\ Goto("open1") /\ UNCHANGED <<buf, sig, destSig, stage, oldGen>>
    /\ UNCHANGED <<src, gone, dst, log, job, entry, versions, committed, touched,
                   meddled, forged, vouched, faulted>>

\* OpenRead of the source, before each of its three readings.
Open(l, r) ==
    /\ pc = l
    /\ \/ gone /\ Fail("plain")
       \/ ~gone /\ Goto(r) /\ buf' = <<>>
            /\ UNCHANGED <<force, sig, destSig, stage, oldGen>>
    /\ UNCHANGED <<disks, job, entry, upsets, history>>

OpenSource == Open("openD", "readD") \/ Open("open1", "read1") \/ Open("open2", "read2")

\* The reader meets the file as it is now, an unlinked one included.
MoreToRead == Len(buf) < Len(src.data)
NextBlock  == src.data[Len(buf) + 1]
\* streamChunks: the bytes read have to be as many as the caller expects.
HintHolds  == meta.size = 0 \/ meta.size = Len(buf)

ReadBlock ==
    /\ pc \in {"readD", "read1"}
    /\ MoreToRead
    /\ buf' = Append(buf, NextBlock)
    /\ UNCHANGED <<disks, pc, job, entry, force, sig, destSig, stage, oldGen, result,
                   upsets, history>>

DigestRead ==
    /\ pc = "readD" /\ ~MoreToRead
    /\ \/ buf = entry.digest /\ End("skipped") /\ UNCHANGED <<idx, owed, upsets>>
       \/ /\ buf # entry.digest
          /\ MustRecopy /\ Goto("open1") /\ buf' = <<>>
          /\ UNCHANGED <<sig, destSig, stage, oldGen>>
    /\ UNCHANGED <<src, gone, dst, log, job, entry, versions, committed, touched,
                   meddled, forged, vouched, faulted>>

QuickCheck ==
    /\ pc = "quick"
    /\ \/ LooksTheSame /\ End("skipped")
       \/ ~LooksTheSame /\ Goto("open1") /\ UNCHANGED locals
    /\ UNCHANGED <<disks, job, entry, upsets, history>>

Pass1Read ==
    /\ pc = "read1" /\ ~MoreToRead
    /\ \/ ~HintHolds /\ Fail("plain")
       \/ /\ HintHolds
          /\ sig' = buf /\ buf' = <<>> /\ Goto("stat1")
          /\ UNCHANGED <<force, destSig, stage, oldGen>>
    /\ UNCHANGED <<disks, job, entry, upsets, history>>

Stat(l, next) ==
    /\ pc = l
    /\ \/ SameGeneration /\ Goto(next) /\ UNCHANGED locals
       \/ ~SameGeneration /\ Fail("unstable")
    /\ UNCHANGED <<disks, job, entry, upsets, history>>

StatSource == Stat("stat1", "plan") \/ Stat("stat2", "commit")

\* The dest's signature, its comparison with pass 1's, and the plan.  (Where
\* the dest's Stat fails the signature is a fresh one too, and the index is left.)
Plan ==
    /\ pc = "plan"
    /\ IF IndexHit /\ idx.data # dst.data THEN ForgetIndex ELSE UNCHANGED <<idx, upsets>>
    /\ \/ ~force /\ DestSignature = sig /\ End("skipped")
       \/ /\ force \/ DestSignature # sig
          /\ destSig' = DestSignature /\ Goto("inProgress")
          /\ UNCHANGED <<force, buf, sig, stage, oldGen>>
    /\ UNCHANGED <<src, gone, dst, log, job, entry, history>>
-----------------------------------------------------------------------------
\* Mutant of PutEntry: the copy is recorded as complete when it begins.
EagerEntry == IF pc \in {"inProgress", "complete"}
              THEN [status |-> "complete", digest |-> sig, gen |-> meta]
              ELSE [status |-> "failed"]

(* The journal line the process is about to append.  Put changes the map in
   memory only once the line is on disk. *)
PutEntry ==
    CASE pc = "inProgress" -> [status |-> "in_progress", digest |-> sig, gen |-> meta]
      [] pc = "complete"   -> [status |-> "complete", digest |-> sig, gen |-> meta]
      [] OTHER             -> [status |-> "failed"]

PutInProgress ==
    /\ pc = "inProgress"
    /\ log' = Appended(log, PutEntry) /\ entry' = PutEntry
    /\ Goto("begin")
    /\ UNCHANGED <<src, gone, dst, idx, job, locals, upsets, history>>

BeginWrite ==
    /\ pc = "begin"
    /\ stage' = [i \in 1..Len(sig) |-> Blank]
    /\ oldGen' = IF dst = NoFile THEN NoFile ELSE GenOf(dst)
    /\ Goto("open2")
    /\ UNCHANGED <<disks, job, entry, force, buf, sig, destSig, upsets, history>>

\* Pass 2, one block: the source is read again and the block goes to the
\* session as its digest says, sent when the plan misses it and otherwise
\* reused by its OFFSET in the plan, whatever block was read there.
SendBlock ==
    LET i == Len(buf) + 1
        block == NextBlock
        sent == block \in Missing \/ FullWire
        canWrite == sent /\ i <= Len(stage)
        canReuse == /\ ~sent
                    /\ HasReuse(i)
                    /\ OldUnchanged
                    /\ OldOffset(i) <= Len(dst.data)
                    /\ dst.data[OldOffset(i)] = sig[i]
    IN
    /\ pc = "read2" /\ MoreToRead
    /\ \/ /\ canWrite \/ canReuse
          /\ stage' = [stage EXCEPT ![i] = IF sent THEN block ELSE sig[i]]
          /\ buf' = Append(buf, block) /\ Goto("read2")
          /\ UNCHANGED <<force, sig, destSig, oldGen>>
       \/ ~canWrite /\ ~canReuse /\ Fail("plain")
    /\ UNCHANGED <<disks, job, entry, upsets, history>>

\* Mutant of ReadTwice: the digest of pass 2 is not looked at.
ReadOnce == TRUE

\* Pass 2 has read what pass 1 read.
ReadTwice == buf = sig

Pass2Read ==
    /\ pc = "read2" /\ ~MoreToRead
    /\ \/ ~HintHolds /\ Fail("plain")
       \/ HintHolds /\ ~ReadTwice /\ Fail("unstable")
       \/ HintHolds /\ ReadTwice /\ Goto("stat2") /\ UNCHANGED locals
    /\ UNCHANGED <<disks, job, entry, upsets, history>>

\* WriteSession.Commit hashes the staging file again; the rename carries the
\* source's mtime with it.
Commit ==
    /\ pc = "commit"
    /\ \/ stage # sig /\ Fail("plain") /\ UNCHANGED <<dst, committed, forged, owed>>
       \/ /\ stage = sig
          /\ dst' = [data |-> sig, mtime |-> meta.mtime]
          /\ committed' = Recorded(committed, dst')
          /\ forged' = (forged /\ touched) /\ owed' = FALSE
          /\ Goto("index") /\ UNCHANGED locals
    /\ UNCHANGED <<src, gone, log, idx, job, entry, upsets, versions, touched, meddled,
                   vouched, faulted>>

PutIndex ==
    /\ pc = "index"
    /\ idx' = [data |-> sig, mtime |-> meta.mtime]
    /\ Goto("complete")
    /\ UNCHANGED <<src, gone, dst, log, job, entry, locals, upsets, history>>

PutComplete ==
    /\ pc = "complete"
    /\ log' = Appended(log, PutEntry) /\ entry' = PutEntry
    /\ End("ok")
    /\ UNCHANGED <<src, gone, dst, idx, job, upsets, history>>
-----------------------------------------------------------------------------
\* Mutant of GiveUp: one attempt too many.
GiveUpLate == pc = "plain" \/ opt.skipUnstable \/ attempts > MaxFileAttempts

(* transferOne: what becomes of a failed attempt. *)
GiveUp == pc = "plain" \/ opt.skipUnstable \/ attempts >= MaxFileAttempts

PutFailed ==
    /\ pc \in {"plain", "unstable"} /\ GiveUp
    /\ log' = Appended(log, PutEntry) /\ entry' = PutEntry
    /\ End("failed")
    /\ UNCHANGED <<src, gone, dst, idx, job, upsets, history>>

BackOff ==
    /\ pc = "unstable" /\ ~GiveUp
    /\ Goto("sleep")
    /\ UNCHANGED <<disks, job, entry, locals, upsets, history>>

\* Mutant of Retry: the attempt is not counted.
UncountedRetry ==
    /\ pc = "sleep"
    /\ IF gone THEN UNCHANGED <<meta, touched>>
       ELSE meta' = GenOf(src) /\ touched' = FALSE
    /\ Goto("journal")
    /\ UNCHANGED <<disks, opt, attempts, entry, locals, upsets, versions, committed,
                   meddled, forged, vouched, owed, faulted>>

\* After the pause the metadata is read again; if that fails the old is kept.
Retry ==
    /\ pc = "sleep"
    /\ attempts' = attempts + 1
    /\ IF gone THEN UNCHANGED <<meta, touched>>
       ELSE meta' = GenOf(src) /\ touched' = FALSE
    /\ Goto("journal")
    /\ UNCHANGED <<disks, opt, entry, locals, upsets, versions, committed, meddled,
                   forged, vouched, owed, faulted>>

\* The process is gone, and its memory with it.
ProcessEnds ==
    /\ pc' = "idle" /\ result' = "none" /\ entry' = NoEntry
    /\ opt' = NoFlags /\ meta' = NoMeta /\ attempts' = 1
    /\ Drop
    /\ touched' = FALSE /\ meddled' = FALSE /\ vouched' = FALSE /\ faulted' = FALSE
    /\ UNCHANGED <<versions, committed, forged, owed>>

EndRun ==
    /\ pc = "done"
    /\ ProcessEnds
    /\ UNCHANGED <<disks, upsets>>

Step == \/ CheckJournal \/ DigestDest \/ OpenSource \/ ReadBlock \/ DigestRead \/ QuickCheck
        \/ Pass1Read \/ StatSource \/ Plan \/ PutInProgress \/ BeginWrite \/ SendBlock
        \/ Pass2Read \/ Commit \/ PutIndex \/ PutComplete \/ PutFailed \/ BackOff
        \/ Retry \/ EndRun
-----------------------------------------------------------------------------
(* What goes wrong around the transfer. *)
Putting == pc \in {"inProgress", "complete", "plain"} \/ (pc = "unstable" /\ GiveUp)

\* A file operation returns an error (a canceled context among them).
IOError ==
    /\ Upset /\ faulted' = TRUE
    /\ \/ /\ pc \in {"hashD", "openD", "readD", "open1", "read1", "plan", "begin", "open2",
                    "read2", "commit"}
          /\ Fail("plain") /\ UNCHANGED log
       \/ /\ pc \in {"stat1", "stat2"}
          /\ Fail("unstable") /\ UNCHANGED log
       \/ /\ pc \in {"inProgress", "complete"}       \* "journal put: ..."
          /\ log' \in Interrupted(log, PutEntry) /\ Fail("plain")
       \/ /\ pc \in {"plain", "unstable"} /\ GiveUp  \* _ = journ.Put(...)
          /\ log' \in Interrupted(log, PutEntry) /\ End("failed")
       \/ /\ pc = "sleep"                            \* sleepCtx: not journaled
          /\ End("failed") /\ UNCHANGED log
    /\ UNCHANGED <<src, gone, dst, idx, job, entry, versions, committed, touched, meddled,
                   forged, vouched, owed>>

\* Errors that are let go: of a Stat of the dest, or of the source after the
\* pause, and of an index write.
LetGo ==
    /\ Upset
    /\ \/ /\ pc = "journal" /\ Resumable
          /\ vouched' = FALSE /\ Goto("quick") /\ UNCHANGED <<idx, attempts>>
       \/ /\ pc = "quick" /\ LooksTheSame
          /\ Goto("open1") /\ UNCHANGED <<idx, attempts, vouched>>
       \/ /\ pc = "sleep"
          /\ attempts' = attempts + 1 /\ Goto("journal") /\ UNCHANGED <<idx, vouched>>
       \/ /\ pc = "index"
          /\ idx' \in {idx, NoFile} /\ Goto("complete") /\ UNCHANGED <<attempts, vouched>>
    /\ UNCHANGED <<src, gone, dst, log, opt, meta, entry, locals, versions, committed,
                   touched, meddled, forged, owed, faulted>>

\* The process is killed.  A journal append or an index write it was in is cut
\* short; the staging file is left behind and never looked at again.
Crash ==
    /\ pc # "idle"
    /\ Upset
    /\ log' \in (IF Putting THEN Interrupted(log, PutEntry) ELSE {log})
    /\ idx' \in (IF pc = "index" THEN {idx, NoFile} ELSE {idx})
    /\ ProcessEnds
    /\ UNCHANGED <<src, gone, dst>>

\* One write of the source's owner: a block replaced or appended, or the tail
\* cut off.  The clock moves on, unless the owner keeps or sets back the mtime.
Edits == {[src.data EXCEPT ![i] = block] : i \in DOMAIN src.data, block \in Block}
           \cup {SubSeq(src.data, 1, n) : n \in 0..Len(src.data)}
           \cup (IF Len(src.data) < MaxLen THEN {Append(src.data, block) : block \in Block} ELSE {})

EditSource ==
    \E d \in Edits \ {src.data}, m \in 1..MaxMtime :
        /\ ~gone
        /\ \/ m = src.mtime + 1 /\ UNCHANGED <<forged, upsets>>
           \/ m = src.mtime /\ Upset /\ forged' = TRUE
           \/ m < src.mtime /\ EndlessEdits /\ forged' = TRUE /\ UNCHANGED upsets
        /\ src' = [data |-> d, mtime |-> m]
        /\ versions' = Recorded(versions, src')
        /\ touched' = (pc # "idle")
        /\ UNCHANGED <<gone, dst, log, idx, pc, job, entry, locals, result, committed,
                       meddled, vouched, owed, faulted>>

RemoveSource ==
    /\ ~gone /\ Upset
    /\ gone' = TRUE /\ touched' = (pc # "idle")
    /\ UNCHANGED <<src, dst, log, idx, pc, job, entry, locals, result, versions, committed,
                   meddled, forged, vouched, owed, faulted>>

\* The dest is removed or rewritten by someone else, or damaged in place.
MeddleWithDest ==
    /\ Upset
    /\ \/ dst' \in {NoFile} \cup [data : OthersData, mtime : {ForeignTime}] /\ UNCHANGED forged
       \/ /\ dst # NoFile
          /\ \E d \in [1..Len(dst.data) -> Block] : dst' = [dst EXCEPT !.data = d]
          /\ forged' = TRUE
    /\ dst' # dst
    /\ meddled' = (pc # "idle")
    /\ UNCHANGED <<src, gone, log, idx, pc, job, entry, locals, result, versions, committed,
                   touched, vouched, owed, faulted>>

Environment == IOError \/ LetGo \/ Crash \/ EditSource \/ RemoveSource \/ MeddleWithDest

\* What a version of the program left that recorded no digest of its copy.
OldLog == [EmptyLog EXCEPT !.last = [status |-> "complete", digest |-> NoDigest,
                                     gen |-> GenOf(src)]]

Init ==
    /\ src \in [data : Content, mtime : {1}] /\ gone = FALSE
    /\ \/ /\ log = EmptyLog /\ idx = NoFile
          /\ dst \in {NoFile} \cup [data : OthersData, mtime : {ForeignTime}]
       \/ log = OldLog /\ idx \in {NoFile, src} /\ dst = src
    /\ pc = "idle" /\ result = "none" /\ entry = NoEntry
    /\ opt = NoFlags /\ meta = NoMeta /\ attempts = 1
    /\ force = FALSE /\ buf = <<>> /\ sig = <<>> /\ destSig = NoFile
    /\ stage = <<>> /\ oldGen = NoFile
    /\ upsets = 0 /\ versions = {src} /\ committed = {}
    /\ touched = FALSE /\ meddled = FALSE /\ forged = FALSE
    /\ vouched = FALSE /\ owed = FALSE /\ faulted = FALSE

Next == (\E o \in Options : StartRun(o)) \/ Step \/ Environment

Spec == Init /\ [][Next]_vars

(* A run that was started is carried on by its process; and somebody keeps
   running the job, with --checksum now and then. *)
FairSpec == /\ Spec
            /\ WF_vars(Step)
            /\ SF_vars(\E o \in Options : o.checksum /\ StartRun(o))
-----------------------------------------------------------------------------
\* The source had this block at offset i, under mtime m; two contents under mtime m.
Had(block, i, m) ==
    \E v \in versions : v.mtime = m /\ i \in DOMAIN v.data /\ v.data[i] = block
Ambiguous(m) == \E v, w \in versions : v # w /\ v.mtime = m /\ w.mtime = m

(* Type invariant of the state above. *)
TypeOK ==
    /\ src \in File /\ gone \in BOOLEAN
    /\ dst \in File \cup {NoFile} /\ idx \in File \cup {NoFile}
    /\ log \in Log /\ entry \in Entry \cup {NoEntry}
    /\ pc \in Pcs /\ opt \in Flags /\ result \in {"none", "ok", "skipped", "failed"}
    /\ meta \in Gen /\ attempts \in 1..MaxFileAttempts /\ force \in BOOLEAN
    /\ buf \in Content /\ sig \in Content /\ destSig \in Content \cup {NoFile}
    /\ stage \in Seq(Block \cup {Blank}) /\ oldGen \in Gen \cup {NoFile}
    /\ upsets \in 0..MaxUpsets /\ versions \subseteq File /\ committed \subseteq File
    /\ touched \in BOOLEAN /\ meddled \in BOOLEAN /\ forged \in BOOLEAN
    /\ vouched \in BOOLEAN /\ owed \in BOOLEAN /\ faulted \in BOOLEAN

(* What a write session puts in place is made of blocks that the source really
   had at that place under that mtime, however the owner's writes fall between
   the reads of the two passes: never of a block that was reused or sent for
   another offset, or never written.  And all of it is one version, unless the
   owner changed the source under one and the same mtime. *)
OnlySourceVersionsCommitted ==
    \A f \in committed :
        /\ \A i \in 1..Len(f.data) : Had(f.data[i], i, f.mtime)
        /\ f \in versions \/ Ambiguous(f.mtime)

(* Two writes of the owner that keep the mtime do not get past the double read,
   whatever else happens: what is put in place is a version of the source. *)
HiddenEditsCaught == upsets <= 2 => committed \subseteq versions

(* A "complete" entry, in memory or found by the next run after any number of
   crashes, is about a version that was put in place: the journal never runs
   ahead of the rename. *)
JournalClaimsCommitted ==
    \A e \in {entry, Loaded(log)} \ {NoEntry} :
        e.status = "complete" /\ e.digest # NoDigest =>
            [data |-> e.digest, mtime |-> e.gen.mtime] \in committed

(* A file reported copied or skipped is the source's, if neither side was
   changed by others while the attempt ran.  A skip by size and mtime alone
   is only as good as the mtimes: where they lie, --checksum or a complete
   journal entry checked by this attempt still guarantee it. *)
FinishedMeansSynced ==
    /\ pc = "done" /\ result \in {"ok", "skipped"}
    /\ ~touched /\ ~meddled
    /\ opt.checksum \/ vouched \/ ~forged
    => dst # NoFile /\ dst.data = src.data

(* A file fails only for something that happened during the attempt: what
   earlier runs, crashes and edits left on disk (an index entry for other
   content, a stale journal, a damaged dest) never makes a copy fail, nor does
   an error that is let go. *)
FailureHasCause ==
    pc = "done" /\ result = "failed" => touched \/ meddled \/ faulted

(* Liveness: every run ends, also if the owner never stops writing. *)
RunEnds == pc # "idle" ~> pc = "idle"

(* Liveness: once the source is left alone, the dest ends up the same as the
   source, unless the source is gone or no run can open the journal. *)
EventuallySynced ==
    <>[][UNCHANGED src]_vars =>
        <>[](gone \/ Unreadable(log) \/ (dst # NoFile /\ dst.data = src.data))

(* engine.go:545: a digest mismatch despite matching size and mtime must be
   re-copied, so it cannot be skipped before that was done. *)
MismatchIsRecopied ==
    pc = "done" /\ result = "skipped" /\ owed /\ ~touched /\ ~meddled
        => dst # NoFile /\ dst.data = src.data
=============================================================================
