----------------------------- MODULE LocalWrite -----------------------------
(***************************************************************************)
(* Write sessions of internal/transport/local/local.go on one destination  *)
(* file: several writers (workers of two jobs, streams of a daemon), each  *)
(* with a staging file of its own, which is checked, synced and renamed    *)
(* over the destination.  A writer can be killed and the machine can lose  *)
(* power; a rename and a file's bytes survive that only if they were       *)
(* synced.                                                                 *)
(*                                                                         *)
(* A version is a sequence of blocks, one chunk each, and is its own mtime *)
(* (versions differ in it).  Staging is beside the destination or, if that *)
(* fails, under the transport's root, which may be another file system:    *)
(* rename then fails with EXDEV and the staging file is copied over the    *)
(* destination.                                                            *)
(***************************************************************************)
EXTENDS Naturals, Sequences

CONSTANTS Session,      \* the writers
          Block,        \* contents of a chunk
          Version,      \* the contents writers want to install
          CrossDevice,  \* the root may be on another file system than the dest
          NoFile,       \* no such file
          Blank,        \* a block that is none of a version's: not written, lost, other
          Now,          \* mtime of a file that was just written to
          Undefined,    \* see AtomicFile
          MaxTroubles   \* bound: kills, power failures, removals, sweeps by age,
                        \* changes of the source, copies across file systems

Data == Seq(Block \cup {Blank})
File == [data : Data, mtime : Version \cup {Now}, synced : BOOLEAN]
FileStat == [size : Nat, mtime : Version \cup {Now}]

ASSUME VersionAssumption == /\ Version \subseteq Seq(Block)
                            /\ CrossDevice \in BOOLEAN
                            /\ MaxTroubles \in Nat

ASSUME NullAssumption == /\ NoFile \notin File \cup Data \cup FileStat
                         /\ Now \notin Version
                         /\ Undefined \notin Version \cup {NoFile}

VARIABLES dst,      \* the destination: a file, or NoFile
          durable,  \* what its directory entry may be after a power failure
          temp,     \* each session's staging file
          sess,     \* each session
          crossed,  \* history: a copy across file systems was begun
          troubles  \* how many of the bounded troubles happened

vars  == <<dst, durable, temp, sess, crossed, troubles>>

TempFile == [data : Data, synced : BOOLEAN,
             linked : BOOLEAN,      \* still in the staging directory
             aged : BOOLEAN]        \* not written to for 24 hours
NoTemp == [data |-> <<>>, synced |-> FALSE, linked |-> FALSE, aged |-> FALSE]

States == {"idle", "planned", "opening", "open", "verified", "copying", "installed", "failed"}

SessionState ==
    [st : States,
     want : Data,                     \* the content Commit is given the digest of
     seen : Data \cup {NoFile},       \* the dest as the plan was made
     old : Data \cup {NoFile},        \* writeSession.old
     oldLive : BOOLEAN,               \* that file still is the dest
     oldStat : FileStat \cup {NoFile},\* oldSize, oldModNano
     far : BOOLEAN,                   \* staged on the other file system
     out : BOOLEAN,                   \* the file being copied to still is the dest
     n : Nat,                         \* blocks written
     upset : BOOLEAN]                 \* history: others interfered with this session
Idle == [st |-> "idle", want |-> <<>>, seen |-> NoFile, old |-> NoFile,
         oldLive |-> FALSE, oldStat |-> NoFile, far |-> FALSE, out |-> FALSE,
         n |-> 0, upset |-> FALSE]

\* Mutant of StatOf: the last offset is taken for the size.
LastOffsetStat(f) == [size |-> Len(f.data) - 1, mtime |-> f.mtime]
StatOf(f) == [size |-> Len(f.data), mtime |-> f.mtime]
BlocksOf(d) == {d[i] : i \in 1..Len(d)}
-----------------------------------------------------------------------------
(* What a change of the destination is to a session that did not make it. *)
Disturbed(r) == IF r.st = "idle" THEN r ELSE [r EXCEPT !.upset = TRUE]
\* the path now names another file, or none
Replaced(r) == Disturbed([r EXCEPT !.oldLive = FALSE, !.out = FALSE])
\* the file itself was written to
Overwritten(r, d) == Disturbed(IF r.oldLive THEN [r EXCEPT !.old = d] ELSE r)

Become(s, r) == sess' = [sess EXCEPT ![s] = r]

\* The engine plans a transfer with the dest's signature in hand.
Plan(s, v) ==
    /\ sess[s].st = "idle" /\ ~temp[s].linked
    /\ Become(s, [Idle EXCEPT !.st = "planned", !.want = v,
                              !.seen = IF dst = NoFile THEN NoFile ELSE dst.data])
    /\ temp' = [temp EXCEPT ![s] = NoTemp]
    /\ UNCHANGED <<dst, durable, crossed, troubles>>

\* gcStaging, of files whose age is over 24 hours, whosever they are.
Collected(f) == IF f.aged THEN [f EXCEPT !.linked = FALSE] ELSE f

\* BeginWrite: the staging directory is swept, a staging file of the right
\* size is created under a name no other has, and the dest is opened.
BeginWrite(s, far) ==
    /\ sess[s].st = "planned"
    /\ temp' = [t \in Session |->
                  IF t = s THEN [NoTemp EXCEPT !.data = [i \in 1..Len(sess[s].want) |-> Blank],
                                               !.linked = TRUE]
                           ELSE Collected(temp[t])]
    /\ sess' = [sess EXCEPT ![s].st = IF dst = NoFile THEN "open" ELSE "opening",
                            ![s].old = IF dst = NoFile THEN NoFile ELSE dst.data,
                            ![s].oldLive = (dst # NoFile),
                            ![s].far = far]
    /\ UNCHANGED <<dst, durable, crossed, troubles>>

\* ... whose size and mtime are taken from the path, a moment later.
StatOld(s) ==
    /\ sess[s].st = "opening"
    /\ sess' = [sess EXCEPT ![s].st = "open",
                            ![s].oldStat = IF dst = NoFile THEN NoFile ELSE StatOf(dst)]
    /\ UNCHANGED <<dst, durable, temp, crossed, troubles>>

Trouble == troubles < MaxTroubles /\ troubles' = troubles + 1

MayWrite(s) == sess[s].st = "open" /\ sess[s].n < Len(sess[s].want)
Next1(s) == sess[s].n + 1
\* The plan reuses a block the dest had when it was made.
Reuses(s) == sess[s].seen # NoFile /\ sess[s].want[Next1(s)] \in BlocksOf(sess[s].seen)

\* WriteAt puts block b into the staging file, and makes it young again.
Put(s, b, upset) ==
    /\ temp' = [temp EXCEPT ![s].data[Next1(s)] = b, ![s].aged = FALSE]
    /\ sess' = [sess EXCEPT ![s].n = Next1(s), ![s].upset = @ \/ upset]

Fail(s) == /\ Become(s, [Idle EXCEPT !.st = "failed", !.upset = sess[s].upset])
           /\ UNCHANGED temp

\* A block sent by the engine; another one than planned if the source changed.
WriteChunk(s) ==
    /\ MayWrite(s) /\ ~Reuses(s)
    /\ \/ Put(s, sess[s].want[Next1(s)], FALSE) /\ UNCHANGED troubles
       \/ Put(s, Blank, TRUE) /\ Trouble
    /\ UNCHANGED <<dst, durable, crossed>>

\* checkOldUnchanged: the path has the size and mtime taken at BeginWrite.
OldUnchanged(s) == dst # NoFile /\ sess[s].oldStat = StatOf(dst)

OldOffset(s) == CHOOSE k \in 1..Len(sess[s].seen) :
                   /\ sess[s].seen[k] = sess[s].want[Next1(s)]
                   /\ \A j \in 1..(k - 1) : sess[s].seen[j] # sess[s].want[Next1(s)]

\* Mutant of OldBlockGood: the last block of the old file is out of range.
OldBlockInside(s) == LET k == OldOffset(s) IN
    /\ k < sess[s].oldStat.size
    /\ k <= Len(sess[s].old)
    /\ sess[s].old[k] = sess[s].want[Next1(s)]

\* The bytes at the old offset, if they are there and have the digest.
OldBlockGood(s) == LET k == OldOffset(s) IN
    /\ k <= sess[s].oldStat.size
    /\ k <= Len(sess[s].old)
    /\ sess[s].old[k] = sess[s].want[Next1(s)]

CanReuse(s) == sess[s].old # NoFile /\ OldUnchanged(s) /\ OldBlockGood(s)

ReuseChunk(s) ==
    /\ MayWrite(s) /\ Reuses(s)
    /\ \/ CanReuse(s) /\ Put(s, sess[s].old[OldOffset(s)], FALSE)
       \/ ~CanReuse(s) /\ Fail(s)
    /\ UNCHANGED <<dst, durable, crossed, troubles>>

\* Mutant of DigestMatches: only the length is compared.
LengthMatches(s) == Len(temp[s].data) = Len(sess[s].want)
DigestMatches(s) == temp[s].data = sess[s].want

\* Mutant of Verify: the staging file is not synced.
VerifyUnsynced(s) ==
    /\ sess[s].st = "open" /\ sess[s].n = Len(sess[s].want)
    /\ \/ /\ DigestMatches(s)
          /\ Become(s, [Idle EXCEPT !.st = "verified", !.want = sess[s].want,
                                    !.far = sess[s].far, !.upset = sess[s].upset])
          /\ UNCHANGED temp
       \/ ~DigestMatches(s) /\ Fail(s)
    /\ UNCHANGED <<dst, durable, crossed, troubles>>

\* Commit, first part: the staging file is read back, hashed and synced, and
\* the old file closed.
Verify(s) ==
    /\ sess[s].st = "open" /\ sess[s].n = Len(sess[s].want)
    /\ \/ /\ DigestMatches(s)
          /\ temp' = [temp EXCEPT ![s].synced = TRUE]
          /\ Become(s, [Idle EXCEPT !.st = "verified", !.want = sess[s].want,
                                    !.far = sess[s].far, !.upset = sess[s].upset])
       \/ ~DigestMatches(s) /\ Fail(s)
    /\ UNCHANGED <<dst, durable, crossed, troubles>>

\* Commit, second part: chmod, chtimes and rename, all by path.
Install(s) ==
    /\ sess[s].st = "verified" /\ ~sess[s].far
    /\ \/ /\ temp[s].linked
          /\ dst' = [data |-> temp[s].data, mtime |-> sess[s].want, synced |-> temp[s].synced]
          /\ durable' = durable \cup {dst'}
          /\ temp' = [temp EXCEPT ![s] = NoTemp]
          /\ sess' = [t \in Session |-> IF t = s THEN [sess[s] EXCEPT !.st = "installed"]
                                                ELSE Replaced(sess[t])]
       \/ ~temp[s].linked /\ Fail(s) /\ UNCHANGED <<dst, durable>>
    /\ UNCHANGED <<crossed, troubles>>

\* Mutant of CopyOpen: the mtime is set before the copy.
CopyOpenStamped(s) ==
    /\ sess[s].st = "verified" /\ sess[s].far
    /\ \/ /\ temp[s].linked
          /\ dst' = [data |-> <<>>, mtime |-> sess[s].want, synced |-> FALSE]
          /\ durable' = {dst'}
          /\ crossed' = TRUE /\ Trouble
          /\ sess' = [t \in Session |->
                        IF t = s THEN [sess[s] EXCEPT !.st = "copying", !.out = TRUE]
                                 ELSE Overwritten(sess[t], <<>>)]
          /\ UNCHANGED temp
       \/ ~temp[s].linked /\ Fail(s) /\ UNCHANGED <<dst, durable, crossed, troubles>>

\* ... rename fails with EXDEV: copyAcrossDevices opens the dest O_TRUNC.
CopyOpen(s) ==
    /\ sess[s].st = "verified" /\ sess[s].far
    /\ \/ /\ temp[s].linked
          /\ dst' = [data |-> <<>>, mtime |-> Now, synced |-> FALSE]
          /\ durable' = {dst'}
          /\ crossed' = TRUE /\ Trouble
          /\ sess' = [t \in Session |->
                        IF t = s THEN [sess[s] EXCEPT !.st = "copying", !.out = TRUE]
                                 ELSE Overwritten(sess[t], <<>>)]
          /\ UNCHANGED temp
       \/ ~temp[s].linked /\ Fail(s) /\ UNCHANGED <<dst, durable, crossed, troubles>>

\* d with block b written at i, a hole before it if d is shorter.
WriteAt(d, i, b) == [k \in 1..(IF i > Len(d) THEN i ELSE Len(d)) |->
                        IF k = i THEN b ELSE IF k > Len(d) THEN Blank ELSE d[k]]

CopyBlock(s) ==
    LET d == WriteAt(dst.data, Next1(s), temp[s].data[Next1(s)])
        own == [sess[s] EXCEPT !.n = Next1(s)]
    IN
    /\ sess[s].st = "copying" /\ sess[s].n < Len(sess[s].want)
    /\ \/ /\ sess[s].out
          /\ dst' = [data |-> d, mtime |-> Now, synced |-> FALSE]
          /\ durable' = {dst'}
          /\ sess' = [t \in Session |-> IF t = s THEN own ELSE Overwritten(sess[t], d)]
       \/ ~sess[s].out /\ Become(s, own) /\ UNCHANGED <<dst, durable>>
    /\ UNCHANGED <<temp, crossed, troubles>>

\* ... then fsync of the copy, chmod and chtimes of the path, and the staging
\* file goes.
CopyEnd(s) ==
    /\ sess[s].st = "copying" /\ sess[s].n = Len(sess[s].want)
    /\ \/ /\ dst # NoFile
          /\ dst' = [dst EXCEPT !.mtime = sess[s].want, !.synced = @ \/ sess[s].out]
          /\ durable' = {dst'}
          /\ sess' = [t \in Session |->
                        IF t = s THEN [sess[s] EXCEPT !.st = IF temp[s].linked THEN "installed"
                                                             ELSE "failed"]
                                 ELSE Disturbed(sess[t])]
          /\ temp' = [temp EXCEPT ![s] = NoTemp]
       \/ dst = NoFile /\ Fail(s) /\ UNCHANGED <<dst, durable>>
    /\ UNCHANGED <<crossed, troubles>>

\* Commit, last part: the directory is synced; an error is not looked at.
Finish(s) ==
    /\ sess[s].st = "installed"
    /\ durable' \in {durable, {dst}}
    /\ Become(s, Idle)
    /\ UNCHANGED <<dst, temp, crossed, troubles>>

\* The session is given up: after an error of its own, or by the engine.
Abort(s) ==
    /\ sess[s].st \notin {"idle", "installed"}
    /\ Become(s, Idle)
    /\ temp' = [temp EXCEPT ![s] = NoTemp]
    /\ UNCHANGED <<dst, durable, crossed, troubles>>
-----------------------------------------------------------------------------
\* The writer is killed.  Its staging file stays until somebody sweeps it.
Kill(s) ==
    /\ sess[s].st # "idle"
    /\ Trouble
    /\ Become(s, Idle)
    /\ UNCHANGED <<dst, durable, temp, crossed>>

\* 24 hours go by without a write to s's staging file.
Age(s) ==
    /\ Trouble
    /\ temp[s].linked /\ ~temp[s].aged
    /\ temp' = [temp EXCEPT ![s].aged = TRUE]
    /\ Become(s, Disturbed(sess[s]))
    /\ UNCHANGED <<dst, durable, crossed>>

\* Transport.Remove of the destination, by deleteExtras of some job.
Remove ==
    /\ Trouble
    /\ dst # NoFile
    /\ dst' = NoFile /\ durable' = durable \cup {NoFile}
    /\ sess' = [t \in Session |-> Replaced(sess[t])]
    /\ UNCHANGED <<temp, crossed>>

\* What is left of a file whose bytes were not synced.
Survivor(f) == IF f = NoFile \/ (f # NoFile /\ f.synced) THEN f
               ELSE [f EXCEPT !.data = [i \in 1..Len(f.data) |-> Blank], !.synced = TRUE]

PowerFailure ==
    /\ Trouble
    /\ \E f \in durable : dst' = Survivor(f)
    /\ durable' = {dst'}
    /\ sess' = [s \in Session |-> Idle]
    /\ UNCHANGED <<temp, crossed>>

Init ==
    /\ dst \in [data : Version, mtime : {Now}, synced : {TRUE}] \cup {NoFile}
    /\ durable = {dst}
    /\ temp = [s \in Session |-> NoTemp]
    /\ sess = [s \in Session |-> Idle]
    /\ crossed = FALSE /\ troubles = 0

SessionStep(s) ==
    \/ \E v \in Version : Plan(s, v)
    \/ \E far \in {FALSE, CrossDevice} : BeginWrite(s, far)
    \/ StatOld(s) \/ WriteChunk(s) \/ ReuseChunk(s)
    \/ Verify(s) \/ Install(s) \/ CopyOpen(s) \/ CopyBlock(s) \/ CopyEnd(s)
    \/ Finish(s) \/ Abort(s)

Next == \/ \E s \in Session : SessionStep(s) \/ Kill(s) \/ Age(s)
        \/ Remove \/ PowerFailure

Spec == Init /\ [][Next]_vars
-----------------------------------------------------------------------------
(* Type invariant of the state above. *)
TypeOK ==
    /\ dst \in File \cup {NoFile}
    /\ durable \subseteq File \cup {NoFile}
    /\ temp \in [Session -> TempFile]
    /\ sess \in [Session -> SessionState]
    /\ crossed \in BOOLEAN /\ troubles \in 0..MaxTroubles

(* The destination is a whole version, never a partial file, and its mtime,
   if a session set it, is that version's (the engine's skip by size and mtime
   rests on it): whatever writers, aborts, kills, sweeps and power failures
   come together, as long as no copy across file systems was begun. *)
DestIsWhole ==
    ~crossed /\ dst # NoFile =>
        /\ dst.data \in Version
        /\ dst.mtime \in {Now, dst.data}

(* The same of everything a power failure may bring back: fsync of the staging
   file comes before its rename. *)
PowerFailureLeavesWhole ==
    ~crossed => \A f \in durable :
        Survivor(f) # NoFile => Survivor(f).data \in Version

(* Where a commit rewrites the dest in place, no half of it passes for the
   version: until its end the dest has an mtime that no source has, so that a run
   after a crash or an error does not skip it; and if nobody interfered it ends
   with the whole version and that version's mtime, as one by rename does. *)
HalfCopyShows == \A s \in Session : ~sess[s].upset =>
    /\ sess[s].st = "copying" => dst # NoFile /\ dst.mtime = Now
    /\ sess[s].st = "installed" => /\ dst # NoFile
                                  /\ dst.data = sess[s].want /\ dst.mtime = sess[s].want

(* A session fails for a reason outside of it: the source changed, or the
   dest or its staging file was changed by others after the plan was made.  A
   writer left alone never trips over its own checks. *)
FailureHasCause == \A s \in Session : sess[s].st = "failed" => sess[s].upset

(* The sessions implement the promise of AtomicFile. *)
DataOf(f) == IF f = NoFile THEN NoFile ELSE f.data
Abstract == INSTANCE AtomicFile
    WITH value <- (IF crossed THEN Undefined ELSE DataOf(dst)),
         lasting <- (IF crossed THEN {Undefined} ELSE {DataOf(f) : f \in durable})
ImplementsAtomicFile == Abstract!AbsSpec
=============================================================================
