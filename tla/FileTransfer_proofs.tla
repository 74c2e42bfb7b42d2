-------------------------- MODULE FileTransfer_proofs --------------------------
(***************************************************************************)
(* Proofs about FileTransfer, for any blocks, any length of the file, any  *)
(* number of attempts, runs and disturbances, and any flags.               *)
(***************************************************************************)
EXTENDS FileTransfer, SequenceTheorems, WellFoundedInduction, TLAPS

Prefix(s, d) == Len(s) <= Len(d) /\ \A k \in 1..Len(s) : s[k] = d[k]

(* The source is as it was when the attempt read its metadata, for all that the
   attempt can tell. *)
Same == ~touched \/ (~forged /\ src.mtime <= meta.mtime)

(* What the files are to each other while any run is on: where mtimes do not lie, a
   destination that has the source's mtime is the source. *)
World ==
    /\ pc # "idle" => /\ gone => touched
                      /\ ~forged => meta.mtime <= src.mtime
                      /\ Same => GenOf(src) = meta
    /\ src.mtime > 0
    /\ ~forged /\ dst # NoFile /\ dst.mtime # ForeignTime => dst.mtime < src.mtime \/ dst = src

\* All blocks of d were the source's, each at its place, under mtime m.
HadAll(d, m)  == \A k \in 1..Len(d) : Had(d[k], k, m)
Version(d, m) == HadAll(d, m) /\ ([data |-> d, mtime |-> m] \in versions \/ Ambiguous(m))

(* What the history of versions knows, unless the owner never stops writing. *)
Past ==
    /\ EndlessEdits => committed = {}
    /\ ~EndlessEdits => /\ src \in versions
                        /\ pc # "idle" => meta.mtime <= src.mtime
                        /\ \A f \in committed : Version(f.data, f.mtime)

\* A complete entry is for a version that was put in place.
Claimed(e) == e \in Entry /\ e.status = "complete" /\ e.digest # NoDigest =>
                  [data |-> e.digest, mtime |-> e.gen.mtime] \in committed
Journal == ~EndlessEdits => Claimed(entry) /\ Claimed(log.last) /\ Claimed(log.tail)

(* What the attempt knows, by where it is.  Of its entry in the journal: *)
Vouched == /\ vouched /\ entry \in Entry /\ entry.status = "complete"
           /\ ~meddled => dst # NoFile /\ dst.data = entry.digest
Checking == /\ vouched /\ entry \in Entry /\ entry.status = "complete"
            /\ meddled \/ dst # NoFile
\* Of what it reads, and of what pass 1 has read:
BufSeen == Same => Prefix(buf, src.data)
SigSeen == Same => sig = src.data
BufHad  == ~EndlessEdits /\ src.mtime = meta.mtime =>
               HadAll(buf, meta.mtime) /\ (Prefix(buf, src.data) \/ Ambiguous(meta.mtime))
SigHad  == ~EndlessEdits /\ src.mtime = meta.mtime =>
               HadAll(sig, meta.mtime) /\ (sig = src.data \/ Ambiguous(meta.mtime))
SigVersion == ~EndlessEdits => Version(sig, meta.mtime)
\* Of the destination, as the plan and the write session met it:
DataOf(f) == IF f = NoFile THEN NoFile ELSE f.data
Planned   == SigSeen /\ SigVersion /\ (~meddled => destSig = DataOf(dst))
Begun     == /\ Len(stage) = Len(sig)
             /\ ~meddled => oldGen = IF dst = NoFile THEN NoFile ELSE GenOf(dst)
\* Of what it has staged, and has put in place:
Staged    == /\ Len(buf) <= Len(sig)
             /\ \A k \in 1..Len(buf) : buf[k] = sig[k] => stage[k] = sig[k]
Installed == /\ SigSeen
             /\ ~meddled => dst # NoFile /\ dst.data = sig
             /\ ~EndlessEdits => [data |-> sig, mtime |-> meta.mtime] \in committed
Disturbed == touched \/ meddled \/ faulted

Attempt ==
    /\ pc = "quick" => ~vouched
    /\ pc = "hashD" => Checking
    /\ pc \in {"openD", "readD"} => Vouched
    /\ pc \in {"readD", "read1"} => BufSeen
    /\ pc = "read1" => BufHad
    /\ pc \in {"stat1", "plan"} => SigSeen
    /\ pc = "stat1" => SigHad
    /\ pc = "plan" => SigVersion
    /\ pc \in {"inProgress", "begin", "open2", "read2", "stat2", "commit"} => Planned
    /\ pc \in {"open2", "read2", "stat2", "commit"} => Begun
    /\ pc = "read2" => BufSeen /\ Staged
    /\ pc \in {"stat2", "commit"} => stage = sig
    /\ pc \in {"index", "complete"} => Installed
    /\ pc = "sleep" => attempts < MaxFileAttempts
    /\ pc \in {"plain", "unstable", "sleep"} => Disturbed

\* The types, by whose variables they are.
DiskTypes  == /\ src \in File /\ gone \in BOOLEAN
              /\ dst \in File \cup {NoFile} /\ idx \in File \cup {NoFile}
LogTypes   == log \in Log /\ entry \in Entry \cup {NoEntry}
RunTypes   == /\ pc \in Pcs /\ opt \in Flags /\ result \in {"none", "ok", "skipped", "failed"}
              /\ meta \in Gen /\ attempts \in 1..MaxFileAttempts
LocalTypes == /\ force \in BOOLEAN
              /\ buf \in Content /\ sig \in Content /\ destSig \in Content \cup {NoFile}
              /\ stage \in Seq(Block \cup {Blank}) /\ oldGen \in Gen \cup {NoFile}
PastTypes  == /\ upsets \in 0..MaxUpsets /\ versions \subseteq File /\ committed \subseteq File
              /\ touched \in BOOLEAN /\ meddled \in BOOLEAN /\ forged \in BOOLEAN
              /\ vouched \in BOOLEAN /\ owed \in BOOLEAN /\ faulted \in BOOLEAN
Types == DiskTypes /\ LogTypes /\ RunTypes /\ LocalTypes /\ PastTypes

(* The inductive invariant. *)
IInv == Types /\ World /\ Past /\ Journal /\ Attempt /\ FinishedMeansSynced /\ FailureHasCause
-----------------------------------------------------------------------------
(* What the double read catches, by a count of the upsets: a first edit under an
   unchanged mtime cannot tear what one pass reads, for what it puts in place of a
   block leaves old and new content alike but for that block, and a change of size
   is seen; so a torn pass 1 took two, and a third is needed to read the same in
   pass 2. *)
SameTime     == src.mtime = meta.mtime
SigIsVersion == [data |-> sig, mtime |-> meta.mtime] \in versions
\* What was read, continued by what is left to read, is a version.
ReadsVersion ==
    \E v \in versions : /\ v.mtime = meta.mtime /\ Len(v.data) = Len(src.data)
                        /\ Prefix(buf, v.data)
                        /\ \A k \in 1..Len(v.data) : k > Len(buf) => v.data[k] = src.data[k]
\* Edits enough to tear pass 1, or one that Stat will see.
Torn1 == upsets >= 2 \/ (upsets >= 1 /\ meta.size # Len(src.data))

Reads ==
    /\ pc = "read1" /\ SameTime => ReadsVersion \/ Torn1
    /\ pc = "stat1" /\ SameTime => SigIsVersion \/ Torn1
    /\ pc \in {"plan", "inProgress", "begin", "open2"} => SigIsVersion \/ upsets >= 2
    /\ pc = "read2" => \/ SigIsVersion \/ upsets >= 3
                       \/ upsets >= 2 /\ (SameTime => Prefix(buf, src.data))
    /\ pc = "stat2" /\ SameTime => SigIsVersion \/ upsets >= 3
    /\ pc = "commit" => SigIsVersion \/ upsets >= 3

(* The inductive invariant of the count, on top of IInv. *)
Counts == ~EndlessEdits => /\ forged => upsets >= 1
                           /\ upsets >= 3 \/ committed \subseteq versions
                           /\ Reads
-----------------------------------------------------------------------------
(* What the assumptions on the constants say. *)
LEMMA Facts ==
  /\ MaxLen \in Nat /\ MaxMtime \in Nat \ {0} /\ MaxFileAttempts \in Nat \ {0}
  /\ MaxUpsets \in Nat /\ EndlessEdits \in BOOLEAN /\ Options \subseteq Flags
  /\ OthersData \subseteq Content /\ NoDigest \notin Content
  /\ NoFile \notin File /\ NoFile \notin Content /\ NoFile \notin Gen
  /\ NoEntry \notin Entry /\ Nothing \notin Entry /\ Fragment \notin Entry /\ Nothing # Fragment
  BY BoundsAssumption, OthersAssumption, NullsAssumption

(* A content is a sequence of blocks that is not too long. *)
LEMMA ContentIsSeq ==
  \A s : s \in Content <=> s \in Seq(Block) /\ Len(s) <= MaxLen
  <1>1. ASSUME NEW s \in Content PROVE s \in Seq(Block) /\ Len(s) <= MaxLen
    <2>1. PICK n \in 0..MaxLen : s \in [1..n -> Block]
      BY DEF Content
    <2>2. n \in Nat /\ n <= MaxLen
      BY <2>1, Facts
    <2>3. s \in Seq(Block)
      BY <2>1, <2>2, SeqDef
    <2>4. Len(s) \in Nat /\ 1..Len(s) = 1..n
      BY <2>1, <2>3, LenProperties
    <2>5. ~(Len(s) < n)
      <3>1. n \in 1..n => n \in 1..Len(s)
        BY <2>4
      <3> QED
        BY <2>2, <2>4, <3>1
    <2>6. ~(n < Len(s))
      <3>1. Len(s) \in 1..Len(s) => Len(s) \in 1..n
        BY <2>4
      <3> QED
        BY <2>2, <2>4, <3>1
    <2> QED
      BY <2>2, <2>3, <2>4, <2>5, <2>6
  <1>2. ASSUME NEW s, s \in Seq(Block), Len(s) <= MaxLen PROVE s \in Content
    <2>1. Len(s) \in Nat /\ s \in [1..Len(s) -> Block]
      BY <1>2, LenProperties
    <2>2. Len(s) \in 0..MaxLen
      BY <1>2, <2>1, Facts
    <2> QED
      BY <2>1, <2>2 DEF Content
  <1> QED
    BY <1>1, <1>2

LEMMA ContentFacts ==
  ASSUME NEW s \in Content
  PROVE  /\ s \in Seq(Block) /\ Len(s) \in Nat /\ Len(s) <= MaxLen /\ DOMAIN s = 1..Len(s)
         /\ s # NoFile /\ \A k \in 1..Len(s) : s[k] \in Block
  BY Facts, ContentIsSeq, LenProperties, ElementOfSeq

\* Nothing read.
LEMMA NothingRead ==
  /\ <<>> \in Content /\ <<>> \in Seq(Block \cup {Blank}) /\ Len(<<>>) = 0 /\ 1..Len(<<>>) = {}
  <1>1. <<>> \in Seq(Block) /\ <<>> \in Seq(Block \cup {Blank}) /\ Len(<<>>) = 0
    BY EmptySeq
  <1>2. 1..0 = {} /\ 0 <= MaxLen
    BY Facts
  <1> QED
    BY <1>1, <1>2, ContentIsSeq

\* What Stat returns.
LEMMA GenFacts ==
  /\ \A f \in File : /\ f.data \in Content /\ f.mtime \in Nat /\ f.mtime \in 0..MaxMtime
                     /\ f = [data |-> f.data, mtime |-> f.mtime] /\ f # NoFile
                     /\ GenOf(f) \in Gen /\ GenOf(f) # NoFile
                     /\ GenOf(f).size = Len(f.data) /\ GenOf(f).mtime = f.mtime
  /\ \A g \in Gen : /\ g.mtime \in 0..MaxMtime /\ g.mtime \in Nat /\ g.size \in Nat
                    /\ \A d \in Content : [data |-> d, mtime |-> g.mtime] \in File
                    /\ \A f \in File : g = GenOf(f) <=> g.size = Len(f.data) /\ g.mtime = f.mtime
  <1>1. ASSUME NEW f \in File
        PROVE  /\ f.data \in Content /\ f.mtime \in Nat /\ f.mtime \in 0..MaxMtime
               /\ f = [data |-> f.data, mtime |-> f.mtime] /\ f # NoFile
               /\ GenOf(f) \in Gen /\ GenOf(f) # NoFile
               /\ GenOf(f).size = Len(f.data) /\ GenOf(f).mtime = f.mtime
    <2>1. f.data \in Content /\ f.mtime \in 0..MaxMtime /\ f = [data |-> f.data, mtime |-> f.mtime]
      BY DEF File
    <2>2. Len(f.data) \in Nat /\ Len(f.data) <= MaxLen
      BY <2>1, ContentFacts
    <2>3. Len(f.data) \in 0..MaxLen /\ f.mtime \in Nat
      BY <2>1, <2>2, Facts
    <2> QED
      BY <2>1, <2>3, Facts DEF GenOf, Gen
  <1>2. ASSUME NEW g \in Gen
        PROVE  /\ g.mtime \in 0..MaxMtime /\ g.mtime \in Nat /\ g.size \in Nat
               /\ \A d \in Content : [data |-> d, mtime |-> g.mtime] \in File
               /\ \A f \in File : g = GenOf(f) <=> g.size = Len(f.data) /\ g.mtime = f.mtime
    <2>1. g.mtime \in 0..MaxMtime /\ g.size \in 0..MaxLen /\ g = [size |-> g.size, mtime |-> g.mtime]
      BY DEF Gen
    <2>2. g.mtime \in Nat /\ g.size \in Nat
      BY <2>1, Facts
    <2>3. \A f \in File : g = GenOf(f) <=> g.size = Len(f.data) /\ g.mtime = f.mtime
      BY <2>1 DEF GenOf
    <2>4. \A d \in Content : [data |-> d, mtime |-> g.mtime] \in File
      BY <2>1 DEF File
    <2> QED
      BY <2>1, <2>2, <2>3, <2>4
  <1> QED
    BY <1>1, <1>2

LEMMA UpsetCounts ==
  ASSUME IInv, Upset \/ UNCHANGED upsets
  PROVE  upsets' \in 0..MaxUpsets
  BY Facts DEF IInv, Types, PastTypes, Upset

(* A block more, read from d after what was read of it before. *)
LEMMA ReadOn ==
  ASSUME NEW s \in Content, NEW d \in Content, Len(s) < Len(d)
  PROVE  /\ Append(s, d[Len(s) + 1]) \in Content
         /\ Len(Append(s, d[Len(s) + 1])) = Len(s) + 1
         /\ Append(s, d[Len(s) + 1])[Len(s) + 1] = d[Len(s) + 1]
         /\ \A k \in 1..Len(s) : Append(s, d[Len(s) + 1])[k] = s[k]
         /\ Len(s) + 1 \in 1..Len(d) /\ d[Len(s) + 1] \in Block
         /\ Prefix(s, d) => Prefix(Append(s, d[Len(s) + 1]), d)
  <1> DEFINE b == d[Len(s) + 1]
             a == Append(s, b)
  <1>1. Len(s) \in Nat /\ Len(d) \in Nat /\ Len(d) <= MaxLen /\ s \in Seq(Block)
    BY ContentFacts
  <1>2. Len(s) + 1 \in 1..Len(d)
    BY <1>1
  <1>3. b \in Block
    BY <1>2, ContentFacts
  <1> HIDE DEF b
  <1>4. /\ a \in Seq(Block) /\ Len(a) = Len(s) + 1 /\ a[Len(s) + 1] = b
        /\ \A k \in 1..Len(s) : a[k] = s[k]
    BY <1>1, <1>3, AppendProperties
  <1>5. Len(a) <= MaxLen
    BY <1>1, <1>4, Facts
  <1>6. a \in Content
    BY <1>4, <1>5, ContentIsSeq
  <1> HIDE DEF a
  <1>7. ASSUME Prefix(s, d) PROVE Prefix(a, d)
    <2>1. ASSUME NEW k \in 1..Len(a) PROVE a[k] = d[k]
      <3>1. k \in 1..Len(s) \/ k = Len(s) + 1
        BY <1>1, <1>4
      <3> QED
        BY <1>4, <1>7, <3>1 DEF Prefix, b
    <2> QED
      BY <1>1, <1>4, <2>1 DEF Prefix
  <1> QED
    BY <1>2, <1>3, <1>4, <1>6, <1>7 DEF a, b

\* All of d was read.
LEMMA ReadAll ==
  ASSUME NEW s \in Content, NEW d \in Content, Prefix(s, d), ~(Len(s) < Len(d))
  PROVE  s = d
  <1>1. s \in Seq(Block) /\ d \in Seq(Block) /\ Len(s) \in Nat /\ Len(d) \in Nat
    BY ContentFacts
  <1>2. Len(s) = Len(d)
    BY <1>1 DEF Prefix
  <1> QED
    BY <1>1, <1>2, SeqEqual DEF Prefix
-----------------------------------------------------------------------------
(* A step of the process that leaves the files and their history as they are. *)
Undisturbing == UNCHANGED <<src, gone, dst, opt, meta, attempts, versions, committed, touched,
                            meddled, forged>>

LEMMA StepFrame ==
  ASSUME IInv, pc # "idle", Undisturbing,
         idx' \in File \cup {NoFile}, upsets' \in 0..MaxUpsets,
         vouched' \in BOOLEAN, owed' \in BOOLEAN, faulted' \in BOOLEAN,
         pc' \in Pcs, result' \in {"none", "ok", "skipped", "failed"},
         LocalTypes', LogTypes', Journal', Attempt', FinishedMeansSynced', FailureHasCause'
  PROVE  IInv'
  <1>1. DiskTypes' /\ RunTypes' /\ PastTypes'
    BY DEF IInv, Types, DiskTypes, RunTypes, PastTypes, Undisturbing
  <1>2. Same' = Same
    BY DEF Same, Undisturbing
  <1>3. World'
    BY <1>2 DEF IInv, World, Undisturbing
  <1>4. Past'
    BY DEF IInv, Past, Version, HadAll, Had, Ambiguous, Undisturbing
  <1> QED
    BY <1>1, <1>3, <1>4 DEF IInv, Types

\* ... and the journal: it moves on to l, or ends.
LEMMA QuietStep ==
  ASSUME IInv, pc # "idle", Undisturbing, UNCHANGED <<log, entry>>,
         idx' \in File \cup {NoFile}, upsets' \in 0..MaxUpsets,
         vouched' \in BOOLEAN, owed' \in BOOLEAN, faulted' \in BOOLEAN,
         pc' \in Pcs, LocalTypes', Attempt',
         \/ pc' # "done" /\ result' = result
         \/ pc' = "done" /\ result' = "skipped" /\ FinishedMeansSynced'
         \/ pc' = "done" /\ result' = "failed" /\ Disturbed'
  PROVE  IInv'
  <1>1. LogTypes' /\ Journal'
    BY DEF IInv, Types, LogTypes, Journal, Claimed, Undisturbing
  <1>2. FinishedMeansSynced' /\ FailureHasCause'
    BY DEF FinishedMeansSynced, FailureHasCause, Disturbed
  <1>3. result' \in {"none", "ok", "skipped", "failed"}
    BY DEF IInv, Types, RunTypes
  <1> QED
    BY <1>1, <1>2, <1>3, StepFrame

LEMMA DropTypes ==
  ASSUME Drop
  PROVE  LocalTypes'
  BY NothingRead DEF Drop, LocalTypes

\* An attempt that fails was disturbed.
LEMMA FailStep ==
  ASSUME IInv, pc # "idle", Undisturbing, UNCHANGED <<log, entry, idx, vouched, owed>>,
         upsets' \in 0..MaxUpsets, faulted' \in BOOLEAN,
         NEW l \in {"plain", "unstable"}, Fail(l), Disturbed'
  PROVE  IInv'
  <1>1. pc' = l /\ result' = result /\ Drop
    BY DEF Fail, Goto
  <1>2. LocalTypes' /\ pc' \in Pcs /\ pc' # "done"
    BY <1>1, DropTypes DEF Pcs
  <1>3. Attempt'
    BY <1>1 DEF Attempt
  <1>4. idx' \in File \cup {NoFile} /\ vouched' \in BOOLEAN /\ owed' \in BOOLEAN
    BY DEF IInv, Types, DiskTypes, PastTypes
  <1> QED
    BY <1>1, <1>2, <1>3, <1>4, QuietStep

\* The state of the process while it runs.
LEMMA State ==
  ASSUME IInv
  PROVE  /\ src \in File /\ src.data \in Content /\ Len(src.data) \in Nat
         /\ src.mtime \in Nat /\ src.mtime > 0 /\ gone \in BOOLEAN
         /\ dst \in File \cup {NoFile} /\ idx \in File \cup {NoFile}
         /\ meta \in Gen /\ meta.mtime \in Nat /\ meta.size \in Nat
         /\ buf \in Content /\ sig \in Content /\ Len(buf) \in Nat /\ Len(sig) \in Nat
         /\ upsets \in 0..MaxUpsets
         /\ vouched \in BOOLEAN /\ owed \in BOOLEAN /\ faulted \in BOOLEAN
         /\ LocalTypes /\ World /\ Attempt
  <1>1. /\ src \in File /\ meta \in Gen /\ buf \in Content /\ sig \in Content
        /\ LocalTypes /\ World /\ Attempt /\ dst \in File \cup {NoFile} /\ idx \in File \cup {NoFile}
        /\ gone \in BOOLEAN /\ upsets \in 0..MaxUpsets
        /\ vouched \in BOOLEAN /\ owed \in BOOLEAN /\ faulted \in BOOLEAN
    BY DEF IInv, Types, DiskTypes, RunTypes, LocalTypes, PastTypes
  <1>2. src.mtime > 0
    BY <1>1 DEF World
  <1>3. src.data \in Content /\ src.mtime \in Nat /\ meta.mtime \in Nat /\ meta.size \in Nat
    BY <1>1, GenFacts
  <1> QED
    BY <1>1, <1>2, <1>3, ContentFacts

\* An attempt that nothing disturbed finds the source as its metadata say.
LEMMA CalmSource ==
  ASSUME IInv, pc # "idle", ~touched
  PROVE  ~gone /\ Same /\ GenOf(src) = meta /\ meta.size = Len(src.data)
         /\ meta.mtime = src.mtime
  <1>1. Same /\ World
    BY DEF IInv, Same
  <1>2. ~gone /\ GenOf(src) = meta
    BY <1>1 DEF World
  <1> QED
    BY <1>1, <1>2, State, GenFacts

\* What Undisturbing leaves of the attempt's knowledge.
LEMMA Unmoved ==
  ASSUME Undisturbing
  PROVE  /\ Same' = Same
         /\ \A d, m : Version(d, m)' <=> Version(d, m)
         /\ \A d, m : HadAll(d, m)' <=> HadAll(d, m)
         /\ \A m : Ambiguous(m)' <=> Ambiguous(m)
  BY DEF Undisturbing, Same, Version, HadAll, Had, Ambiguous
-----------------------------------------------------------------------------
(* The steps of one attempt, in their order. *)
LEMMA CheckJournalKeeps ==
  ASSUME IInv, CheckJournal
  PROVE  IInv'
  <1>1. /\ pc = "journal" /\ Undisturbing /\ result' = result
        /\ UNCHANGED <<log, entry, owed, faulted, buf, sig, destSig, stage, oldGen>>
        /\ vouched' = Resumable
        /\ force' \in {force, TRUE} /\ idx' \in {idx, NoFile} /\ (Upset \/ UNCHANGED upsets)
        /\ \/ pc' = "quick" /\ ~Resumable
           \/ pc' = "hashD" /\ Resumable
           \/ pc' = "open1"
    BY DEF CheckJournal, Undisturbing, job, Goto, ForceTransfer, ForgetIndex
  <1>2. LocalTypes' /\ idx' \in File \cup {NoFile} /\ pc' \in Pcs /\ owed' \in BOOLEAN
        /\ faulted' \in BOOLEAN /\ upsets' \in 0..MaxUpsets
    <2>1. force' \in BOOLEAN
      BY <1>1, State DEF LocalTypes
    <2>2. LocalTypes'
      BY <1>1, <2>1, State DEF LocalTypes
    <2>3. idx' \in File \cup {NoFile} /\ owed' \in BOOLEAN /\ faulted' \in BOOLEAN
      BY <1>1, State
    <2>4. pc' \in Pcs
      BY <1>1 DEF Pcs
    <2> QED
      BY <1>1, <2>2, <2>3, <2>4, UpsetCounts
  <1>3. vouched' \in BOOLEAN
    BY <1>1 DEF Resumable
  <1>4. Attempt'
    <2>1. CASE pc' = "hashD" /\ Resumable
      <3>1. entry \in Entry /\ entry.status = "complete" /\ dst # NoFile
        BY <2>1 DEF Resumable, IInv, Types, LogTypes
      <3>2. Checking'
        BY <1>1, <2>1, <3>1 DEF Checking, Undisturbing
      <3> QED
        BY <2>1, <3>2 DEF Attempt
    <2>2. CASE pc' = "quick" /\ ~Resumable
      BY <1>1, <2>2 DEF Attempt
    <2>3. CASE pc' = "open1"
      BY <2>3 DEF Attempt
    <2> QED
      BY <1>1, <2>1, <2>2, <2>3
  <1>5. pc' # "done" /\ pc # "idle"
    BY <1>1
  <1> QED
    BY <1>1, <1>2, <1>3, <1>4, <1>5, QuietStep

\* A dest that nobody touched is still there to be hashed.
LEMMA DigestDestKeeps ==
  ASSUME IInv, DigestDest
  PROVE  IInv'
  <1>1. /\ pc = "hashD" /\ pc # "idle" /\ Undisturbing
        /\ UNCHANGED <<log, entry, vouched, faulted>> /\ Checking
    BY State DEF DigestDest, Undisturbing, job, Attempt
  <1>2. CASE dst = NoFile /\ Fail("plain") /\ UNCHANGED <<idx, owed, upsets>>
    <2>1. Disturbed' /\ upsets' \in 0..MaxUpsets /\ faulted' \in BOOLEAN
      BY <1>1, <1>2, State DEF Checking, Disturbed, Undisturbing
    <2> QED
      BY <1>1, <1>2, <2>1, FailStep
  <1>3. CASE /\ dst # NoFile /\ dst.data = entry.digest
             /\ Goto("openD") /\ UNCHANGED <<locals, idx, owed, upsets>>
    <2>1. pc' = "openD" /\ result' = result /\ UNCHANGED <<force, buf, sig, destSig, stage, oldGen>>
      BY <1>3 DEF Goto, locals
    <2>2. LocalTypes' /\ pc' \in Pcs
      BY <2>1, State DEF LocalTypes, Pcs
    <2>3. Vouched'
      BY <1>1, <1>3 DEF Checking, Vouched, Undisturbing
    <2>4. Attempt'
      BY <2>1, <2>3 DEF Attempt
    <2> QED
      BY <1>1, <1>3, <2>1, <2>2, <2>4, State, QuietStep
  <1>4. CASE /\ dst # NoFile /\ dst.data # entry.digest
             /\ MustRecopy /\ Goto("open1") /\ UNCHANGED <<buf, sig, destSig, stage, oldGen>>
    <2>1. /\ pc' = "open1" /\ result' = result /\ force' = TRUE /\ owed' = TRUE
          /\ idx' \in {idx, NoFile} /\ (Upset \/ UNCHANGED upsets)
      BY <1>4 DEF MustRecopy, ForceTransfer, ForgetIndex, Goto
    <2>2. LocalTypes' /\ pc' \in Pcs /\ Attempt'
      BY <1>4, <2>1, State DEF LocalTypes, Pcs, Attempt
    <2> QED
      BY <1>1, <2>1, <2>2, UpsetCounts, State, QuietStep
  <1> QED
    BY <1>2, <1>3, <1>4 DEF DigestDest

LEMMA OpenKeeps ==
  ASSUME IInv, OpenSource
  PROVE  IInv'
  <1>1. /\ pc \in {"openD", "open1", "open2"} /\ pc # "idle" /\ Undisturbing
        /\ UNCHANGED <<log, idx, entry, upsets, vouched, owed, faulted>>
    BY DEF OpenSource, Open, Undisturbing, disks, job, history
  <1>2. CASE gone
    <2>1. Fail("plain")
      BY <1>2 DEF OpenSource, Open
    <2>2. touched
      BY <1>1, <1>2, State DEF World
    <2>3. Disturbed' /\ upsets' \in 0..MaxUpsets /\ faulted' \in BOOLEAN
      BY <1>1, <2>2, State DEF Disturbed, Undisturbing
    <2> QED
      BY <1>1, <2>1, <2>3, FailStep
  <1>3. CASE ~gone
    <2>1. /\ buf' = <<>> /\ UNCHANGED <<force, sig, destSig, stage, oldGen>> /\ result' = result
          /\ \/ pc = "openD" /\ pc' = "readD"
             \/ pc = "open1" /\ pc' = "read1"
             \/ pc = "open2" /\ pc' = "read2"
      BY <1>3 DEF OpenSource, Open, Goto
    <2>2. LocalTypes'
      BY <2>1, State, NothingRead DEF LocalTypes
    <2>3. BufSeen' /\ Staged' /\ BufHad'
      <3>1. \A d \in Content : Prefix(<<>>, d)
        BY NothingRead, ContentFacts DEF Prefix
      <3>2. src' = src /\ sig' = sig
        BY <1>1, <2>1 DEF Undisturbing
      <3>3. Prefix(buf, src.data)'
        BY <2>1, <3>1, <3>2, State
      <3>4. HadAll(buf, meta.mtime)'
        BY <2>1, NothingRead DEF HadAll
      <3>5. Staged'
        BY <2>1, <3>2, NothingRead, State DEF Staged
      <3> QED
        BY <3>3, <3>4, <3>5 DEF BufSeen, BufHad
    <2>4. CASE pc = "openD" /\ pc' = "readD"
      <3>1. Vouched'
        BY <1>1, <2>4, State DEF Attempt, Vouched, Undisturbing
      <3>2. Attempt'
        BY <2>3, <2>4, <3>1 DEF Attempt
      <3> QED
        BY <1>1, <2>1, <2>2, <2>4, <3>2, State, QuietStep DEF Pcs
    <2>5. CASE pc = "open1" /\ pc' = "read1"
      <3>1. Attempt'
        BY <2>3, <2>5 DEF Attempt
      <3> QED
        BY <1>1, <2>1, <2>2, <2>5, <3>1, State, QuietStep DEF Pcs
    <2>6. CASE pc = "open2" /\ pc' = "read2"
      <3>1. Planned /\ Begun
        BY <2>6, State DEF Attempt
      <3>2. Planned'
        BY <1>1, <2>1, <3>1, Unmoved DEF Planned, SigSeen, SigVersion, DataOf, Undisturbing
      <3>3. Begun'
        BY <1>1, <2>1, <3>1 DEF Begun, Undisturbing
      <3>4. Attempt'
        BY <2>3, <2>6, <3>2, <3>3 DEF Attempt
      <3> QED
        BY <1>1, <2>1, <2>2, <2>6, <3>4, State, QuietStep DEF Pcs
    <2> QED
      BY <2>1, <2>4, <2>5, <2>6
  <1> QED
    BY <1>2, <1>3

\* A block more of pass 1, or of the journal's check.
LEMMA ReadKeeps ==
  ASSUME IInv, ReadBlock
  PROVE  IInv'
  <1>1. /\ pc \in {"readD", "read1"} /\ pc # "idle" /\ pc # "done" /\ Undisturbing
        /\ UNCHANGED <<log, idx, entry, upsets, vouched, owed, faulted, pc, result>>
        /\ UNCHANGED <<force, sig, destSig, stage, oldGen>>
        /\ Len(buf) < Len(src.data) /\ buf' = Append(buf, src.data[Len(buf) + 1])
    BY DEF ReadBlock, MoreToRead, NextBlock, Undisturbing, disks, job, history
  <1>2. /\ buf' \in Content /\ Len(buf') = Len(buf) + 1
        /\ buf'[Len(buf) + 1] = src.data[Len(buf) + 1]
        /\ \A k \in 1..Len(buf) : buf'[k] = buf[k]
        /\ Len(buf) + 1 \in 1..Len(src.data)
        /\ Prefix(buf, src.data) => Prefix(buf', src.data)
    BY <1>1, State, ReadOn
  <1>3. LocalTypes'
    BY <1>1, <1>2, State DEF LocalTypes
  <1>4. BufSeen'
    BY <1>1, <1>2, State, Unmoved DEF BufSeen, Attempt, Undisturbing
  <1>5. ASSUME pc = "read1" PROVE BufHad'
    <2> SUFFICES ASSUME ~EndlessEdits, src.mtime = meta.mtime
                 PROVE  /\ HadAll(buf', meta.mtime)
                        /\ Prefix(buf', src.data) \/ Ambiguous(meta.mtime)
      BY <1>1, Unmoved DEF BufHad, Undisturbing, HadAll, Had, Ambiguous
    <2>1. /\ HadAll(buf, meta.mtime) /\ (Prefix(buf, src.data) \/ Ambiguous(meta.mtime))
          /\ src \in versions
      BY <1>5, State DEF Attempt, BufHad, IInv, Past
    <2>2. ASSUME NEW k \in 1..Len(buf') PROVE Had(buf'[k], k, meta.mtime)
      <3>1. k \in 1..Len(buf) \/ k = Len(buf) + 1
        BY <1>2, State
      <3>2. CASE k \in 1..Len(buf)
        BY <1>2, <2>1, <3>2 DEF HadAll
      <3>3. CASE k = Len(buf) + 1
        <4>1. k \in DOMAIN src.data /\ src.data[k] = buf'[k]
          BY <1>2, <3>3, State, ContentFacts
        <4> QED
          BY <2>1, <4>1 DEF Had
      <3> QED
        BY <3>1, <3>2, <3>3
    <2> QED
      BY <1>2, <2>1, <2>2 DEF HadAll
  <1>6. pc = "readD" => Vouched'
    BY <1>1, State DEF Attempt, Vouched, Undisturbing
  <1>7. Attempt'
    BY <1>1, <1>4, <1>5, <1>6 DEF Attempt
  <1> QED
    BY <1>1, <1>3, <1>7, State, QuietStep DEF Pcs

\* The journal's digest is the source's, and the dest's: nothing is to be copied.
LEMMA DigestKeeps ==
  ASSUME IInv, DigestRead
  PROVE  IInv'
  <1>1. /\ pc = "readD" /\ pc # "idle" /\ Undisturbing /\ ~(Len(buf) < Len(src.data))
        /\ UNCHANGED <<log, entry, vouched, faulted>>
    BY DEF DigestRead, MoreToRead, Undisturbing, job
  <1>2. CASE buf = entry.digest /\ End("skipped") /\ UNCHANGED <<idx, owed, upsets>>
    <2>1. pc' = "done" /\ result' = "skipped" /\ Drop
      BY <1>2 DEF End
    <2>2. LocalTypes' /\ pc' \in Pcs /\ Attempt'
      BY <2>1, DropTypes DEF Pcs, Attempt
    <2>3. FinishedMeansSynced'
      <3> SUFFICES ASSUME ~touched, ~meddled PROVE dst # NoFile /\ dst.data = src.data
        BY <1>1 DEF FinishedMeansSynced, Undisturbing
      <3>1. dst # NoFile /\ dst.data = buf
        BY <1>1, <1>2, State DEF Attempt, Vouched
      <3>2. Prefix(buf, src.data)
        BY <1>1, CalmSource, State DEF Attempt, BufSeen
      <3>3. buf = src.data
        BY <1>1, <3>2, State, ReadAll
      <3> QED
        BY <3>1, <3>3
    <2> QED
      BY <1>1, <1>2, <2>1, <2>2, <2>3, State, QuietStep
  <1>3. CASE buf # entry.digest /\ MustRecopy /\ Goto("open1") /\ buf' = <<>>
             /\ UNCHANGED <<sig, destSig, stage, oldGen>>
    <2>1. /\ pc' = "open1" /\ result' = result /\ force' = TRUE /\ owed' = TRUE
          /\ idx' \in {idx, NoFile} /\ (Upset \/ UNCHANGED upsets)
      BY <1>3 DEF MustRecopy, ForceTransfer, ForgetIndex, Goto
    <2>2. LocalTypes' /\ pc' \in Pcs /\ Attempt'
      BY <1>3, <2>1, State, NothingRead DEF LocalTypes, Pcs, Attempt
    <2> QED
      BY <1>1, <2>1, <2>2, UpsetCounts, State, QuietStep
  <1> QED
    BY <1>2, <1>3 DEF DigestRead

\* Sizes and mtimes agree: so does the content, where mtimes do not lie.
LEMMA QuickKeeps ==
  ASSUME IInv, QuickCheck
  PROVE  IInv'
  <1>1. /\ pc = "quick" /\ pc # "idle" /\ Undisturbing
        /\ UNCHANGED <<log, entry, idx, upsets, vouched, owed, faulted>>
    BY DEF QuickCheck, Undisturbing, disks, job, history
  <1>2. CASE LooksTheSame /\ End("skipped")
    <2>1. pc' = "done" /\ result' = "skipped" /\ Drop
      BY <1>2 DEF End
    <2>2. LocalTypes' /\ pc' \in Pcs /\ Attempt'
      BY <2>1, DropTypes DEF Pcs, Attempt
    <2>3. FinishedMeansSynced'
      <3> SUFFICES ASSUME ~touched, ~meddled, opt.checksum \/ vouched \/ ~forged
                   PROVE  dst # NoFile /\ dst.data = src.data
        BY <1>1 DEF FinishedMeansSynced, Undisturbing
      <3>1. ~forged /\ dst # NoFile /\ GenOf(dst) = meta
        BY <1>1, <1>2, State DEF Attempt, LooksTheSame
      <3>2. dst.mtime = src.mtime /\ dst.mtime # ForeignTime
        BY <1>1, <3>1, CalmSource, State, GenFacts DEF ForeignTime
      <3>3. dst = src
        BY <3>1, <3>2, State DEF World
      <3> QED
        BY <3>1, <3>3
    <2> QED
      BY <1>1, <2>1, <2>2, <2>3, State, QuietStep
  <1>3. CASE Goto("open1") /\ UNCHANGED locals
    <2>1. pc' = "open1" /\ result' = result
      BY <1>3 DEF Goto
    <2>2. LocalTypes' /\ pc' \in Pcs /\ Attempt'
      BY <1>3, <2>1, State DEF LocalTypes, Pcs, Attempt, locals
    <2> QED
      BY <1>1, <2>1, <2>2, State, QuietStep
  <1> QED
    BY <1>2, <1>3 DEF QuickCheck

(* The end of pass 1: an attempt that nothing disturbed has read all of the source,
   and as many bytes as expected. *)
LEMMA Pass1Keeps ==
  ASSUME IInv, Pass1Read
  PROVE  IInv'
  <1>1. /\ pc = "read1" /\ pc # "idle" /\ Undisturbing /\ ~(Len(buf) < Len(src.data))
        /\ UNCHANGED <<log, entry, idx, upsets, vouched, owed, faulted>>
    BY DEF Pass1Read, MoreToRead, Undisturbing, disks, job, history
  <1>2. Prefix(buf, src.data) => buf = src.data
    BY <1>1, State, ReadAll
  <1>3. CASE ~HintHolds /\ Fail("plain")
    <2>1. Disturbed
      <3> SUFFICES ASSUME ~touched PROVE FALSE
        BY DEF Disturbed
      <3>1. buf = src.data /\ meta.size = Len(src.data)
        BY <1>1, <1>2, CalmSource, State DEF Attempt, BufSeen
      <3> QED
        BY <1>3, <3>1 DEF HintHolds
    <2>2. Disturbed'
      BY <1>1, <2>1 DEF Disturbed, Undisturbing
    <2> QED
      BY <1>1, <1>3, <2>2, State, FailStep
  <1>4. CASE sig' = buf /\ buf' = <<>> /\ Goto("stat1") /\ UNCHANGED <<force, destSig, stage, oldGen>>
    <2>1. pc' = "stat1" /\ result' = result
      BY <1>4 DEF Goto
    <2>2. LocalTypes' /\ pc' \in Pcs
      BY <1>4, <2>1, State, NothingRead DEF LocalTypes, Pcs
    <2>3. SigSeen'
      BY <1>1, <1>2, <1>4, State, Unmoved DEF Attempt, BufSeen, SigSeen, Undisturbing
    <2>4. SigHad'
      BY <1>1, <1>2, <1>4, State, Unmoved
         DEF Attempt, BufHad, SigHad, Undisturbing, HadAll, Had, Ambiguous
    <2>5. Attempt'
      BY <2>1, <2>3, <2>4 DEF Attempt
    <2> QED
      BY <1>1, <2>1, <2>2, <2>5, State, QuietStep
  <1> QED
    BY <1>3, <1>4 DEF Pass1Read

\* The generation is checked, after each pass.
LEMMA StatKeeps ==
  ASSUME IInv, StatSource
  PROVE  IInv'
  <1>1. /\ pc \in {"stat1", "stat2"} /\ pc # "idle" /\ Undisturbing
        /\ UNCHANGED <<log, entry, idx, upsets, vouched, owed, faulted>>
    BY DEF StatSource, Stat, Undisturbing, disks, job, history
  <1>2. CASE ~SameGeneration /\ Fail("unstable")
    <2>1. touched
      BY <1>1, <1>2, CalmSource DEF SameGeneration
    <2>2. Disturbed'
      BY <1>1, <2>1 DEF Disturbed, Undisturbing
    <2> QED
      BY <1>1, <1>2, <2>2, State, FailStep
  <1>3. CASE SameGeneration /\ UNCHANGED <<locals, result>>
             /\ \/ pc = "stat1" /\ pc' = "plan"
                \/ pc = "stat2" /\ pc' = "commit"
    <2>1. LocalTypes' /\ pc' \in Pcs /\ pc' # "done"
      BY <1>3, State DEF LocalTypes, Pcs, locals
    <2>2. UNCHANGED <<force, buf, sig, destSig, stage, oldGen>>
      BY <1>3 DEF locals
    <2>3. CASE pc = "stat1" /\ pc' = "plan"
      <3>1. SigSeen'
        BY <1>1, <2>2, <2>3, State, Unmoved DEF Attempt, SigSeen, Undisturbing
      <3>2. src.mtime = meta.mtime
        BY <1>3, State, GenFacts DEF SameGeneration
      <3>3. SigVersion
        <4> SUFFICES ASSUME ~EndlessEdits PROVE Version(sig, meta.mtime)
          BY DEF SigVersion
        <4>1. HadAll(sig, meta.mtime) /\ (sig = src.data \/ Ambiguous(meta.mtime)) /\ src \in versions
          BY <2>3, <3>2, State DEF Attempt, SigHad, IInv, Past
        <4>2. src = [data |-> src.data, mtime |-> meta.mtime]
          BY <3>2, State, GenFacts
        <4> QED
          BY <4>1, <4>2 DEF Version
      <3>4. SigVersion'
        BY <1>1, <2>2, <3>3, Unmoved DEF SigVersion, Undisturbing
      <3>5. Attempt'
        BY <2>3, <3>1, <3>4 DEF Attempt
      <3> QED
        BY <1>1, <1>3, <2>1, <3>5, State, QuietStep
    <2>4. CASE pc = "stat2" /\ pc' = "commit"
      <3>1. Planned /\ Begun /\ stage = sig
        BY <2>4, State DEF Attempt
      <3>2. Planned'
        BY <1>1, <2>2, <3>1, Unmoved DEF Planned, SigSeen, SigVersion, DataOf, Undisturbing
      <3>3. Begun'
        BY <1>1, <2>2, <3>1 DEF Begun, Undisturbing
      <3>4. Attempt'
        BY <2>2, <2>4, <3>1, <3>2, <3>3 DEF Attempt
      <3> QED
        BY <1>1, <1>3, <2>1, <3>4, State, QuietStep
    <2> QED
      BY <1>3, <2>3, <2>4
  <1> QED
    BY <1>2, <1>3 DEF StatSource, Stat, Goto
-----------------------------------------------------------------------------
\* The signature that the plan uses is the destination's, wherever it comes from.
LEMMA SignatureIsDest ==
  ASSUME IInv
  PROVE  DestSignature = DataOf(dst) /\ DataOf(dst) \in Content \cup {NoFile}
  <1>1. DestSignature = DataOf(dst)
    BY DEF DestSignature, DataOf, IndexHit
  <1>2. dst # NoFile => dst.data \in Content
    BY State, GenFacts
  <1> QED
    BY <1>1, <1>2 DEF DataOf

LEMMA PlanKeeps ==
  ASSUME IInv, Plan
  PROVE  IInv'
  <1>1. /\ pc = "plan" /\ pc # "idle" /\ Undisturbing
        /\ UNCHANGED <<log, entry, vouched, owed, faulted>> /\ idx' \in {idx, NoFile}
        /\ (Upset \/ UNCHANGED upsets)
    BY DEF Plan, ForgetIndex, Undisturbing, job, history
  <1>2. SigSeen /\ SigVersion /\ upsets' \in 0..MaxUpsets
    BY <1>1, State, UpsetCounts DEF Attempt
  <1>3. CASE DestSignature = sig /\ End("skipped")
    <2>1. pc' = "done" /\ result' = "skipped" /\ Drop
      BY <1>3 DEF End
    <2>2. LocalTypes' /\ pc' \in Pcs /\ Attempt'
      BY <2>1, DropTypes DEF Pcs, Attempt
    <2>3. FinishedMeansSynced'
      <3> SUFFICES ASSUME ~touched PROVE dst # NoFile /\ dst.data = src.data
        BY <1>1 DEF FinishedMeansSynced, Undisturbing
      <3>1. sig = src.data /\ sig # NoFile
        BY <1>1, <1>2, CalmSource, State, ContentFacts DEF SigSeen
      <3> QED
        BY <1>3, <3>1, SignatureIsDest DEF DataOf
    <2> QED
      BY <1>1, <1>2, <2>1, <2>2, <2>3, State, QuietStep
  <1>4. CASE destSig' = DestSignature /\ Goto("inProgress") /\ UNCHANGED <<force, buf, sig, stage, oldGen>>
    <2>1. pc' = "inProgress" /\ result' = result
      BY <1>4 DEF Goto
    <2>2. LocalTypes' /\ pc' \in Pcs
      BY <1>4, <2>1, State, SignatureIsDest DEF LocalTypes, Pcs
    <2>3. Planned'
      BY <1>1, <1>2, <1>4, SignatureIsDest, Unmoved
         DEF Planned, SigSeen, SigVersion, DataOf, Undisturbing
    <2>4. Attempt'
      BY <2>1, <2>3 DEF Attempt
    <2> QED
      BY <1>1, <1>2, <2>1, <2>2, <2>4, State, QuietStep
  <1> QED
    BY <1>3, <1>4 DEF Plan

\* A write session: its staging file is as long as the plan says.
LEMMA BeginKeeps ==
  ASSUME IInv, BeginWrite
  PROVE  IInv'
  <1>1. /\ pc = "begin" /\ pc # "idle" /\ Undisturbing /\ pc' = "open2" /\ result' = result
        /\ UNCHANGED <<log, idx, entry, upsets, vouched, owed, faulted, force, buf, sig, destSig>>
        /\ stage' = [i \in 1..Len(sig) |-> Blank]
        /\ oldGen' = IF dst = NoFile THEN NoFile ELSE GenOf(dst)
    BY DEF BeginWrite, Goto, Undisturbing, disks, job, history
  <1>2. stage' \in Seq(Block \cup {Blank}) /\ Len(stage') = Len(sig)
    <2>1. Len(sig) \in Nat /\ stage' \in [1..Len(sig) -> Block \cup {Blank}]
      BY <1>1, State
    <2>2. stage' \in Seq(Block \cup {Blank})
      BY <2>1, SeqDef
    <2> QED
      BY <1>1, <2>1, <2>2
  <1>3. oldGen' \in Gen \cup {NoFile}
    BY <1>1, State, GenFacts
  <1>4. LocalTypes' /\ pc' \in Pcs
    BY <1>1, <1>2, <1>3, State DEF LocalTypes, Pcs
  <1>5. Planned'
    BY <1>1, State, Unmoved DEF Attempt, Planned, SigSeen, SigVersion, DataOf, Undisturbing
  <1>6. Begun'
    BY <1>1, <1>2 DEF Begun, Undisturbing
  <1>7. Attempt'
    BY <1>1, <1>5, <1>6 DEF Attempt
  <1> QED
    BY <1>1, <1>4, <1>7, State, QuietStep

\* A block among those of a content has a first place there.
LEMMA FirstPlace ==
  ASSUME NEW s \in Content, NEW b \in BlocksOf(s)
  PROVE  \E k \in 1..Len(s) : s[k] = b /\ \A j \in 1..(k - 1) : s[j] # b
  <1> DEFINE K == {k \in 1..Len(s) : s[k] = b}
  <1>1. K # {} /\ K \subseteq Nat /\ Len(s) \in Nat
    BY ContentFacts DEF BlocksOf
  <1>2. PICK k \in K : \A j \in K : <<j, k>> \notin OpToRel(<, Nat)
    BY <1>1, NatLessThanWellFounded, WFMin
  <1>3. \A j \in K : ~(j < k)
    BY <1>1, <1>2 DEF OpToRel
  <1>4. ASSUME NEW j \in 1..(k - 1) PROVE s[j] # b
    <2>1. j \in 1..Len(s) /\ j < k
      BY <1>1
    <2> QED
      BY <1>3, <2>1
  <1> QED
    BY <1>4

\* So the plan's offset for a block to be reused is where the dest has that block.
LEMMA OffsetFound ==
  ASSUME IInv, NEW i \in 1..Len(sig), HasReuse(i)
  PROVE  /\ destSig \in Content /\ OldOffset(i) \in 1..Len(destSig)
         /\ destSig[OldOffset(i)] = sig[i]
  <1>1. destSig \in Content /\ sig[i] \in BlocksOf(destSig)
    BY State DEF HasReuse, DestBlocks, LocalTypes
  <1>2. \E k \in 1..Len(destSig) : /\ destSig[k] = sig[i]
                                   /\ \A j \in 1..(k - 1) : destSig[j] # sig[i]
    BY <1>1, FirstPlace
  <1> QED
    BY <1>1, <1>2 DEF OldOffset

(* An attempt that nothing disturbed can write every block of pass 2: one that is
   not sent is in the dest, where the plan looks for it. *)
LEMMA NeverStuck ==
  ASSUME IInv, pc = "read2", MoreToRead, ~touched, ~meddled,
         NEW i, i = Len(buf) + 1,
         ~(NextBlock \in Missing \/ FullWire)
  PROVE  /\ HasReuse(i) /\ OldUnchanged /\ OldOffset(i) <= Len(dst.data)
         /\ dst.data[OldOffset(i)] = sig[i]
  <1>1. sig = src.data /\ destSig = DataOf(dst) /\ Begun
    BY State, CalmSource DEF Attempt, Planned, SigSeen
  <1>2. i \in 1..Len(sig) /\ NextBlock = sig[i]
    <2>1. Len(buf) + 1 \in 1..Len(src.data)
      BY State, ReadOn DEF MoreToRead
    <2> QED
      BY <1>1, <2>1 DEF NextBlock
  <1>3. sig[i] \in BlocksOf(sig)
    BY <1>2 DEF BlocksOf
  <1>4. sig[i] \in DestBlocks
    BY <1>2, <1>3 DEF Missing
  <1>5. HasReuse(i)
    BY <1>2, <1>4 DEF HasReuse
  <1>6. /\ destSig \in Content /\ OldOffset(i) \in 1..Len(destSig)
        /\ destSig[OldOffset(i)] = sig[i]
    BY <1>2, <1>5, OffsetFound
  <1>7. dst # NoFile /\ dst \in File /\ destSig = dst.data
    BY <1>1, <1>6, Facts, State DEF DataOf
  <1>8. OldUnchanged
    BY <1>1, <1>7, GenFacts DEF OldUnchanged, Begun
  <1>9. OldOffset(i) <= Len(dst.data)
    BY <1>6, <1>7, ContentFacts
  <1> QED
    BY <1>5, <1>6, <1>7, <1>8, <1>9

LEMMA SendKeeps ==
  ASSUME IInv, SendBlock
  PROVE  IInv'
  <1> DEFINE i == Len(buf) + 1
             block == NextBlock
             sent == block \in Missing \/ FullWire
             canWrite == sent /\ i <= Len(stage)
             canReuse == /\ ~sent /\ HasReuse(i) /\ OldUnchanged
                         /\ OldOffset(i) <= Len(dst.data) /\ dst.data[OldOffset(i)] = sig[i]
             e == IF sent THEN block ELSE sig[i]
  <1>1. /\ pc = "read2" /\ pc # "idle" /\ pc # "done" /\ Undisturbing /\ MoreToRead
        /\ UNCHANGED <<log, idx, entry, upsets, vouched, owed, faulted>>
    BY DEF SendBlock, Undisturbing, disks, job, history
  <1>2. \/ /\ canWrite \/ canReuse
           /\ stage' = [stage EXCEPT ![i] = e]
           /\ buf' = Append(buf, block) /\ Goto("read2") /\ UNCHANGED <<force, sig, destSig, oldGen>>
        \/ ~canWrite /\ ~canReuse /\ Fail("plain")
    BY DEF SendBlock
  <1>3. Planned /\ Begun /\ Staged /\ BufSeen /\ Len(stage) = Len(sig)
    BY <1>1, State DEF Attempt, Begun
  <1>4. /\ i \in 1..Len(src.data) /\ block \in Block /\ block = src.data[i]
        /\ Append(buf, block) \in Content /\ Len(Append(buf, block)) = i
        /\ Append(buf, block)[i] = block
        /\ \A k \in 1..Len(buf) : Append(buf, block)[k] = buf[k]
        /\ Prefix(buf, src.data) => Prefix(Append(buf, block), src.data)
    BY <1>1, State, ReadOn DEF MoreToRead, NextBlock
  <1>5. i \in Nat /\ i > 0 /\ \A k \in 1..i : k \in 1..Len(buf) \/ k = i
    BY State
  <1>6. CASE ~canWrite /\ ~canReuse /\ Fail("plain")
    <2>1. ASSUME ~touched, ~meddled PROVE FALSE
      <3>1. sig = src.data
        BY <1>1, <1>3, <2>1, CalmSource DEF Planned, SigSeen
      <3>2. i <= Len(stage)
        BY <1>3, <1>4, <3>1, State
      <3>3. ~sent
        BY <1>6, <3>2
      <3>4. canReuse
        BY <1>1, <2>1, <3>3, NeverStuck
      <3> QED
        BY <1>6, <3>4
    <2>2. Disturbed'
      BY <1>1, <2>1 DEF Disturbed, Undisturbing
    <2> HIDE DEF canWrite, canReuse
    <2> QED
      BY <1>1, <1>6, <2>2, State, FailStep
  <1>7. CASE /\ canWrite \/ canReuse
             /\ stage' = [stage EXCEPT ![i] = e]
             /\ buf' = Append(buf, block) /\ Goto("read2") /\ UNCHANGED <<force, sig, destSig, oldGen>>
    <2>1. i \in 1..Len(stage)
      <3>1. canReuse => i \in 1..Len(sig)
        BY DEF HasReuse
      <3> QED
        BY <1>3, <1>5, <1>7, <3>1, State
    <2>2. e \in Block
      BY <1>3, <1>4, <2>1, State, ContentFacts
    <2>3. block = sig[i] => e = sig[i]
      OBVIOUS
    <2>4. sig' = sig /\ pc' = "read2" /\ result' = result /\ UNCHANGED <<force, destSig, oldGen>>
          /\ buf' = Append(buf, block)
      BY <1>7 DEF Goto
    <2>5. stage \in Seq(Block \cup {Blank}) /\ stage' = [stage EXCEPT ![i] = e]
      BY <1>7, State DEF LocalTypes
    <2> HIDE DEF e
    <2>6. /\ stage' \in Seq(Block \cup {Blank}) /\ Len(stage') = Len(stage)
          /\ \A j \in 1..Len(stage) : stage'[j] = IF j = i THEN e ELSE stage[j]
      BY <2>1, <2>2, <2>5, ExceptSeq
    <2> HIDE DEF block
    <2>7. LocalTypes' /\ pc' \in Pcs /\ pc' # "done"
      BY <1>4, <2>4, <2>6, State DEF LocalTypes, Pcs
    <2>8. Planned'
      BY <1>1, <1>3, <2>4, Unmoved DEF Planned, SigSeen, SigVersion, DataOf, Undisturbing
    <2>9. Begun'
      BY <1>1, <1>3, <2>4, <2>6 DEF Begun, Undisturbing
    <2>10. BufSeen'
      BY <1>1, <1>3, <1>4, <2>4, Unmoved DEF BufSeen, Undisturbing
    <2>11. ASSUME NEW k \in 1..Len(buf'), buf'[k] = sig'[k] PROVE stage'[k] = sig'[k]
      <3>1. k \in 1..i
        BY <1>4, <2>4, <2>11
      <3>2. CASE k = i
        BY <1>4, <2>1, <2>3, <2>4, <2>6, <2>11, <3>2
      <3>3. CASE k # i /\ k \in 1..Len(buf)
        <4>1. k \in 1..Len(stage)
          BY <1>3, <3>3, State DEF Staged
        <4>2. buf[k] = sig[k]
          BY <1>4, <2>4, <2>11, <3>3
        <4> QED
          BY <1>3, <2>4, <2>6, <3>3, <4>1, <4>2 DEF Staged
      <3> QED
        BY <1>5, <3>1, <3>2, <3>3
    <2>12. Len(buf') <= Len(sig')
      BY <1>3, <1>4, <2>1, <2>4
    <2>13. Attempt'
      BY <2>4, <2>8, <2>9, <2>10, <2>11, <2>12 DEF Attempt, Staged
    <2> QED
      BY <1>1, <2>4, <2>7, <2>13, State, QuietStep
  <1> HIDE DEF canWrite, canReuse, e
  <1> QED
    BY <1>2, <1>6, <1>7

(* The end of pass 2: what it has read is what pass 1 read, and so it has staged
   all of it. *)
LEMMA Pass2Keeps ==
  ASSUME IInv, Pass2Read
  PROVE  IInv'
  <1>1. /\ pc = "read2" /\ pc # "idle" /\ Undisturbing /\ ~(Len(buf) < Len(src.data))
        /\ UNCHANGED <<log, entry, idx, upsets, vouched, owed, faulted>>
    BY DEF Pass2Read, MoreToRead, Undisturbing, disks, job, history
  <1>2. Planned /\ Begun /\ Staged /\ BufSeen
    BY <1>1, State DEF Attempt
  <1>3. ASSUME ~touched PROVE HintHolds /\ ReadTwice
    <2>1. Same /\ meta.size = Len(src.data)
      BY <1>1, <1>3, CalmSource
    <2>2. buf = src.data /\ sig = src.data
      BY <1>1, <1>2, <2>1, State, ReadAll DEF BufSeen, Planned, SigSeen
    <2> QED
      BY <2>1, <2>2 DEF HintHolds, ReadTwice
  <1>4. CASE ~(HintHolds /\ ReadTwice) /\ (Fail("plain") \/ Fail("unstable"))
    <2>1. Disturbed'
      BY <1>1, <1>3, <1>4 DEF Disturbed, Undisturbing
    <2> QED
      BY <1>1, <1>4, <2>1, State, FailStep
  <1>5. CASE HintHolds /\ ReadTwice /\ Goto("stat2") /\ UNCHANGED locals
    <2>1. pc' = "stat2" /\ result' = result /\ UNCHANGED <<force, buf, sig, destSig, stage, oldGen>>
      BY <1>5 DEF Goto, locals
    <2>2. LocalTypes' /\ pc' \in Pcs
      BY <2>1, State DEF LocalTypes, Pcs
    <2>3. stage = sig
      <3>1. Len(stage) = Len(sig) /\ \A k \in 1..Len(sig) : stage[k] = sig[k]
        BY <1>2, <1>5 DEF Begun, Staged, ReadTwice
      <3>2. sig \in Seq(Block \cup {Blank}) /\ stage \in Seq(Block \cup {Blank})
        <4>1. Len(sig) \in Nat /\ sig \in [1..Len(sig) -> Block]
          BY State, ContentFacts, LenProperties
        <4>2. sig \in [1..Len(sig) -> Block \cup {Blank}]
          BY <4>1
        <4> QED
          BY <4>1, <4>2, State, SeqDef DEF LocalTypes
      <3> QED
        BY <3>1, <3>2, SeqEqual
    <2>4. Planned'
      BY <1>1, <1>2, <2>1, Unmoved DEF Planned, SigSeen, SigVersion, DataOf, Undisturbing
    <2>5. Begun'
      BY <1>1, <1>2, <2>1 DEF Begun, Undisturbing
    <2>6. Attempt'
      BY <2>1, <2>3, <2>4, <2>5 DEF Attempt
    <2> QED
      BY <1>1, <2>1, <2>2, <2>6, State, QuietStep
  <1> QED
    BY <1>4, <1>5 DEF Pass2Read

(* The rename: what is put in place is what was staged, a version the source had. *)
LEMMA CommitKeeps ==
  ASSUME IInv, Commit
  PROVE  IInv'
  <1> DEFINE f == [data |-> sig, mtime |-> meta.mtime]
  <1>1. pc = "commit" /\ pc # "idle" /\ Planned /\ Begun /\ stage = sig
    BY State DEF Commit, Attempt
  <1>2. /\ dst' = f /\ committed' = Recorded(committed, f)
        /\ forged' = (forged /\ touched) /\ owed' = FALSE /\ pc' = "index" /\ result' = result
        /\ UNCHANGED <<force, buf, sig, destSig, stage, oldGen, src, gone, log, idx, opt, meta,
                       attempts, entry, upsets, versions, touched, meddled, vouched, faulted>>
    BY <1>1 DEF Commit, Goto, locals, job
  <1>3. f \in File /\ f.data = sig /\ f.mtime = meta.mtime /\ f # NoFile
    BY State, GenFacts
  <1>4. committed \subseteq committed' /\ committed' \subseteq committed \cup {f}
        /\ (~EndlessEdits => f \in committed') /\ (EndlessEdits => committed' = committed)
    BY <1>2 DEF Recorded
  <1>5. forged \in BOOLEAN /\ touched \in BOOLEAN /\ meddled \in BOOLEAN /\ committed \subseteq File
        /\ versions \subseteq File
    BY DEF IInv, Types, PastTypes
  <1>6. ~touched => /\ ~gone /\ Same /\ GenOf(src) = meta /\ meta.mtime = src.mtime
    BY <1>1, CalmSource
  <1>7. Same' => Same
    BY <1>2, <1>5 DEF Same
  <1>8. ASSUME Same PROVE GenOf(src) = meta /\ sig = src.data
    BY <1>1, <1>8, State DEF World, Planned, SigSeen
  <1> HIDE DEF f
  <1>9. Types'
    <2>1. DiskTypes' /\ LogTypes' /\ LocalTypes'
      BY <1>2, <1>3 DEF IInv, Types, DiskTypes, LogTypes, LocalTypes
    <2>2. RunTypes'
      BY <1>2 DEF IInv, Types, RunTypes, Pcs
    <2>3. PastTypes'
      <3>1. forged' \in BOOLEAN
        BY <1>2, <1>5
      <3>2. committed' \subseteq File
        BY <1>3, <1>4, <1>5
      <3> QED
        BY <1>2, <3>1, <3>2 DEF IInv, Types, PastTypes
    <2> QED
      BY <2>1, <2>2, <2>3 DEF Types
  <1>10. World'
    <2>1. gone' => touched'
      BY <1>1, <1>2, State DEF World
    <2>2. ~forged' => meta'.mtime <= src'.mtime
      <3>1. ~forged => meta.mtime <= src.mtime
        BY <1>1, State DEF World
      <3>2. meta.mtime = src.mtime => meta.mtime <= src.mtime
        BY State
      <3> QED
        BY <1>2, <1>5, <1>6, <3>1, <3>2
    <2>3. Same' => GenOf(src') = meta'
      BY <1>2, <1>7, <1>8
    <2>4. ASSUME ~forged' PROVE dst'.mtime < src'.mtime \/ dst' = src'
      <3>1. CASE Same
        <4>1. GenOf(src) = meta /\ sig = src.data
          BY <1>8, <3>1
        <4>2. meta.mtime = src.mtime /\ src = [data |-> src.data, mtime |-> src.mtime]
          BY <4>1, State, GenFacts
        <4> QED
          BY <1>2, <4>1, <4>2 DEF f
      <3>2. CASE ~Same
        <4>1. touched /\ ~forged
          BY <1>2, <1>5, <2>4, <3>2 DEF Same
        <4>2. ~(src.mtime <= meta.mtime)
          BY <3>2, <4>1 DEF Same
        <4>3. meta.mtime < src.mtime
          BY <4>2, State
        <4> QED
          BY <1>2, <1>3, <4>3
      <3> QED
        BY <3>1, <3>2
    <2>5. src'.mtime > 0
      BY <1>2, State
    <2> QED
      BY <2>1, <2>2, <2>3, <2>4, <2>5 DEF World
  <1>11. Past'
    <2>1. /\ EndlessEdits => committed = {}
          /\ ~EndlessEdits => src \in versions /\ meta.mtime <= src.mtime
          /\ ~EndlessEdits => \A g \in committed : Version(g.data, g.mtime)
      BY <1>1 DEF IInv, Past
    <2>2. ~EndlessEdits => Version(f.data, f.mtime)
      BY <1>1, <1>3 DEF Planned, SigVersion
    <2>3. \A d, m : Version(d, m)' <=> Version(d, m)
      BY <1>2 DEF Version, HadAll, Had, Ambiguous
    <2>4. ~EndlessEdits => \A g \in committed' : Version(g.data, g.mtime)
      BY <1>4, <2>1, <2>2
    <2>5. (~EndlessEdits => \A g \in committed : Version(g.data, g.mtime))'
      BY <2>3, <2>4
    <2> QED
      BY <1>2, <1>4, <2>1, <2>5 DEF Past
  <1>12. Journal'
    BY <1>2, <1>4 DEF IInv, Journal, Claimed
  <1>13. Installed'
    <2>1. SigSeen'
      BY <1>2, <1>7, <1>8 DEF SigSeen
    <2>2. dst' # NoFile /\ dst'.data = sig'
      BY <1>2, <1>3
    <2>3. ~EndlessEdits => [data |-> sig', mtime |-> meta'.mtime] \in committed'
      BY <1>2, <1>4 DEF f
    <2> QED
      BY <2>1, <2>2, <2>3 DEF Installed
  <1>14. Attempt'
    BY <1>2, <1>13 DEF Attempt
  <1>15. FinishedMeansSynced' /\ FailureHasCause'
    BY <1>2 DEF FinishedMeansSynced, FailureHasCause
  <1> QED
    BY <1>9, <1>10, <1>11, <1>12, <1>14, <1>15 DEF IInv

LEMMA IndexKeeps ==
  ASSUME IInv, PutIndex
  PROVE  IInv'
  <1>1. /\ pc = "index" /\ pc # "idle" /\ Undisturbing /\ pc' = "complete" /\ result' = result
        /\ idx' = [data |-> sig, mtime |-> meta.mtime]
        /\ UNCHANGED <<log, entry, upsets, vouched, owed, faulted>>
        /\ UNCHANGED <<force, buf, sig, destSig, stage, oldGen>>
    BY DEF PutIndex, Goto, Undisturbing, job, history, locals
  <1>2. LocalTypes' /\ idx' \in File /\ pc' \in Pcs
    BY <1>1, State, GenFacts DEF LocalTypes, Pcs
  <1>3. Installed'
    BY <1>1, State, Unmoved DEF Attempt, Installed, SigSeen, Undisturbing
  <1>4. Attempt'
    BY <1>1, <1>3 DEF Attempt
  <1> QED
    BY <1>1, <1>2, <1>4, State, QuietStep

LEMMA BackOffKeeps ==
  ASSUME IInv, BackOff
  PROVE  IInv'
  <1>1. /\ pc = "unstable" /\ pc # "idle" /\ Undisturbing /\ pc' = "sleep" /\ result' = result
        /\ UNCHANGED <<log, idx, entry, upsets, vouched, owed, faulted>>
        /\ UNCHANGED <<force, buf, sig, destSig, stage, oldGen>>
        /\ ~GiveUp
    BY DEF BackOff, Goto, Undisturbing, disks, job, history, locals
  <1>2. attempts' < MaxFileAttempts
    BY <1>1, Facts DEF GiveUp, IInv, Types, RunTypes, Undisturbing
  <1>3. LocalTypes' /\ pc' \in Pcs
    BY <1>1, State DEF LocalTypes, Pcs
  <1>4. Disturbed'
    BY <1>1, State DEF Attempt, Disturbed, Undisturbing
  <1>5. Attempt'
    BY <1>1, <1>2, <1>4 DEF Attempt
  <1> QED
    BY <1>1, <1>3, <1>5, State, QuietStep
-----------------------------------------------------------------------------
(* What the journal's file says after a line was appended, whole or in part. *)
LEMMA LogLine ==
  ASSUME NEW e \in Entry, NEW l \in {Appended(log, e)} \cup Interrupted(log, e), log \in Log
  PROVE  /\ l \in Log
         /\ l.last \in {log.last, e} /\ l.tail \in {log.tail, e, Nothing, Fragment}
  <1>1. /\ l.bad \in BOOLEAN /\ l = [last |-> l.last, bad |-> l.bad, tail |-> l.tail]
        /\ l.last \in {log.last, e} /\ l.tail \in {log.tail, e, Nothing, Fragment}
    BY DEF Interrupted, Appended, Log
  <1>2. l.last \in Entry \cup {NoEntry} /\ l.tail \in Entry \cup {Nothing, Fragment}
    BY <1>1 DEF Log
  <1> QED
    BY <1>1, <1>2 DEF Log

\* The line that the process appends claims nothing that is not in place.
LEMMA EntryClaims ==
  ASSUME IInv
  PROVE  PutEntry \in Entry /\ (~EndlessEdits => Claimed(PutEntry))
  <1>1. CASE pc = "complete"
    <2>1. PutEntry = [status |-> "complete", digest |-> sig, gen |-> meta]
      BY <1>1 DEF PutEntry
    <2>2. ~EndlessEdits => [data |-> sig, mtime |-> meta.mtime] \in committed
      BY <1>1, State DEF Attempt, Installed
    <2> QED
      BY <2>1, <2>2, State DEF Entry, Claimed
  <1>2. CASE pc = "inProgress"
    <2>1. PutEntry = [status |-> "in_progress", digest |-> sig, gen |-> meta]
      BY <1>2 DEF PutEntry
    <2> QED
      BY <2>1, State DEF Entry, Claimed
  <1>3. CASE pc # "complete" /\ pc # "inProgress"
    <2>1. PutEntry = [status |-> "failed"]
      BY <1>3 DEF PutEntry
    <2> QED
      BY <2>1 DEF Entry, Claimed
  <1> QED
    BY <1>1, <1>2, <1>3

\* So the journal stays true while lines are appended to it and committed stays.
LEMMA JournalGrows ==
  ASSUME IInv, log' \in {log, Appended(log, PutEntry)} \cup Interrupted(log, PutEntry),
         entry' \in {entry, PutEntry, NoEntry}, committed' = committed
  PROVE  LogTypes' /\ Journal'
  <1>1. PutEntry \in Entry /\ (~EndlessEdits => Claimed(PutEntry)) /\ log \in Log
        /\ entry \in Entry \cup {NoEntry}
    BY EntryClaims DEF IInv, Types, LogTypes
  <1>2. log' \in Log /\ log'.last \in {log.last, PutEntry}
        /\ log'.tail \in {log.tail, PutEntry, Nothing, Fragment}
    BY <1>1, LogLine
  <1>3. LogTypes'
    BY <1>1, <1>2 DEF LogTypes
  <1>4. Claimed(Nothing) /\ Claimed(Fragment) /\ Claimed(NoEntry)
    BY Facts DEF Claimed
  <1>5. ASSUME ~EndlessEdits PROVE Claimed(log'.last) /\ Claimed(log'.tail) /\ Claimed(entry')
    <2>1. Claimed(entry) /\ Claimed(log.last) /\ Claimed(log.tail) /\ Claimed(PutEntry)
      BY <1>1, <1>5 DEF IInv, Journal
    <2> QED
      BY <1>2, <1>4, <2>1
  <1>6. Journal'
    BY <1>5 DEF Journal, Claimed
  <1> QED
    BY <1>3, <1>6

LEMMA PutInProgressKeeps ==
  ASSUME IInv, PutInProgress
  PROVE  IInv'
  <1>1. /\ pc = "inProgress" /\ pc # "idle" /\ Undisturbing /\ pc' = "begin" /\ result' = result
        /\ log' = Appended(log, PutEntry) /\ entry' = PutEntry
        /\ UNCHANGED <<idx, upsets, vouched, owed, faulted>>
        /\ UNCHANGED <<force, buf, sig, destSig, stage, oldGen>>
    BY DEF PutInProgress, Goto, Undisturbing, job, history, locals
  <1>2. LogTypes' /\ Journal'
    BY <1>1, JournalGrows DEF Undisturbing
  <1>3. LocalTypes' /\ pc' \in Pcs
    BY <1>1, State DEF LocalTypes, Pcs
  <1>4. Planned'
    BY <1>1, State, Unmoved DEF Attempt, Planned, SigSeen, SigVersion, DataOf, Undisturbing
  <1>5. Attempt'
    BY <1>1, <1>4 DEF Attempt
  <1>6. FinishedMeansSynced' /\ FailureHasCause'
    BY <1>1 DEF FinishedMeansSynced, FailureHasCause
  <1>7. result' \in {"none", "ok", "skipped", "failed"}
    BY <1>1 DEF IInv, Types, RunTypes
  <1> QED
    BY <1>1, <1>2, <1>3, <1>5, <1>6, <1>7, State, StepFrame

\* The copy is reported.
LEMMA PutCompleteKeeps ==
  ASSUME IInv, PutComplete
  PROVE  IInv'
  <1>1. /\ pc = "complete" /\ pc # "idle" /\ Undisturbing /\ pc' = "done" /\ result' = "ok" /\ Drop
        /\ log' = Appended(log, PutEntry) /\ entry' = PutEntry
        /\ UNCHANGED <<idx, upsets, vouched, owed, faulted>>
    BY DEF PutComplete, End, Undisturbing, job, history
  <1>2. LogTypes' /\ Journal'
    BY <1>1, JournalGrows DEF Undisturbing
  <1>3. LocalTypes' /\ pc' \in Pcs /\ Attempt'
    BY <1>1, DropTypes DEF Pcs, Attempt
  <1>4. FinishedMeansSynced'
    <2> SUFFICES ASSUME ~touched, ~meddled PROVE dst # NoFile /\ dst.data = src.data
      BY <1>1 DEF FinishedMeansSynced, Undisturbing
    <2>1. Installed /\ Same
      BY <1>1, CalmSource, State DEF Attempt
    <2> QED
      BY <2>1 DEF Installed, SigSeen
  <1>5. FailureHasCause'
    BY <1>1 DEF FailureHasCause
  <1> QED
    BY <1>1, <1>2, <1>3, <1>4, <1>5, State, StepFrame

\* A failure is reported, for a cause.
LEMMA PutFailedKeeps ==
  ASSUME IInv, PutFailed
  PROVE  IInv'
  <1>1. /\ pc \in {"plain", "unstable"} /\ pc # "idle" /\ Undisturbing
        /\ pc' = "done" /\ result' = "failed" /\ Drop
        /\ log' = Appended(log, PutEntry) /\ entry' = PutEntry
        /\ UNCHANGED <<idx, upsets, vouched, owed, faulted>>
    BY DEF PutFailed, End, Undisturbing, job, history
  <1>2. LogTypes' /\ Journal'
    BY <1>1, JournalGrows DEF Undisturbing
  <1>3. LocalTypes' /\ pc' \in Pcs /\ Attempt'
    BY <1>1, DropTypes DEF Pcs, Attempt
  <1>4. Disturbed
    BY <1>1, State DEF Attempt
  <1>5. FinishedMeansSynced' /\ FailureHasCause'
    BY <1>1, <1>4 DEF FinishedMeansSynced, FailureHasCause, Disturbed, Undisturbing
  <1> QED
    BY <1>1, <1>2, <1>3, <1>5, State, StepFrame
-----------------------------------------------------------------------------
(* Where attempts begin and runs end. *)
LEMMA RetryKeeps ==
  ASSUME IInv, Retry
  PROVE  IInv'
  <1>1. /\ pc = "sleep" /\ pc # "idle" /\ pc' = "journal" /\ result' = result /\ attempts' = attempts + 1
        /\ UNCHANGED <<src, gone, dst, log, idx, opt, entry, force, buf, sig, destSig, stage, oldGen,
                       upsets, versions, committed, meddled, forged, vouched, owed, faulted>>
        /\ \/ gone /\ meta' = meta /\ touched' = touched
           \/ ~gone /\ meta' = GenOf(src) /\ touched' = FALSE
    BY DEF Retry, Goto, disks, locals
  <1>2. attempts < MaxFileAttempts
    BY <1>1, State DEF Attempt
  <1>3. GenOf(src) \in Gen /\ GenOf(src).mtime = src.mtime /\ meta \in Gen
    BY State, GenFacts
  <1>4. Types'
    <2>1. DiskTypes' /\ LogTypes' /\ LocalTypes'
      BY <1>1 DEF IInv, Types, DiskTypes, LogTypes, LocalTypes
    <2>2. attempts' \in 1..MaxFileAttempts
      BY <1>1, <1>2, Facts DEF IInv, Types, RunTypes
    <2>3. RunTypes'
      BY <1>1, <1>3, <2>2 DEF IInv, Types, RunTypes, Pcs
    <2>4. PastTypes'
      <3>1. touched' \in BOOLEAN
        BY <1>1 DEF IInv, Types, PastTypes
      <3> QED
        BY <1>1, <3>1 DEF IInv, Types, PastTypes
    <2> QED
      BY <2>1, <2>3, <2>4 DEF Types
  <1>5. src.mtime <= src.mtime
    BY State
  <1>6. World'
    <2>1. CASE gone /\ meta' = meta /\ touched' = touched
      <3>1. Same' = Same
        BY <1>1, <2>1 DEF Same
      <3> QED
        BY <1>1, <2>1, <3>1, State DEF World
    <2>2. CASE ~gone /\ meta' = GenOf(src) /\ touched' = FALSE
      BY <1>1, <1>3, <1>5, <2>2, State DEF World
    <2> QED
      BY <1>1, <2>1, <2>2
  <1>7. Past'
    <2>1. \A d, m : Version(d, m)' <=> Version(d, m)
      BY <1>1 DEF Version, HadAll, Had, Ambiguous
    <2>2. ~EndlessEdits => meta'.mtime <= src.mtime
      BY <1>1, <1>3, <1>5 DEF IInv, Past
    <2> QED
      BY <1>1, <2>1, <2>2 DEF IInv, Past
  <1>8. Journal'
    BY <1>1 DEF IInv, Journal, Claimed
  <1>9. Attempt' /\ FinishedMeansSynced' /\ FailureHasCause'
    BY <1>1 DEF Attempt, FinishedMeansSynced, FailureHasCause
  <1> QED
    BY <1>4, <1>6, <1>7, <1>8, <1>9 DEF IInv

LEMMA StartKeeps ==
  ASSUME IInv, NEW o \in Options, StartRun(o)
  PROVE  IInv'
  <1>1. /\ pc = "idle" /\ pc' = "journal" /\ ~gone /\ result' = "none" /\ attempts' = 1
        /\ opt' = o /\ entry' = Loaded(log) /\ meta' = GenOf(src)
        /\ UNCHANGED <<src, gone, dst, log, idx, force, buf, sig, destSig, stage, oldGen, touched,
                       upsets, versions, committed, meddled, forged, vouched, owed, faulted>>
    BY DEF StartRun, disks, locals, history
  <1>2. GenOf(src) \in Gen /\ GenOf(src).mtime = src.mtime
    BY State, GenFacts
  <1>3. /\ Loaded(log) \in Entry \cup {NoEntry}
        /\ Loaded(log) \in {log.last, log.tail}
    BY DEF Loaded, IInv, Types, LogTypes, Log
  <1>4. Types'
    <2>1. DiskTypes' /\ LogTypes' /\ LocalTypes'
      BY <1>1, <1>3 DEF IInv, Types, DiskTypes, LogTypes, LocalTypes
    <2>2. attempts' \in 1..MaxFileAttempts
      BY <1>1, Facts
    <2>3. RunTypes'
      BY <1>1, <1>2, <2>2, Facts DEF RunTypes, Pcs
    <2>4. PastTypes'
      BY <1>1 DEF IInv, Types, PastTypes
    <2> QED
      BY <2>1, <2>3, <2>4 DEF Types
  <1>5. src.mtime <= src.mtime
    BY State
  <1>6. World'
    BY <1>1, <1>2, <1>5, State DEF World
  <1>7. Past'
    <2>1. \A d, m : Version(d, m)' <=> Version(d, m)
      BY <1>1 DEF Version, HadAll, Had, Ambiguous
    <2> QED
      BY <1>1, <1>2, <1>5, <2>1 DEF IInv, Past
  <1>8. Journal'
    BY <1>1, <1>3 DEF IInv, Journal, Claimed
  <1>9. Attempt' /\ FinishedMeansSynced' /\ FailureHasCause'
    BY <1>1 DEF Attempt, FinishedMeansSynced, FailureHasCause
  <1> QED
    BY <1>4, <1>6, <1>7, <1>8, <1>9 DEF IInv

\* The process's memory goes; the files and what they say stay.
LEMMA ProcessEndsKeeps ==
  ASSUME IInv, ProcessEnds, UNCHANGED <<src, gone, dst>>, idx' \in {idx, NoFile},
         log' \in {log} \cup Interrupted(log, PutEntry), upsets' \in 0..MaxUpsets
  PROVE  IInv'
  <1>1. /\ pc' = "idle" /\ result' = "none" /\ entry' = NoEntry /\ opt' = NoFlags
        /\ meta' = NoMeta /\ attempts' = 1 /\ Drop
        /\ touched' = FALSE /\ meddled' = FALSE /\ vouched' = FALSE /\ faulted' = FALSE
        /\ UNCHANGED <<versions, committed, forged, owed>>
    BY DEF ProcessEnds
  <1>2. LogTypes' /\ Journal'
    BY <1>1, JournalGrows
  <1>3. Types'
    <2>1. DiskTypes' /\ LocalTypes'
      BY <1>1, State, DropTypes DEF IInv, Types, DiskTypes
    <2>2. NoFlags \in Flags /\ NoMeta \in Gen /\ 1 \in 1..MaxFileAttempts
      BY Facts DEF NoFlags, Flags, NoMeta, Gen, ForeignTime
    <2>3. RunTypes'
      BY <1>1, <2>2 DEF RunTypes, Pcs
    <2>4. PastTypes'
      BY <1>1 DEF IInv, Types, PastTypes
    <2> QED
      BY <1>2, <2>1, <2>3, <2>4 DEF Types
  <1>4. World'
    BY <1>1 DEF IInv, World
  <1>5. Past'
    <2>1. \A d, m : Version(d, m)' <=> Version(d, m)
      BY <1>1 DEF Version, HadAll, Had, Ambiguous
    <2> QED
      BY <1>1, <2>1 DEF IInv, Past
  <1>6. Attempt' /\ FinishedMeansSynced' /\ FailureHasCause'
    BY <1>1 DEF Attempt, FinishedMeansSynced, FailureHasCause
  <1> QED
    BY <1>2, <1>3, <1>4, <1>5, <1>6 DEF IInv

LEMMA EndKeeps ==
  ASSUME IInv, EndRun
  PROVE  IInv'
  BY State, ProcessEndsKeeps DEF EndRun, disks

LEMMA CrashKeeps ==
  ASSUME IInv, Crash
  PROVE  IInv'
  <1>1. ProcessEnds /\ UNCHANGED <<src, gone, dst>> /\ idx' \in {idx, NoFile}
        /\ log' \in {log} \cup Interrupted(log, PutEntry)
    BY DEF Crash
  <1>2. upsets' \in 0..MaxUpsets
    BY UpsetCounts DEF Crash
  <1> QED
    BY <1>1, <1>2, ProcessEndsKeeps

\* An I/O error is a cause.
LEMMA IOErrorKeeps ==
  ASSUME IInv, IOError
  PROVE  IInv'
  <1>1. /\ Undisturbing /\ UNCHANGED <<idx, entry, vouched, owed>> /\ faulted' = TRUE
        /\ log' \in {log} \cup Interrupted(log, PutEntry) /\ pc # "idle" /\ Drop
        /\ \/ pc' \in {"plain", "unstable"} /\ result' = result
           \/ pc' = "done" /\ result' = "failed"
    BY DEF IOError, Undisturbing, job, Fail, End, Goto
  <1>2. upsets' \in 0..MaxUpsets
    BY UpsetCounts DEF IOError
  <1>3. LogTypes' /\ Journal'
    BY <1>1, JournalGrows DEF Undisturbing
  <1>4. Disturbed'
    BY <1>1 DEF Disturbed
  <1>5. result \in {"none", "ok", "skipped", "failed"}
    BY DEF IInv, Types, RunTypes
  <1>6. LocalTypes' /\ pc' \in Pcs /\ Attempt'
    BY <1>1, <1>4, DropTypes DEF Pcs, Attempt
  <1>7. FinishedMeansSynced' /\ FailureHasCause'
    BY <1>1, <1>4 DEF FinishedMeansSynced, FailureHasCause, Disturbed
  <1> QED
    BY <1>1, <1>2, <1>3, <1>5, <1>6, <1>7, State, StepFrame

\* An error that is let go leaves the attempt what it knew, one more attempt counted
\* or the journal not consulted.
LEMMA LetGoKeeps ==
  ASSUME IInv, LetGo
  PROVE  IInv'
  <1>1. /\ UNCHANGED <<src, gone, dst, log, opt, meta, entry, versions, committed, touched,
                       meddled, forged, owed, faulted, result>>
        /\ UNCHANGED <<force, buf, sig, destSig, stage, oldGen>>
        /\ idx' \in {idx, NoFile} /\ vouched' \in {vouched, FALSE}
        /\ pc \in {"journal", "quick", "sleep", "index"}
        /\ \/ pc' = "quick" /\ ~vouched' /\ attempts' = attempts
           \/ pc' = "open1" /\ attempts' = attempts
           \/ pc = "sleep" /\ pc' = "journal" /\ attempts' = attempts + 1
           \/ pc = "index" /\ pc' = "complete" /\ attempts' = attempts
    BY DEF LetGo, Goto, locals
  <1>2. upsets' \in 0..MaxUpsets
    BY UpsetCounts DEF LetGo
  <1>3. attempts' \in 1..MaxFileAttempts
    <2>1. attempts \in 1..MaxFileAttempts /\ (pc = "sleep" => attempts < MaxFileAttempts)
      BY State DEF Attempt, IInv, Types, RunTypes
    <2> QED
      BY <1>1, <2>1, Facts
  <1>4. Types'
    <2>1. DiskTypes' /\ LogTypes' /\ LocalTypes'
      BY <1>1 DEF IInv, Types, DiskTypes, LogTypes, LocalTypes
    <2>2. RunTypes'
      BY <1>1, <1>3 DEF IInv, Types, RunTypes, Pcs
    <2>3. PastTypes'
      BY <1>1, <1>2 DEF IInv, Types, PastTypes
    <2> QED
      BY <2>1, <2>2, <2>3 DEF Types
  <1>5. Same' = Same /\ \A d, m : Version(d, m)' <=> Version(d, m)
    BY <1>1 DEF Same, Version, HadAll, Had, Ambiguous
  <1>6. World' /\ Past' /\ Journal'
    BY <1>1, <1>5 DEF IInv, World, Past, Journal, Claimed
  <1>7. Attempt'
    <2>1. CASE pc = "index" /\ pc' = "complete"
      <3>1. Installed'
        BY <1>1, <1>5, <2>1, State DEF Attempt, Installed, SigSeen
      <3> QED
        BY <2>1, <3>1 DEF Attempt
    <2>2. CASE pc' \in {"open1", "journal"} \/ (pc' = "quick" /\ ~vouched')
      BY <2>2 DEF Attempt
    <2> QED
      BY <1>1, <2>1, <2>2
  <1>8. FinishedMeansSynced' /\ FailureHasCause'
    BY <1>1 DEF FinishedMeansSynced, FailureHasCause
  <1> QED
    BY <1>4, <1>6, <1>7, <1>8 DEF IInv
-----------------------------------------------------------------------------
(* What the others do to the two files while an attempt runs. *)
LEMMA AttemptStands ==
  ASSUME IInv, UNCHANGED <<pc, entry, force, buf, sig, destSig, stage, oldGen, meta, attempts,
                           vouched, committed, faulted>>,
         Same' => Same /\ src' = src,
         touched => touched', meddled => meddled', meddled' \/ dst' = dst,
         \A d, m : Version(d, m) => Version(d, m)',
         BufHad => BufHad', SigHad => SigHad'
  PROVE  Attempt'
  <1>1. Attempt
    BY State
  <1>2. (Vouched => Vouched') /\ (Checking => Checking')
    BY DEF Vouched, Checking
  <1>3. BufSeen => BufSeen'
    BY DEF BufSeen
  <1>4. SigSeen => SigSeen'
    BY DEF SigSeen
  <1>5. SigVersion => SigVersion'
    BY DEF SigVersion
  <1>6. Planned => Planned'
    BY <1>4, <1>5 DEF Planned, DataOf
  <1>7. Begun => Begun'
    BY DEF Begun
  <1>8. Staged => Staged'
    BY DEF Staged
  <1>9. Installed => Installed'
    BY <1>4 DEF Installed
  <1>10. Disturbed => Disturbed'
    BY DEF Disturbed
  <1> HIDE DEF Vouched, Checking, BufSeen, SigSeen, SigVersion, Planned, Begun, Staged,
               Installed, Disturbed, BufHad, SigHad
  <1> QED
    BY <1>1, <1>2, <1>3, <1>4, <1>5, <1>6, <1>7, <1>8, <1>9, <1>10 DEF Attempt

\* A write of the owner leaves a content.
LEMMA EditsFit ==
  ASSUME NEW d \in Edits, src.data \in Content
  PROVE  d \in Content
  <1>1. /\ src.data \in Seq(Block) /\ Len(src.data) \in Nat /\ Len(src.data) <= MaxLen
        /\ DOMAIN src.data = 1..Len(src.data) /\ \A k \in 1..Len(src.data) : src.data[k] \in Block
    BY ContentFacts
  <1>2. CASE d \in {[src.data EXCEPT ![i] = block] : i \in DOMAIN src.data, block \in Block}
    <2>1. PICK i \in 1..Len(src.data) : \E block \in Block : d = [src.data EXCEPT ![i] = block]
      BY <1>1, <1>2
    <2>2. PICK block \in Block : d = [src.data EXCEPT ![i] = block]
      BY <2>1
    <2>3. d \in Seq(Block) /\ Len(d) = Len(src.data)
      BY <1>1, <2>2, ExceptSeq
    <2> QED
      BY <1>1, <2>3, ContentIsSeq
  <1>3. CASE d \in {SubSeq(src.data, 1, n) : n \in 0..Len(src.data)}
    <2>1. PICK n \in 0..Len(src.data) : d = SubSeq(src.data, 1, n)
      BY <1>3
    <2>2. n \in Int /\ n <= Len(src.data) /\ 0 <= n
      BY <1>1
    <2>3. \A k \in 1..n : src.data[k] \in Block
      BY <1>1, <2>2
    <2>4. SubSeq(src.data, 1, n) \in Seq(Block)
          /\ Len(SubSeq(src.data, 1, n)) = IF 1 <= n THEN n - 1 + 1 ELSE 0
      BY <2>2, <2>3, SubSeqProperties
    <2>5. Len(d) <= MaxLen
      BY <1>1, <2>1, <2>2, <2>4, Facts
    <2> QED
      BY <2>1, <2>4, <2>5, ContentIsSeq
  <1>4. CASE Len(src.data) < MaxLen /\ d \in {Append(src.data, block) : block \in Block}
    <2>1. PICK block \in Block : d = Append(src.data, block)
      BY <1>4
    <2>2. d \in Seq(Block) /\ Len(d) = Len(src.data) + 1
      BY <1>1, <2>1, AppendProperties
    <2>3. Len(d) <= MaxLen
      BY <1>1, <1>4, <2>2, Facts
    <2> QED
      BY <2>2, <2>3, ContentIsSeq
  <1> QED
    BY <1>2, <1>3, <1>4 DEF Edits

(* After the owner's write, an attempt that could tell knows nothing of the source
   any more; one that cannot has two versions under one mtime. *)
LEMMA EditKeeps ==
  ASSUME IInv, EditSource
  PROVE  IInv'
  <1>1. PICK d \in Edits \ {src.data} : \E m \in 1..MaxMtime :
            /\ \/ m = src.mtime + 1 /\ UNCHANGED <<forged, upsets>>
               \/ m = src.mtime /\ Upset /\ forged' = TRUE
               \/ m < src.mtime /\ EndlessEdits /\ forged' = TRUE /\ UNCHANGED upsets
            /\ src' = [data |-> d, mtime |-> m]
            /\ versions' = Recorded(versions, src')
            /\ touched' = (pc # "idle")
            /\ UNCHANGED <<gone, dst, log, idx, pc, job, entry, locals, result, committed,
                           meddled, vouched, owed, faulted>>
    BY DEF EditSource
  <1>2. PICK m \in 1..MaxMtime :
            /\ \/ m = src.mtime + 1 /\ UNCHANGED <<forged, upsets>>
               \/ m = src.mtime /\ Upset /\ forged' = TRUE
               \/ m < src.mtime /\ EndlessEdits /\ forged' = TRUE /\ UNCHANGED upsets
            /\ src' = [data |-> d, mtime |-> m]
            /\ versions' = Recorded(versions, src')
            /\ touched' = (pc # "idle")
            /\ UNCHANGED <<gone, dst, log, idx, pc, job, entry, locals, result, committed,
                           meddled, vouched, owed, faulted>>
    BY <1>1
  <1>3. UNCHANGED <<gone, dst, log, idx, pc, opt, meta, attempts, entry, force, buf, sig, destSig,
                    stage, oldGen, result, committed, meddled, vouched, owed, faulted>>
    BY <1>2 DEF job, locals
  <1>4. src' \in File /\ src'.mtime = m /\ src'.data = d /\ m \in Nat /\ m > 0
    <2>1. d \in Content
      BY State, EditsFit
    <2>2. m \in 0..MaxMtime /\ m \in Nat /\ m > 0
      BY Facts
    <2> QED
      BY <1>2, <2>1, <2>2 DEF File
  <1>5. src' # src
    BY <1>1, <1>4
  <1>6. forged \in BOOLEAN /\ versions \subseteq File /\ (~forged' => ~forged /\ m = src.mtime + 1)
    BY <1>2 DEF IInv, Types, PastTypes
  <1>7. /\ versions \subseteq versions' /\ (~EndlessEdits => src' \in versions')
        /\ versions' \subseteq versions \cup {src'}
    BY <1>2 DEF Recorded
  <1>8. upsets' \in 0..MaxUpsets
    BY <1>2, UpsetCounts
  <1>9. Types'
    <2>1. DiskTypes' /\ LogTypes' /\ RunTypes' /\ LocalTypes'
      BY <1>3, <1>4 DEF IInv, Types, DiskTypes, LogTypes, RunTypes, LocalTypes
    <2>2. forged' \in BOOLEAN /\ touched' \in BOOLEAN /\ versions' \subseteq File
      BY <1>2, <1>4, <1>6, <1>7
    <2>3. PastTypes'
      BY <1>3, <1>8, <2>2 DEF IInv, Types, PastTypes
    <2> QED
      BY <2>1, <2>3 DEF Types
  <1>10. ASSUME pc # "idle" PROVE /\ touched' /\ ~Same'
                                  /\ ~forged' => meta.mtime < m
                                  /\ ~EndlessEdits => meta.mtime <= m
    <2>1. (~forged => meta.mtime <= src.mtime) /\ (~EndlessEdits => meta.mtime <= src.mtime)
      BY <1>10, State DEF World, IInv, Past
    <2>2. ~forged' => meta.mtime < m
      BY <1>4, <1>6, <2>1, State
    <2>3. ~EndlessEdits => m = src.mtime + 1 \/ m = src.mtime
      BY <1>2
    <2>4. ~EndlessEdits => meta.mtime <= m
      BY <1>4, <2>1, <2>3, State
    <2>5. touched'
      BY <1>2, <1>10
    <2>6. ~(~forged' /\ m <= meta.mtime)
      BY <1>4, <2>2, State
    <2>7. ~Same'
      BY <1>3, <1>4, <2>5, <2>6 DEF Same
    <2> QED
      BY <2>2, <2>4, <2>5, <2>7
  <1>11. World'
    <2>1. pc # "idle" /\ ~forged' => meta.mtime <= m
      BY <1>4, <1>10, State
    <2>2. ASSUME ~forged', dst # NoFile, dst.mtime # ForeignTime PROVE dst.mtime < m
      <3>1. dst.mtime < src.mtime \/ dst = src
        BY <1>6, <2>2, State DEF World
      <3>2. dst.mtime \in Nat
        BY <2>2, State, GenFacts
      <3> QED
        BY <1>4, <1>6, <2>2, <3>1, <3>2, State
    <2> QED
      BY <1>3, <1>4, <1>10, <2>1, <2>2 DEF World
  <1>12. /\ \A b, k, n : Had(b, k, n) => Had(b, k, n)'
         /\ \A n : Ambiguous(n) => Ambiguous(n)'
    BY <1>7 DEF Had, Ambiguous
  <1>13. \A s, n : HadAll(s, n) => HadAll(s, n)'
    BY <1>12 DEF HadAll
  <1>14. \A s, n : Version(s, n) => Version(s, n)'
    BY <1>7, <1>12, <1>13 DEF Version
  <1>15. Past'
    <2>1. ~EndlessEdits => \A f \in committed : Version(f.data, f.mtime)
      BY DEF IInv, Past
    <2>2. (~EndlessEdits => \A f \in committed : Version(f.data, f.mtime))'
      BY <1>3, <1>14, <2>1
    <2>3. (EndlessEdits => committed = {})'
      BY <1>3 DEF IInv, Past
    <2> QED
      BY <1>3, <1>4, <1>7, <1>10, <2>2, <2>3 DEF Past
  <1>16. ASSUME pc # "idle", ~EndlessEdits, src'.mtime = meta.mtime
         PROVE  src.mtime = meta.mtime /\ Ambiguous(meta.mtime)'
    <2>1. meta.mtime <= src.mtime /\ src \in versions
      BY <1>16 DEF IInv, Past
    <2>2. m = src.mtime + 1 \/ m = src.mtime
      BY <1>2, <1>16
    <2>3. src.mtime = meta.mtime
      BY <1>4, <1>16, <2>1, <2>2, State
    <2>4. src \in versions' /\ src' \in versions'
      BY <1>7, <1>16, <2>1
    <2> QED
      BY <1>3, <1>5, <1>16, <2>3, <2>4 DEF Ambiguous
  <1>17. pc # "idle" /\ BufHad => BufHad'
    BY <1>3, <1>13, <1>16 DEF BufHad
  <1>18. pc # "idle" /\ SigHad => SigHad'
    BY <1>3, <1>13, <1>16 DEF SigHad
  <1>19. Attempt'
    <2>1. CASE pc = "idle"
      BY <1>3, <2>1 DEF Attempt
    <2>2. CASE pc # "idle"
      BY <1>3, <1>10, <1>14, <1>17, <1>18, <2>2, AttemptStands
    <2> QED
      BY <2>1, <2>2
  <1>20. Journal'
    BY <1>3 DEF IInv, Journal, Claimed
  <1>21. FinishedMeansSynced' /\ FailureHasCause'
    BY <1>3, <1>10 DEF FinishedMeansSynced, FailureHasCause
  <1> QED
    BY <1>9, <1>11, <1>15, <1>19, <1>20, <1>21 DEF IInv

LEMMA RemoveKeeps ==
  ASSUME IInv, RemoveSource
  PROVE  IInv'
  <1>1. /\ gone' = TRUE /\ touched' = (pc # "idle")
        /\ UNCHANGED <<src, dst, log, idx, pc, opt, meta, attempts, entry, force, buf, sig, destSig,
                       stage, oldGen, result, versions, committed, meddled, forged, vouched, owed,
                       faulted>>
    BY DEF RemoveSource, job, locals
  <1>2. upsets' \in 0..MaxUpsets
    BY UpsetCounts DEF RemoveSource
  <1>3. Types'
    BY <1>1, <1>2 DEF IInv, Types, DiskTypes, LogTypes, RunTypes, LocalTypes, PastTypes
  <1>4. ASSUME pc # "idle" PROVE touched' /\ (Same' => Same)
    BY <1>1, <1>4 DEF Same
  <1>5. World'
    BY <1>1, <1>4 DEF IInv, World
  <1>6. /\ \A d, m : Version(d, m)' <=> Version(d, m)
        /\ \A d, m : HadAll(d, m)' <=> HadAll(d, m)
        /\ \A m : Ambiguous(m)' <=> Ambiguous(m)
    BY <1>1 DEF Version, HadAll, Had, Ambiguous
  <1>7. Past'
    BY <1>1, <1>6 DEF IInv, Past
  <1>8. (BufHad => BufHad') /\ (SigHad => SigHad')
    BY <1>1, <1>6 DEF BufHad, SigHad
  <1>9. Attempt'
    <2>1. CASE pc = "idle"
      BY <1>1, <2>1 DEF Attempt
    <2>2. CASE pc # "idle"
      BY <1>1, <1>4, <1>6, <1>8, <2>2, AttemptStands
    <2> QED
      BY <2>1, <2>2
  <1>10. Journal'
    BY <1>1 DEF IInv, Journal, Claimed
  <1>11. FinishedMeansSynced' /\ FailureHasCause'
    BY <1>1, <1>4 DEF FinishedMeansSynced, FailureHasCause
  <1> QED
    BY <1>3, <1>5, <1>7, <1>9, <1>10, <1>11 DEF IInv

LEMMA MeddleKeeps ==
  ASSUME IInv, MeddleWithDest
  PROVE  IInv'
  <1>1. /\ meddled' = (pc # "idle")
        /\ UNCHANGED <<src, gone, log, idx, pc, opt, meta, attempts, entry, force, buf, sig, destSig,
                       stage, oldGen, result, versions, committed, touched, vouched, owed, faulted>>
        /\ \/ dst' \in {NoFile} \cup [data : Content, mtime : {ForeignTime}] /\ UNCHANGED forged
           \/ /\ dst # NoFile
              /\ \E d \in [1..Len(dst.data) -> Block] : dst' = [dst EXCEPT !.data = d]
              /\ forged' = TRUE
    BY Facts DEF MeddleWithDest, job, locals
  <1>2. upsets' \in 0..MaxUpsets
    BY UpsetCounts DEF MeddleWithDest
  <1>3. dst' \in File \cup {NoFile} /\ (~forged' => dst' = NoFile \/ dst'.mtime = ForeignTime)
    <2>1. CASE dst' \in {NoFile} \cup [data : Content, mtime : {ForeignTime}]
      <3>1. ForeignTime \in 0..MaxMtime
        BY Facts DEF ForeignTime
      <3> QED
        BY <2>1, <3>1 DEF File
    <2>2. CASE dst # NoFile /\ forged' = TRUE
               /\ \E d \in [1..Len(dst.data) -> Block] : dst' = [dst EXCEPT !.data = d]
      <3>1. PICK d \in [1..Len(dst.data) -> Block] : dst' = [dst EXCEPT !.data = d]
        BY <2>2
      <3>2. dst \in File /\ dst.data \in Content
        BY <2>2, State, GenFacts
      <3>3. Len(dst.data) \in 0..MaxLen
        BY <3>2, ContentFacts, Facts
      <3>4. d \in Content
        BY <3>3 DEF Content
      <3> QED
        BY <2>2, <3>1, <3>2, <3>4 DEF File
    <2> QED
      BY <1>1, <2>1, <2>2
  <1>4. forged \in BOOLEAN /\ forged' \in BOOLEAN /\ (forged => forged')
    BY <1>1 DEF IInv, Types, PastTypes
  <1>5. Types'
    <2>1. DiskTypes' /\ LogTypes' /\ RunTypes' /\ LocalTypes'
      BY <1>1, <1>3 DEF IInv, Types, DiskTypes, LogTypes, RunTypes, LocalTypes
    <2>2. PastTypes'
      BY <1>1, <1>2, <1>4 DEF IInv, Types, PastTypes
    <2> QED
      BY <2>1, <2>2 DEF Types
  <1>6. Same' => Same
    BY <1>1, <1>4 DEF Same
  <1>7. World'
    BY <1>1, <1>3, <1>4, <1>6 DEF IInv, World
  <1>8. /\ \A d, m : Version(d, m)' <=> Version(d, m)
        /\ \A d, m : HadAll(d, m)' <=> HadAll(d, m)
        /\ \A m : Ambiguous(m)' <=> Ambiguous(m)
    BY <1>1 DEF Version, HadAll, Had, Ambiguous
  <1>9. Past'
    BY <1>1, <1>8 DEF IInv, Past
  <1>10. (BufHad => BufHad') /\ (SigHad => SigHad')
    BY <1>1, <1>8 DEF BufHad, SigHad
  <1>11. Attempt'
    <2>1. CASE pc = "idle"
      BY <1>1, <2>1 DEF Attempt
    <2>2. CASE pc # "idle"
      BY <1>1, <1>6, <1>8, <1>10, <2>2, AttemptStands
    <2> QED
      BY <2>1, <2>2
  <1>12. Journal'
    BY <1>1 DEF IInv, Journal, Claimed
  <1>13. FinishedMeansSynced' /\ FailureHasCause'
    BY <1>1 DEF FinishedMeansSynced, FailureHasCause
  <1> QED
    BY <1>5, <1>7, <1>9, <1>11, <1>12, <1>13 DEF IInv
-----------------------------------------------------------------------------
LEMMA InitInv == Init => IInv
  <1> SUFFICES ASSUME Init PROVE IInv
    OBVIOUS
  <1>1. /\ src \in [data : Content, mtime : {1}] /\ gone = FALSE
        /\ \/ /\ log = EmptyLog /\ idx = NoFile
              /\ dst \in {NoFile} \cup [data : Content, mtime : {ForeignTime}]
           \/ log = OldLog /\ idx \in {NoFile, src} /\ dst = src
        /\ pc = "idle" /\ result = "none" /\ entry = NoEntry
        /\ opt = NoFlags /\ meta = NoMeta /\ attempts = 1
        /\ force = FALSE /\ buf = <<>> /\ sig = <<>> /\ destSig = NoFile
        /\ stage = <<>> /\ oldGen = NoFile
        /\ upsets = 0 /\ versions = {src} /\ committed = {}
        /\ touched = FALSE /\ meddled = FALSE /\ forged = FALSE
        /\ vouched = FALSE /\ owed = FALSE /\ faulted = FALSE
    BY Facts DEF Init
  <1>2. 0 \in 0..MaxMtime /\ 1 \in 0..MaxMtime /\ 0 \in 0..MaxUpsets /\ 0 \in 0..MaxLen
        /\ 1 \in 1..MaxFileAttempts
    BY Facts
  <1>3. DiskTypes
    BY <1>1, <1>2 DEF DiskTypes, File, ForeignTime
  <1>4. LogTypes
    <2>1. GenOf(src) \in Gen
      BY <1>3, GenFacts DEF DiskTypes
    <2>2. EmptyLog \in Log
      BY DEF EmptyLog, Log
    <2>3. [status |-> "complete", digest |-> NoDigest, gen |-> GenOf(src)] \in Entry
      BY <2>1 DEF Entry
    <2>4. OldLog \in Log
      BY <2>2, <2>3 DEF OldLog, EmptyLog, Log
    <2> QED
      BY <1>1, <2>2, <2>4 DEF LogTypes
  <1>5. RunTypes
    BY <1>1, <1>2 DEF RunTypes, Pcs, NoFlags, Flags, NoMeta, Gen, ForeignTime
  <1>6. LocalTypes
    BY <1>1, NothingRead DEF LocalTypes
  <1>7. PastTypes
    BY <1>1, <1>2, <1>3 DEF PastTypes, DiskTypes
  <1>8. World
    BY <1>1 DEF World
  <1>9. Past
    BY <1>1 DEF Past
  <1>10. Journal
    BY <1>1, Facts DEF Journal, Claimed, EmptyLog, OldLog
  <1>11. Attempt /\ FinishedMeansSynced /\ FailureHasCause
    BY <1>1 DEF Attempt, FinishedMeansSynced, FailureHasCause
  <1> QED
    BY <1>3, <1>4, <1>5, <1>6, <1>7, <1>8, <1>9, <1>10, <1>11 DEF IInv, Types

LEMMA StepInv == IInv /\ [Next]_vars => IInv'
  <1> SUFFICES ASSUME IInv, [Next]_vars PROVE IInv'
    OBVIOUS
  <1>1. CASE \E o \in Options : StartRun(o)
    BY <1>1, StartKeeps
  <1>2. CASE Step
    BY <1>2, CheckJournalKeeps, DigestDestKeeps, OpenKeeps, ReadKeeps, DigestKeeps, QuickKeeps,
       Pass1Keeps, StatKeeps, PlanKeeps, PutInProgressKeeps, BeginKeeps, SendKeeps, Pass2Keeps, CommitKeeps,
       IndexKeeps, PutCompleteKeeps, PutFailedKeeps, BackOffKeeps, RetryKeeps, EndKeeps DEF Step
  <1>3. CASE Environment
    BY <1>3, IOErrorKeeps, LetGoKeeps, CrashKeeps, EditKeeps, RemoveKeeps, MeddleKeeps DEF Environment
  <1>4. CASE UNCHANGED vars
    <2>1. UNCHANGED <<src, gone, dst, log, idx, pc, opt, meta, attempts, entry, force, buf, sig,
                      destSig, stage, oldGen, result, upsets, versions, committed, touched,
                      meddled, forged, vouched, owed, faulted>>
      BY <1>4 DEF vars, disks, job, locals, history
    <2>2. Types'
      BY <2>1 DEF IInv, Types, DiskTypes, LogTypes, RunTypes, LocalTypes, PastTypes
    <2>3. /\ Same' = Same
          /\ \A d, m : Version(d, m)' <=> Version(d, m)
          /\ \A d, m : HadAll(d, m)' <=> HadAll(d, m)
          /\ \A m : Ambiguous(m)' <=> Ambiguous(m)
      BY <2>1 DEF Same, Version, HadAll, Had, Ambiguous
    <2>4. World' /\ Past' /\ Journal'
      BY <2>1, <2>3 DEF IInv, World, Past, Journal, Claimed
    <2>5. (BufHad => BufHad') /\ (SigHad => SigHad')
      BY <2>1, <2>3 DEF BufHad, SigHad
    <2>6. Attempt'
      BY <2>1, <2>3, <2>5, AttemptStands
    <2>7. FinishedMeansSynced' /\ FailureHasCause'
      BY <2>1 DEF IInv, FinishedMeansSynced, FailureHasCause
    <2> QED
      BY <2>2, <2>4, <2>6, <2>7 DEF IInv
  <1> QED
    BY <1>1, <1>2, <1>3, <1>4 DEF Next

THEOREM Inductive == Spec => []IInv
  BY InitInv, StepInv, PTL DEF Spec

(* The count of edits against the two passes.  First what a step that is not of
   the owner leaves of it. *)
CountFrame == UNCHANGED <<src, versions>> /\ upsets' \in Nat /\ upsets <= upsets'

LEMMA CountMonotone ==
  ASSUME IInv, CountFrame
  PROVE  /\ upsets \in Nat /\ upsets' \in Nat
         /\ upsets >= 1 => upsets' >= 1
         /\ upsets >= 2 => upsets' >= 2
         /\ upsets >= 3 => upsets' >= 3
         /\ upsets >= 3 => upsets >= 2
  <1>1. upsets \in Nat
    BY Facts, State
  <1> QED
    BY <1>1 DEF CountFrame

\* Steps to where nothing is known of what was read.
LEMMA CountsLost ==
  ASSUME ~EndlessEdits, IInv, Counts, CountFrame, UNCHANGED committed, forged' => forged,
         pc' \notin {"read1", "stat1", "plan", "inProgress", "begin", "open2", "read2", "stat2",
                     "commit"}
  PROVE  Counts'
  <1>1. Reads'
    BY DEF Reads
  <1> QED
    BY <1>1, CountMonotone DEF Counts, CountFrame

\* Steps that leave it as it is, at another step of the same kind.
LEMMA CountsStand ==
  ASSUME ~EndlessEdits, IInv, Counts, CountFrame, UNCHANGED <<committed, meta, sig, buf>>,
         forged' => forged \/ upsets' = upsets + 1,
         \/ pc' = pc
         \/ /\ pc \in {"plan", "inProgress", "begin"}
            /\ pc' \in {"inProgress", "begin", "open2"}
  PROVE  Counts'
  <1>1. /\ SameTime' = SameTime /\ SigIsVersion' = SigIsVersion /\ ReadsVersion' = ReadsVersion
        /\ Prefix(buf, src.data)' = Prefix(buf, src.data)
    BY DEF CountFrame, SameTime, SigIsVersion, ReadsVersion, Prefix
  <1>2. Torn1 => Torn1'
    BY CountMonotone DEF CountFrame, Torn1
  <1>3. Reads
    BY DEF Counts
  <1>4. Reads'
    <2>1. CASE pc' = pc
      BY <1>1, <1>2, <1>3, <2>1, CountMonotone DEF Reads, CountFrame
    <2>2. CASE pc \in {"plan", "inProgress", "begin"} /\ pc' \in {"inProgress", "begin", "open2"}
      BY <1>1, <1>3, <2>2, CountMonotone DEF Reads
    <2> QED
      BY <2>1, <2>2
  <1>5. forged' => upsets' >= 1
    BY CountMonotone DEF Counts
  <1> QED
    BY <1>4, <1>5, CountMonotone DEF Counts, CountFrame

\* The steps of the process that read nothing.
LEMMA PlainStepsCount ==
  ASSUME ~EndlessEdits, IInv, Counts,
         \/ \E o \in Options : StartRun(o)
         \/ CheckJournal \/ DigestDest \/ DigestRead \/ QuickCheck \/ PutIndex \/ PutComplete
         \/ PutFailed \/ BackOff \/ Retry \/ EndRun
  PROVE  Counts'
  <1>1. UNCHANGED <<src, versions, committed, forged>>
    BY DEF StartRun, CheckJournal, DigestDest, DigestRead, QuickCheck, PutIndex, PutComplete,
           PutFailed, BackOff, Retry, EndRun, ProcessEnds, disks, history
  <1>2. pc' \in {"idle", "journal", "quick", "hashD", "openD", "open1", "complete", "plain",
                "sleep", "done"}
    BY DEF StartRun, CheckJournal, DigestDest, DigestRead, QuickCheck, PutIndex, PutComplete,
           PutFailed, BackOff, Retry, EndRun, ProcessEnds, Goto, End, Fail
  <1>3. upsets' = upsets \/ upsets' = upsets + 1
    BY DEF StartRun, CheckJournal, DigestDest, DigestRead, QuickCheck, PutIndex, PutComplete,
           PutFailed, BackOff, Retry, EndRun, MustRecopy, ForceTransfer, ForgetIndex, Upset
  <1>4. CountFrame
    <2>1. upsets \in Nat
      BY Facts, State
    <2> QED
      BY <1>1, <1>3, <2>1 DEF CountFrame
  <1> QED
    BY <1>1, <1>2, <1>4, CountsLost

\* The steps between the two passes.
LEMMA MiddleStepsCount ==
  ASSUME ~EndlessEdits, IInv, Counts, Plan \/ PutInProgress \/ BeginWrite
  PROVE  Counts'
  <1>1. UNCHANGED <<src, versions, committed, forged, meta>>
    BY DEF Plan, PutInProgress, BeginWrite, disks, job, history
  <1>2. CountFrame
    <2>1. upsets \in Nat
      BY Facts, State
    <2>2. upsets' = upsets \/ upsets' = upsets + 1
      BY DEF Plan, PutInProgress, BeginWrite, ForgetIndex, Upset
    <2> QED
      BY <1>1, <2>1, <2>2 DEF CountFrame
  <1>3. CASE pc' = "done"
    BY <1>1, <1>2, <1>3, CountsLost
  <1>4. CASE pc' # "done"
    <2>1. UNCHANGED <<buf, sig>> /\ pc \in {"plan", "inProgress", "begin"}
          /\ pc' \in {"inProgress", "begin", "open2"}
      BY <1>4 DEF Plan, PutInProgress, BeginWrite, Goto, End, locals
    <2> QED
      BY <1>1, <1>2, <2>1, CountsStand
  <1> QED
    BY <1>3, <1>4

\* The first block is still to be read.
LEMMA OpenCounts ==
  ASSUME ~EndlessEdits, IInv, Counts, OpenSource
  PROVE  Counts'
  <1>1. UNCHANGED <<src, versions, committed, forged, upsets, meta>>
    BY DEF OpenSource, Open, disks, job, history
  <1>2. CountFrame
    <2>1. upsets \in Nat
      BY Facts, State
    <2> QED
      BY <1>1, <2>1 DEF CountFrame
  <1>3. CASE pc' \in {"plain", "readD"}
    BY <1>1, <1>2, <1>3, CountsLost
  <1>4. CASE pc' \notin {"plain", "readD"}
    <2>1. /\ buf' = <<>> /\ sig' = sig
          /\ \/ pc = "open1" /\ pc' = "read1"
             \/ pc = "open2" /\ pc' = "read2"
      BY <1>4 DEF OpenSource, Open, Fail, Goto
    <2>2. src \in versions /\ Prefix(buf', src.data)
      BY <2>1, NothingRead, State DEF Prefix, IInv, Past
    <2>3. SameTime' => ReadsVersion'
      BY <1>1, <2>2 DEF SameTime, ReadsVersion, Prefix
    <2>4. pc = "open2" => SigIsVersion' \/ upsets' >= 2
      BY <1>1, <2>1 DEF Counts, Reads, SigIsVersion
    <2>5. Prefix(buf, src.data)'
      BY <1>1, <2>2
    <2>6. Reads'
      BY <2>1, <2>3, <2>4, <2>5 DEF Reads
    <2> QED
      BY <1>1, <2>6 DEF Counts
  <1> QED
    BY <1>3, <1>4

\* A block more of pass 1 is the version's too.
LEMMA ReadCounts ==
  ASSUME ~EndlessEdits, IInv, Counts, ReadBlock
  PROVE  Counts'
  <1>1. /\ UNCHANGED <<src, versions, committed, forged, upsets, meta, pc>>
        /\ pc \in {"readD", "read1"}
        /\ Len(buf) < Len(src.data) /\ buf' = Append(buf, src.data[Len(buf) + 1])
    BY DEF ReadBlock, MoreToRead, NextBlock, disks, job, history
  <1>2. /\ Len(buf') = Len(buf) + 1 /\ Len(buf) \in Nat /\ Len(src.data) \in Nat
        /\ buf'[Len(buf) + 1] = src.data[Len(buf) + 1]
        /\ \A k \in 1..Len(buf) : buf'[k] = buf[k]
    BY <1>1, State, ReadOn
  <1>3. ASSUME ReadsVersion PROVE ReadsVersion'
    <2>1. PICK v \in versions : /\ v.mtime = meta.mtime /\ Len(v.data) = Len(src.data)
                                /\ Prefix(buf, v.data)
                                /\ \A k \in 1..Len(v.data) : k > Len(buf) => v.data[k] = src.data[k]
      BY <1>3 DEF ReadsVersion
    <2>2. Len(buf) + 1 \in 1..Len(v.data) /\ Len(buf) + 1 > Len(buf)
      BY <1>1, <1>2, <2>1
    <2>3. v.data[Len(buf) + 1] = src.data[Len(buf) + 1]
      BY <2>1, <2>2
    <2>4. ASSUME NEW k \in 1..Len(buf') PROVE buf'[k] = v.data[k]
      <3>1. k \in 1..Len(buf) \/ k = Len(buf) + 1
        BY <1>2
      <3> QED
        BY <1>2, <2>1, <2>3, <3>1 DEF Prefix
    <2>5. Len(buf') <= Len(v.data)
      BY <1>1, <1>2, <2>1
    <2>6. \A k \in 1..Len(v.data) : k > Len(buf') => v.data[k] = src.data[k]
      BY <1>2, <2>1
    <2>7. Prefix(buf', v.data)
      BY <2>4, <2>5 DEF Prefix
    <2> QED
      BY <1>1, <2>1, <2>6, <2>7 DEF ReadsVersion, Prefix
  <1>4. SameTime' = SameTime /\ Torn1' = Torn1
    BY <1>1 DEF SameTime, Torn1
  <1>5. Reads'
    BY <1>1, <1>3, <1>4 DEF Counts, Reads
  <1> QED
    BY <1>1, <1>5 DEF Counts

\* A pass that has nothing left to read has read the version.
LEMMA Pass1Counts ==
  ASSUME ~EndlessEdits, IInv, Counts, Pass1Read
  PROVE  Counts'
  <1>1. /\ UNCHANGED <<src, versions, committed, forged, upsets, meta>>
        /\ pc = "read1" /\ ~(Len(buf) < Len(src.data))
    BY DEF Pass1Read, MoreToRead, disks, job, history
  <1>2. CountFrame
    <2>1. upsets \in Nat
      BY Facts, State
    <2> QED
      BY <1>1, <2>1 DEF CountFrame
  <1>3. CASE Fail("plain")
    BY <1>1, <1>2, <1>3, CountsLost DEF Fail, Goto
  <1>4. CASE sig' = buf /\ pc' = "stat1"
    <2>1. ASSUME ReadsVersion PROVE SigIsVersion'
      <3>1. PICK v \in versions : /\ v.mtime = meta.mtime /\ Len(v.data) = Len(src.data)
                                  /\ Prefix(buf, v.data)
        BY <2>1 DEF ReadsVersion
      <3>2. v \in File
        BY DEF IInv, Types, PastTypes
      <3>3. v.data \in Content /\ v = [data |-> v.data, mtime |-> v.mtime]
        BY <3>2, GenFacts
      <3>4. buf = v.data
        BY <1>1, <3>1, <3>3, State, ReadAll
      <3> QED
        BY <1>1, <1>4, <3>1, <3>3, <3>4 DEF SigIsVersion
    <2>2. SameTime' = SameTime /\ Torn1' = Torn1
      BY <1>1 DEF SameTime, Torn1
    <2>3. Reads'
      BY <1>1, <1>4, <2>1, <2>2 DEF Counts, Reads
    <2> QED
      BY <1>1, <2>3 DEF Counts
  <1> QED
    BY <1>3, <1>4 DEF Pass1Read, Goto

\* Stat sees another mtime, and another size.
LEMMA StatCounts ==
  ASSUME ~EndlessEdits, IInv, Counts, StatSource
  PROVE  Counts'
  <1>1. UNCHANGED <<src, versions, committed, forged, upsets, meta>>
    BY DEF StatSource, Stat, disks, job, history
  <1>2. CountFrame
    <2>1. upsets \in Nat
      BY Facts, State
    <2> QED
      BY <1>1, <2>1 DEF CountFrame
  <1>3. CASE pc' = "unstable"
    BY <1>1, <1>2, <1>3, CountsLost
  <1>4. CASE pc' # "unstable"
    <2>1. /\ SameGeneration /\ sig' = sig
          /\ \/ pc = "stat1" /\ pc' = "plan"
             \/ pc = "stat2" /\ pc' = "commit"
      BY <1>4 DEF StatSource, Stat, Fail, Goto, locals
    <2>2. SameTime /\ meta.size = Len(src.data)
      BY <2>1, State, GenFacts DEF SameGeneration, SameTime
    <2>3. SigIsVersion' = SigIsVersion
      BY <1>1, <2>1 DEF SigIsVersion
    <2>4. Reads'
      BY <1>1, <2>1, <2>2, <2>3 DEF Counts, Reads, Torn1
    <2> QED
      BY <1>1, <2>4 DEF Counts
  <1> QED
    BY <1>3, <1>4

\* A block more of pass 2.
LEMMA SendCounts ==
  ASSUME ~EndlessEdits, IInv, Counts, SendBlock
  PROVE  Counts'
  <1>1. /\ UNCHANGED <<src, versions, committed, forged, upsets, meta>>
        /\ pc = "read2" /\ Len(buf) < Len(src.data)
        /\ pc' = "plain" \/ (pc' = "read2" /\ sig' = sig /\ buf' = Append(buf, src.data[Len(buf) + 1]))
    BY DEF SendBlock, MoreToRead, NextBlock, Fail, Goto, disks, job, history
  <1>2. CountFrame
    <2>1. upsets \in Nat
      BY Facts, State
    <2> QED
      BY <1>1, <2>1 DEF CountFrame
  <1>3. CASE pc' = "plain"
    BY <1>1, <1>2, <1>3, CountsLost
  <1>4. CASE pc' # "plain"
    <2>1. buf' = Append(buf, src.data[Len(buf) + 1]) /\ pc' = "read2" /\ sig' = sig
      BY <1>1, <1>4
    <2>2. Prefix(buf, src.data) => Prefix(buf', src.data)
      BY <1>1, <2>1, State, ReadOn
    <2>3. /\ Prefix(buf, src.data) => Prefix(buf, src.data)'
          /\ SameTime' = SameTime /\ SigIsVersion' = SigIsVersion
      BY <1>1, <2>1, <2>2 DEF SameTime, SigIsVersion
    <2>4. Reads'
      BY <1>1, <2>1, <2>3 DEF Counts, Reads
    <2> QED
      BY <1>1, <2>4 DEF Counts
  <1> QED
    BY <1>3, <1>4

\* Both passes read the same, and pass 2 all of the source as it is.
LEMMA Pass2Counts ==
  ASSUME ~EndlessEdits, IInv, Counts, Pass2Read
  PROVE  Counts'
  <1>1. /\ UNCHANGED <<src, versions, committed, forged, upsets, meta>>
        /\ pc = "read2" /\ ~(Len(buf) < Len(src.data))
    BY DEF Pass2Read, MoreToRead, disks, job, history
  <1>2. CountFrame
    <2>1. upsets \in Nat
      BY Facts, State
    <2> QED
      BY <1>1, <2>1 DEF CountFrame
  <1>3. CASE pc' \in {"plain", "unstable"}
    BY <1>1, <1>2, <1>3, CountsLost
  <1>4. CASE pc' \notin {"plain", "unstable"}
    <2>1. pc' = "stat2" /\ buf = sig /\ sig' = sig
      BY <1>4 DEF Pass2Read, Fail, Goto, ReadTwice, locals
    <2>2. ASSUME SameTime, Prefix(buf, src.data) PROVE SigIsVersion
      <3>1. sig = src.data
        BY <1>1, <2>1, <2>2, State, ReadAll
      <3>2. src \in versions /\ src = [data |-> src.data, mtime |-> src.mtime]
        BY State, GenFacts DEF IInv, Past
      <3> QED
        BY <2>2, <3>1, <3>2 DEF SigIsVersion, SameTime
    <2>3. SameTime' = SameTime /\ SigIsVersion' = SigIsVersion
      BY <1>1, <2>1 DEF SameTime, SigIsVersion
    <2>4. Reads'
      BY <1>1, <2>1, <2>2, <2>3 DEF Counts, Reads
    <2> QED
      BY <1>1, <2>4 DEF Counts
  <1> QED
    BY <1>3, <1>4

LEMMA CommitCounts ==
  ASSUME ~EndlessEdits, IInv, Counts, Commit
  PROVE  Counts'
  <1>1. pc = "commit" /\ UNCHANGED <<src, versions, upsets>>
    BY DEF Commit
  <1>2. CASE pc' = "plain" /\ UNCHANGED <<committed, forged>>
    <2>1. Reads'
      BY <1>2 DEF Reads
    <2> QED
      BY <1>1, <1>2, <2>1 DEF Counts
  <1>3. CASE /\ pc' = "index" /\ dst' = [data |-> sig, mtime |-> meta.mtime]
             /\ committed' = Recorded(committed, dst')
             /\ forged' = (forged /\ touched)
    <2>1. SigIsVersion \/ upsets >= 3
      BY <1>1 DEF Counts, Reads
    <2>2. upsets' >= 3 \/ committed' \subseteq versions'
      BY <1>1, <1>3, <2>1 DEF Counts, SigIsVersion, Recorded
    <2>3. forged' => forged
      BY <1>3
    <2>4. Reads'
      BY <1>3 DEF Reads
    <2> QED
      BY <1>1, <2>2, <2>3, <2>4 DEF Counts
  <1> QED
    BY <1>2, <1>3 DEF Commit, Fail, Goto

\* A write that leaves the length as it was replaces one block.
LEMMA EditInPlace ==
  ASSUME NEW d \in Edits, src.data \in Content, d # src.data, Len(d) = Len(src.data)
  PROVE  \E i \in 1..Len(src.data) : \A k \in 1..Len(src.data) : k # i => d[k] = src.data[k]
  <1> DEFINE Replaced  == {[src.data EXCEPT ![i] = block] : i \in DOMAIN src.data, block \in Block}
             Truncated == {SubSeq(src.data, 1, n) : n \in 0..Len(src.data)}
             Appends   == {Append(src.data, block) : block \in Block}
             InPlace   == \E i \in 1..Len(src.data) :
                              \A k \in 1..Len(src.data) : k # i => d[k] = src.data[k]
  <1> SUFFICES InPlace
    OBVIOUS
  <1>1. /\ src.data \in Seq(Block) /\ Len(src.data) \in Nat /\ DOMAIN src.data = 1..Len(src.data)
        /\ \A k \in 1..Len(src.data) : src.data[k] \in Block
    BY ContentFacts
  <1>2. CASE d \in Replaced
    <2>1. PICK i \in 1..Len(src.data) : \E block \in Block : d = [src.data EXCEPT ![i] = block]
      BY <1>1, <1>2
    <2>2. PICK block \in Block : d = [src.data EXCEPT ![i] = block]
      BY <2>1
    <2>3. \A k \in 1..Len(src.data) : k # i => d[k] = src.data[k]
      BY <1>1, <2>2
    <2> QED
      BY <2>3
  <1>3. CASE d \in Truncated
    <2>1. PICK n \in 0..Len(src.data) : d = SubSeq(src.data, 1, n)
      BY <1>3
    <2>2. n \in Int /\ n <= Len(src.data) /\ 0 <= n
      BY <1>1
    <2>3. \A k \in 1..n : src.data[k] \in Block
      BY <1>1, <2>2
    <2>4. /\ d \in Seq(Block) /\ Len(d) = IF 1 <= n THEN n - 1 + 1 ELSE 0
          /\ \A k \in 1..(n - 1 + 1) : d[k] = src.data[1 + k - 1]
      BY <2>1, <2>2, <2>3, SubSeqProperties
    <2>5. n = Len(src.data)
      BY <1>1, <2>2, <2>4
    <2>6. \A k \in 1..Len(src.data) : d[k] = src.data[k]
      BY <1>1, <2>4, <2>5
    <2>7. d = src.data
      BY <1>1, <2>4, <2>6, SeqEqual
    <2> QED
      BY <2>7
  <1>4. CASE d \in Appends
    <2>1. PICK block \in Block : d = Append(src.data, block)
      BY <1>4
    <2>2. Len(d) = Len(src.data) + 1
      BY <1>1, <2>1, AppendProperties
    <2> QED
      BY <1>1, <2>2
  <1>5. d \in Replaced \/ d \in Truncated \/ d \in Appends
    BY DEF Edits
  <1> HIDE DEF Replaced, Truncated, Appends, InPlace
  <1> QED
    BY <1>2, <1>3, <1>4, <1>5

(* A write of the owner that shows in the mtime is nothing new to the count; one
   that does not is one more, and the first of all finds a source that was read as
   it is. *)
LEMMA EditCounts ==
  ASSUME ~EndlessEdits, IInv, Counts, EditSource
  PROVE  Counts'
  <1>1. PICK d \in Edits \ {src.data} : \E m \in 1..MaxMtime :
            /\ \/ m = src.mtime + 1 /\ UNCHANGED <<forged, upsets>>
               \/ m = src.mtime /\ Upset /\ forged' = TRUE
            /\ src' = [data |-> d, mtime |-> m]
            /\ versions' = versions \cup {src'}
            /\ UNCHANGED <<pc, job, locals, committed>>
    BY DEF EditSource, Recorded
  <1>2. PICK m \in 1..MaxMtime :
            /\ \/ m = src.mtime + 1 /\ UNCHANGED <<forged, upsets>>
               \/ m = src.mtime /\ Upset /\ forged' = TRUE
            /\ src' = [data |-> d, mtime |-> m]
            /\ versions' = versions \cup {src'}
            /\ UNCHANGED <<pc, job, locals, committed>>
    BY <1>1
  <1>3. /\ UNCHANGED <<pc, meta, sig, buf, committed>>
        /\ src'.data = d /\ src'.mtime = m /\ src' \in versions' /\ versions \subseteq versions'
        /\ d \in Content /\ Len(d) \in Nat /\ upsets \in Nat /\ m \in Nat
    <2>1. d \in Content
      BY <1>1, State, EditsFit
    <2>2. upsets \in Nat /\ m \in Nat
      BY Facts, State
    <2> QED
      BY <1>2, <2>1, <2>2, ContentFacts DEF job, locals
  <1>4. /\ upsets' = upsets \/ upsets' = upsets + 1
        /\ upsets >= 1 => upsets' >= 1
        /\ upsets >= 2 => upsets' >= 2
        /\ upsets >= 3 => upsets' >= 3
        /\ forged' => upsets' >= 1
    <2>1. (upsets' = upsets /\ forged' = forged) \/ upsets' = upsets + 1
      BY <1>2 DEF Upset
    <2>2. forged => upsets >= 1
      BY DEF Counts
    <2> QED
      BY <1>3, <2>1, <2>2
  <1>5. SigIsVersion => SigIsVersion'
    BY <1>3 DEF SigIsVersion
  <1>6. ASSUME pc # "idle", SameTime'
        PROVE  SameTime /\ m = src.mtime /\ upsets' = upsets + 1
    <2>1. meta.mtime <= src.mtime /\ m = meta.mtime
      BY <1>3, <1>6 DEF SameTime, IInv, Past
    <2>2. m # src.mtime + 1
      BY <2>1, State
    <2> QED
      BY <1>2, <2>1, <2>2 DEF SameTime, Upset
  <1>7. ASSUME pc # "idle", SameTime', ~(upsets >= 1)
        PROVE  Same /\ meta.size = Len(src.data)
    <2>1. ~forged /\ src.mtime <= meta.mtime
      BY <1>6, <1>7, State DEF Counts, SameTime
    <2>2. Same
      BY <2>1 DEF Same
    <2> QED
      BY <1>7, <2>2, State, GenFacts DEF World
  <1>8. ASSUME pc = "read1", SameTime' PROVE ReadsVersion' \/ Torn1'
    <2>1. CASE upsets >= 1
      BY <1>3, <1>6, <1>8, <2>1 DEF Torn1
    <2>2. CASE ~(upsets >= 1) /\ Len(d) # Len(src.data)
      <3>1. meta.size = Len(src.data)
        BY <1>7, <1>8, <2>2
      <3>2. upsets' >= 1
        BY <1>3, <1>6, <1>8
      <3> QED
        BY <1>3, <2>2, <3>1, <3>2 DEF Torn1
    <2>3. CASE ~(upsets >= 1) /\ Len(d) = Len(src.data)
      <3>1. Prefix(buf, src.data) /\ src \in versions /\ src.mtime = meta.mtime
        BY <1>6, <1>7, <1>8, <2>3, State DEF Attempt, BufSeen, IInv, Past, SameTime
      <3>2. PICK i \in 1..Len(src.data) : \A k \in 1..Len(src.data) : k # i => d[k] = src.data[k]
        BY <1>1, <2>3, State, EditInPlace
      <3>3. CASE i <= Len(buf)
        <4>1. \A k \in 1..Len(src.data) : k > Len(buf) => src.data[k] = d[k]
          BY <3>2, <3>3, State
        <4> QED
          BY <1>3, <2>3, <3>1, <4>1 DEF ReadsVersion, Prefix
      <3>4. CASE ~(i <= Len(buf))
        <4>1. \A k \in 1..Len(buf) : k \in 1..Len(src.data) /\ k # i
          BY <3>1, <3>4, State DEF Prefix
        <4>2. Prefix(buf, d)
          BY <2>3, <3>1, <3>2, <4>1 DEF Prefix
        <4>3. m = meta.mtime
          BY <1>6, <1>8, <3>1
        <4> QED
          BY <1>3, <4>2, <4>3 DEF ReadsVersion, Prefix
      <3> QED
        BY <3>3, <3>4
    <2> QED
      BY <2>1, <2>2, <2>3
  <1>9. ASSUME pc = "stat1", SameTime' PROVE SigIsVersion' \/ Torn1'
    <2>1. CASE upsets >= 1
      BY <1>3, <1>6, <1>9, <2>1 DEF Torn1
    <2>2. CASE ~(upsets >= 1)
      <3>1. sig = src.data
        BY <1>7, <1>9, <2>2, State DEF Attempt, SigSeen
      <3>2. src \in versions /\ src = [data |-> src.data, mtime |-> src.mtime]
        BY State, GenFacts DEF IInv, Past
      <3>3. src.mtime = meta.mtime
        BY <1>6, <1>9 DEF SameTime
      <3> QED
        BY <1>5, <3>1, <3>2, <3>3 DEF SigIsVersion
    <2> QED
      BY <2>1, <2>2
  <1>10. ASSUME pc = "read2"
         PROVE  (\/ SigIsVersion \/ upsets >= 3
                 \/ upsets >= 2 /\ (SameTime => Prefix(buf, src.data)))'
    <2>1. SigIsVersion \/ upsets >= 3 \/ upsets >= 2
      BY <1>10 DEF Counts, Reads
    <2>2. SameTime' /\ upsets >= 2 => upsets' >= 3
      BY <1>3, <1>6, <1>10
    <2> QED
      BY <1>4, <1>5, <2>1, <2>2
  <1>11. Reads'
    <2>1. pc \in {"plan", "inProgress", "begin", "open2"} => SigIsVersion' \/ upsets' >= 2
      BY <1>4, <1>5 DEF Counts, Reads
    <2>2. pc = "stat2" /\ SameTime' => SigIsVersion' \/ upsets' >= 3
      BY <1>4, <1>5, <1>6 DEF Counts, Reads
    <2>3. pc = "commit" => SigIsVersion' \/ upsets' >= 3
      BY <1>4, <1>5 DEF Counts, Reads
    <2> QED
      BY <1>3, <1>8, <1>9, <1>10, <2>1, <2>2, <2>3 DEF Reads
  <1>12. upsets' >= 3 \/ committed' \subseteq versions'
    BY <1>3, <1>4 DEF Counts
  <1> QED
    BY <1>4, <1>11, <1>12 DEF Counts

\* The rest of what goes wrong, which touches neither the source nor what was read of it.
LEMMA OthersCount ==
  ASSUME ~EndlessEdits, IInv, Counts, IOError \/ LetGo \/ Crash \/ RemoveSource \/ MeddleWithDest
  PROVE  Counts'
  <1>1. UNCHANGED <<src, versions, committed>> /\ upsets' = upsets + 1
    BY DEF IOError, LetGo, Crash, RemoveSource, MeddleWithDest, Upset, ProcessEnds
  <1>2. CountFrame /\ upsets \in Nat
    <2>1. upsets \in Nat
      BY Facts, State
    <2> QED
      BY <1>1, <2>1 DEF CountFrame
  <1>3. CASE IOError \/ LetGo
    <2>1. /\ forged' = forged
          /\ pc' \in {"plain", "unstable", "quick", "open1", "journal", "complete", "done"}
      BY <1>3 DEF IOError, LetGo, Fail, End, Goto
    <2> QED
      BY <1>1, <1>2, <2>1, CountsLost
  <1>4. CASE Crash
    BY <1>1, <1>2, <1>4, CountsLost DEF Crash, ProcessEnds
  <1>5. CASE RemoveSource \/ MeddleWithDest
    <2>1. UNCHANGED <<meta, sig, buf, pc>>
      BY <1>5 DEF RemoveSource, MeddleWithDest, job, locals
    <2> QED
      BY <1>1, <1>2, <2>1, CountsStand
  <1> QED
    BY <1>3, <1>4, <1>5

LEMMA InitCounts == Init => Counts
  BY DEF Init, Counts, Reads

LEMMA StepCounts == IInv /\ Counts /\ [Next]_vars => Counts'
  <1> SUFFICES ASSUME IInv, Counts, [Next]_vars, ~EndlessEdits PROVE Counts'
    BY DEF Counts
  <1>1. CASE Next
    BY <1>1, PlainStepsCount, MiddleStepsCount, OpenCounts, ReadCounts, Pass1Counts, StatCounts,
       SendCounts, Pass2Counts, CommitCounts, EditCounts, OthersCount DEF Next, Step, Environment
  <1>2. CASE UNCHANGED vars
    <2>1. UNCHANGED <<src, versions, committed, meta, sig, buf, pc, forged, upsets>>
      BY <1>2 DEF vars, disks, job, locals, history
    <2>2. CountFrame
      <3>1. upsets \in Nat
        BY Facts, State
      <3> QED
        BY <2>1, <3>1 DEF CountFrame
    <2> QED
      BY <2>1, <2>2, CountsStand
  <1> QED
    BY <1>1, <1>2

LEMMA CountsMean == IInv /\ Counts => HiddenEditsCaught
  <1> SUFFICES ASSUME IInv, Counts, upsets <= 2 PROVE committed \subseteq versions
    BY DEF HiddenEditsCaught
  <1>1. CASE EndlessEdits
    BY <1>1 DEF IInv, Past
  <1>2. CASE ~EndlessEdits
    <2>1. upsets \in Nat
      BY Facts, State
    <2>2. ~(upsets >= 3)
      BY <2>1
    <2> QED
      BY <1>2, <2>2 DEF Counts
  <1> QED
    BY <1>1, <1>2

(* Two edits that keep the mtime do not get past the double read, whatever else
   goes wrong and however long the file is: what is put in place is a version. *)
THEOREM TwoHiddenEditsCaught == Spec => []HiddenEditsCaught
  <1>1. Init => Counts
    BY InitCounts
  <1>2. IInv /\ Counts /\ [Next]_vars => Counts'
    BY StepCounts
  <1>3. IInv /\ Counts => HiddenEditsCaught
    BY CountsMean
  <1> QED
    BY <1>1, <1>2, <1>3, Inductive, PTL DEF Spec

LEMMA Implied ==
  IInv => /\ TypeOK /\ OnlySourceVersionsCommitted /\ FinishedMeansSynced /\ FailureHasCause
          /\ ~EndlessEdits => JournalClaimsCommitted
  <1> SUFFICES ASSUME IInv
               PROVE  /\ TypeOK /\ OnlySourceVersionsCommitted
                      /\ ~EndlessEdits => JournalClaimsCommitted
    BY DEF IInv
  <1>1. TypeOK
    BY DEF IInv, Types, DiskTypes, LogTypes, RunTypes, LocalTypes, PastTypes, TypeOK
  <1>2. ASSUME NEW f \in committed
        PROVE  /\ \A i \in 1..Len(f.data) : Had(f.data[i], i, f.mtime)
               /\ f \in versions \/ Ambiguous(f.mtime)
    <2>1. Version(f.data, f.mtime) /\ f \in File
      BY <1>2, Facts DEF IInv, Past, Types, PastTypes
    <2>2. f = [data |-> f.data, mtime |-> f.mtime]
      BY <2>1, GenFacts
    <2> QED
      BY <2>1, <2>2 DEF Version, HadAll
  <1>3. ASSUME ~EndlessEdits PROVE JournalClaimsCommitted
    <2>1. Claimed(entry) /\ Claimed(log.last) /\ Claimed(log.tail)
      BY <1>3 DEF IInv, Journal
    <2>2. entry \in Entry \cup {NoEntry} /\ log.last \in Entry \cup {NoEntry}
      BY DEF IInv, Types, LogTypes, Log
    <2> QED
      BY <2>1, <2>2 DEF JournalClaimsCommitted, Claimed, Loaded
  <1> QED
    BY <1>1, <1>2, <1>3 DEF OnlySourceVersionsCommitted

\* The type invariant of the transfer.
THEOREM TypeCorrect == Spec => []TypeOK
  BY Inductive, Implied, PTL

(* What is put in place is made of blocks that the source had there under that
   mtime, and is one version of it unless the mtime was kept or set back over a
   change: however the owner's writes fall between the two passes. *)
THEOREM CommittedVersions == Spec => []OnlySourceVersionsCommitted
  BY Inductive, Implied, PTL

(* The journal never runs ahead of the rename, whatever crashes cut its lines
   short.  (With EndlessEdits no history of what was put in place is kept.) *)
THEOREM ClaimsAreCommitted == ~EndlessEdits => (Spec => []JournalClaimsCommitted)
  <1> SUFFICES ASSUME ~EndlessEdits PROVE Spec => []JournalClaimsCommitted
    OBVIOUS
  <1>1. IInv => JournalClaimsCommitted
    BY Implied
  <1> QED
    BY <1>1, Inductive, PTL

\* What is reported as copied or skipped is the source's, if the attempt was left alone.
THEOREM FinishedIsSynced == Spec => []FinishedMeansSynced
  BY Inductive, Implied, PTL

\* A file fails only for something that happened during the attempt.
THEOREM FailuresHaveCauses == Spec => []FailureHasCause
  BY Inductive, Implied, PTL
=============================================================================
