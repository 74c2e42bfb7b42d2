------------------------------ MODULE SyncTree ------------------------------
(***************************************************************************)
(* One run of internal/engine/engine.go over a whole tree, local to local: *)
(* Run walks the source, workers take its paths from a queue and mirror    *)
(* them, and with --delete, if the job was clean, deleteExtras removes     *)
(* what the destination has besides.  Paths go through safepath.Confine,   *)
(* which follows symbolic links at the destination.                        *)
(*                                                                         *)
(* How one file gets across is FileTransfer and LocalWrite; here it is     *)
(* begun and installed, skipped or failed.  Paths are sequences of one or  *)
(* two names; links are at the top.  A version stands for size, mtime and  *)
(* content.  The run is the only writer of the destination.                *)
(***************************************************************************)
EXTENDS Naturals, Sequences, FiniteSets, SequencesExt

CONSTANTS Name, SubName, \* names at the top, and in its directories
          Version,       \* file versions
          Elsewhere,     \* link target outside the root, or that does not exist
          Writable, ReadOnly, \* modes of directories
          Nil,
          Worker,
          WalkOrder,     \* every path, in the order of filepath.WalkDir
          SrcTrees, DstTrees, \* trees the run may find (DstTrees: with staging dirs)
          Excludes,      \* sets of paths --exclude may match
          MaxTroubles    \* bound: source changes, I/O errors, cancellation

Top  == {<<n>> : n \in Name}
Path == Top \cup {<<n, m>> : n \in Name, m \in SubName}
TopOf(p) == <<p[1]>>
Below(p) == {q \in Path : Len(q) > Len(p) /\ TopOf(q) = p}

None == [kind |-> "none", val |-> Nil]
File(v) == [kind |-> "file", val |-> v]
Dir(m)  == [kind |-> "dir", val |-> m]
Link(t) == [kind |-> "link", val |-> t]
Entry == {None} \cup {File(v) : v \in Version} \cup {Dir(m) : m \in {Writable, ReadOnly}}
                \cup {Link(t) : t \in Top \cup {Elsewhere}}

\* Links are at the top, and what is not a directory has nothing below it.
WellFormed(t) ==
    /\ t \in [Path -> Entry]
    /\ \A p \in Path \ Top : t[p].kind # "link" /\ (t[p] # None => t[TopOf(p)].kind = "dir")

ASSUME OrderAssumption == IsInjective(WalkOrder) /\ ToSet(WalkOrder) = Path
ASSUME ValueAssumption == MaxTroubles \in Nat /\ Nil \notin Path /\ Writable # ReadOnly
ASSUME TreeAssumption ==
    /\ \A t \in SrcTrees : WellFormed(t)
    /\ \A d \in DstTrees : WellFormed(d.tree) /\ d.staged \subseteq {p \in Top : d.tree[p].kind = "dir"}

VARIABLES src, dst,   \* the trees
          staged,     \* dest directories that hold a .quiksync.tmp
          deleting,   \* SyncMode, Delete and no DryRun
          excluded,   \* paths that match cfg.Exclude
          walked,     \* srcFiles: what Walk listed
          queue,      \* jobs, handed out in the order of the walk
          worker,     \* what each worker is doing
          outcome,    \* what became of each path
          canceled,   \* ctx
          phase,      \* where Run is
          files, dirs, \* what deleteExtras has yet to remove
          result,     \* what Run returned
          before,     \* history: dest before the run
          seen,       \* history: what the source had at each path since the walk
          faulty,     \* history: paths met with an I/O error, or cut short by the context
          removed,    \* history: what deleteExtras removed
          followed,   \* history: a path at dest, or a later Stat of the source, led through a link
          troubles

tree == <<src, dst, staged>>
run  == <<deleting, excluded, before>>
extras == <<files, dirs>>
vars == <<tree, run, walked, queue, worker, outcome, canceled, phase, extras,
          result, seen, faulty, removed, followed, troubles>>

\* meta: what the worker takes the source to be: the walk's, or a later Stat's.
Idle == [st |-> "idle", path |-> Nil, at |-> Nil, meta |-> Nil]
Taken(p, e) == [st |-> "taken", path |-> p, at |-> Nil, meta |-> e]
Writing(p, r, e) == [st |-> "writing", path |-> p, at |-> r, meta |-> e]
WorkerState == {Idle} \cup [st : {"taken"}, path : Path, at : {Nil}, meta : Entry]
                      \cup [st : {"writing"}, path : Path, at : Path,
                           meta : {File(v) : v \in Version}]
Outcomes == {"none", "ok", "skipped", "cut", "failed"}
-----------------------------------------------------------------------------
(* Paths, at either side. *)
IsKind(p, k) == dst[p].kind = k

\* EvalSymlinks of a path at the top: Nil if it leads nowhere, out, or in circles.
Follow(t, p) ==
    LET hop[n \in 0..Cardinality(Top)] ==
            IF n = 0 THEN p
            ELSE LET q == hop[n - 1] IN
                 IF q \in Top /\ t[q].kind = "link" THEN t[q].val ELSE q
        end == hop[Cardinality(Top)]
    IN IF end \in Top /\ t[end].kind \notin {"link", "none"} THEN end ELSE Nil

\* Confine in the tree t: the path that the OS is given, Nil for an error.  A
\* final link is followed too; what does not exist is taken as it is.
ConfineIn(t, p) ==
    LET top == TopOf(p)
        base == IF t[top].kind = "link" THEN Follow(t, top) ELSE top
    IN IF base = Nil \/ Len(p) = 1 THEN base
       ELSE IF t[base].kind = "file" THEN Nil ELSE <<base[1], p[2]>>
Confine(p) == ConfineIn(dst, p)

\* What Stat and OpenRead of the source have at p.
SourceAt(p) == LET s == ConfineIn(src, p) IN IF s = Nil THEN None ELSE src[s]

\* Entries of p's directory can be made, renamed and removed.
CanChange(p) == Len(p) = 1 \/ dst[TopOf(p)] = Dir(Writable)

Empty(p) == p \notin staged /\ \A q \in Below(p) : IsKind(q, "none")
-----------------------------------------------------------------------------
Trouble == troubles < MaxTroubles /\ troubles' = troubles + 1

\* Walk prunes what is excluded; it lists links and does not follow them.
Listed(p) == src[p] # None /\ TopOf(p) \notin excluded /\ p \notin excluded

WalkSource ==
    /\ phase = "walk"
    /\ walked' = [p \in Path |-> IF Listed(p) THEN src[p] ELSE None]
    /\ queue' = {p \in Path : Listed(p)}
    /\ seen' = [p \in Path |-> {src[p]}]
    /\ phase' = "transfer"
    /\ UNCHANGED <<tree, run, worker, outcome, canceled, extras, result, faulty,
                   removed, followed, troubles>>

Done(w, o) ==
    /\ outcome' = [outcome EXCEPT ![worker[w].path] = o]
    /\ worker' = [worker EXCEPT ![w] = Idle]

\* The first of S in the order of the walk.
Precedes(p, q) == \E i, j \in DOMAIN WalkOrder : i <= j /\ WalkOrder[i] = p /\ WalkOrder[j] = q
First(S) == {p \in S : \A q \in S : Precedes(p, q)}

\* A worker takes a job; once the context is canceled it counts it as skipped.
Take(w) ==
    /\ phase = "transfer" /\ worker[w].st = "idle"
    /\ \E p \in First(queue) :
         /\ queue' = queue \ {p}
         /\ \/ /\ canceled
               /\ outcome' = [outcome EXCEPT ![p] = "cut"]
               /\ UNCHANGED worker
            \/ /\ ~canceled
               /\ worker' = [worker EXCEPT ![w] = Taken(p, walked[p])]
               /\ UNCHANGED outcome
    /\ UNCHANGED <<tree, run, walked, canceled, phase, extras, result, seen, faulty,
                   removed, followed, troubles>>

Has(w, k) == worker[w].st = "taken" /\ worker[w].meta.kind = k

\* MkdirAll of a directory, parents too, and Chmod to its mode at the source.
CanMakeDir(r) == /\ r # Nil /\ ~IsKind(r, "file")
                 /\ IsKind(r, "none") => CanChange(r) \/ IsKind(TopOf(r), "none")
\* Mutant of WithParent: the parent is left to its own job.
NoParent(p) == dst
WithParent(p) == IF IsKind(TopOf(p), "none") THEN [dst EXCEPT ![TopOf(p)] = Dir(Writable)] ELSE dst

MakeDir(w) ==
    LET p == worker[w].path
        r == Confine(p)
    IN
    /\ Has(w, "dir")
    /\ \/ CanMakeDir(r) /\ dst' = [WithParent(r) EXCEPT ![r] = worker[w].meta] /\ Done(w, "ok")
       \/ ~CanMakeDir(r) /\ UNCHANGED dst /\ Done(w, "failed")
    /\ followed' = (followed \/ r # p)
    /\ UNCHANGED <<src, staged, run, walked, queue, canceled, phase, extras, result,
                   seen, faulty, removed, troubles>>

\* ReadLink and Symlink: whatever is in the way is removed, with all it holds.
CanReplace(p) == dst[p] = Dir(ReadOnly) => Empty(p)
\* Mutant of Put: the staging directory inside is forgotten.
PutOver(p, e) == /\ dst' = [dst EXCEPT ![p] = e]
                 /\ UNCHANGED staged
Put(p, e) == /\ dst' = [q \in Path |-> IF q = p THEN e ELSE IF q \in Below(p) THEN None ELSE dst[q]]
             /\ staged' = staged \ {p}

MakeLink(w) ==
    LET p == worker[w].path
        can == src[p].kind = "link" /\ CanReplace(p)
    IN
    /\ Has(w, "link")
    /\ \/ /\ can
          /\ Put(p, src[p])
          /\ Done(w, "ok")
       \/ ~can /\ UNCHANGED <<dst, staged>> /\ Done(w, "failed")
    /\ UNCHANGED <<src, run, walked, queue, canceled, phase, extras, result, seen,
                   faulty, removed, followed, troubles>>

\* An attempt that found the source unstable, and not the last: transferOne
\* waits and looks at the source again, which may now be a directory.
LookAgain(w) ==
    LET p == worker[w].path
        now == SourceAt(p)
    IN /\ ~canceled
       /\ worker' = [worker EXCEPT ![w] = Taken(p, IF now = None THEN worker[w].meta ELSE now)]
       /\ UNCHANGED outcome
\* ... through a link
Strays(w) == worker'[w].st = "taken" /\ ConfineIn(src, worker[w].path) # worker[w].path

\* tryTransfer up to BeginWrite.  A dest that looks like the metadata is left
\* alone, the source unseen.  Else the source is read, and is what the metadata
\* says or the attempt fails, at once (a size hint, chunk.go) or as unstable.
\* Then a write session is opened, which makes the dest's directory and a
\* staging directory in it (or in the root).
\* Mutant of LooksTheSame: any file there will do.
IsThere(r, m) == r # Nil /\ dst[r].kind = m.kind
LooksTheSame(r, m) == r # Nil /\ dst[r] = m
CanBegin(p, r, m) == SourceAt(p) = m /\ r # Nil /\ ~IsKind(r, "dir")

Begin(w) ==
    LET p == worker[w].path
        m == worker[w].meta
        r == Confine(p)
    IN
    /\ Has(w, "file")
    /\ \/ LooksTheSame(r, m) /\ Done(w, "skipped") /\ UNCHANGED <<dst, staged>>
       \/ /\ ~LooksTheSame(r, m) /\ CanBegin(p, r, m)
          /\ worker' = [worker EXCEPT ![w] = Writing(p, r, m)]
          /\ IF Len(r) = 1 THEN UNCHANGED <<dst, staged>>
             ELSE /\ dst' = WithParent(r)
                  /\ staged' = IF dst'[TopOf(r)] = Dir(Writable)
                               THEN staged \cup {TopOf(r)} ELSE staged
          /\ UNCHANGED outcome
       \/ /\ ~LooksTheSame(r, m) /\ ~CanBegin(p, r, m)
          /\ Done(w, "failed") /\ UNCHANGED <<dst, staged>>
       \/ /\ ~LooksTheSame(r, m) /\ SourceAt(p) # m
          /\ LookAgain(w) /\ UNCHANGED <<dst, staged>>
    /\ followed' = (followed \/ r # p \/ Strays(w))
    /\ UNCHANGED <<src, run, walked, queue, canceled, phase, extras, result, seen,
                   faulty, removed, troubles>>

\* The rest of tryTransfer: the source is looked at again and the staging file
\* renamed to the path found by BeginWrite.  An unstable source is tried again
\* or, after the last attempt or if canceled, given up.  Between two chunks the
\* worker looks at the context.
Unchanged(w) == SourceAt(worker[w].path) = worker[w].meta
CanInstall(r) == ~IsKind(r, "dir") /\ CanChange(r)

Install(w) ==
    LET r == worker[w].at IN
    /\ worker[w].st = "writing"
    /\ \/ /\ Unchanged(w) /\ CanInstall(r)
          /\ dst' = [dst EXCEPT ![r] = worker[w].meta]
          /\ Done(w, "ok") /\ UNCHANGED faulty
       \/ /\ ~Unchanged(w) \/ ~CanInstall(r)
          /\ Done(w, "failed") /\ UNCHANGED <<dst, faulty>>
       \/ /\ ~Unchanged(w)
          /\ LookAgain(w) /\ UNCHANGED <<dst, faulty>>
       \/ /\ canceled
          /\ Done(w, "failed") /\ faulty' = faulty \cup {worker[w].path} /\ UNCHANGED dst
    /\ followed' = (followed \/ Strays(w))
    /\ UNCHANGED <<src, staged, run, walked, queue, canceled, phase, extras, result,
                   seen, removed, troubles>>
-----------------------------------------------------------------------------
Failed == \E p \in Path : outcome[p] = "failed"
\* Mutant of Clean: stats.FilesFailed is not looked at.
NotCanceled == ~canceled
Clean == ~canceled /\ ~Failed

\* wg.Wait, then the gate of --delete and deleteExtras' walk of the dest.
Extra(p) == dst[p] # None /\ walked[p] = None /\ p \notin excluded

Return(r) == phase' = "done" /\ result' = r /\ files' = {} /\ dirs' = {}

Gather ==
    /\ phase = "transfer" /\ queue = {} /\ \A w \in Worker : worker[w] = Idle
    /\ \/ deleting /\ Clean /\ phase' = "delete"
          /\ files' = {p \in Path : Extra(p) /\ ~IsKind(p, "dir")}
          /\ dirs' = {p \in Path : Extra(p) /\ IsKind(p, "dir")}
          /\ UNCHANGED result
       \/ ~(deleting /\ Clean) /\ Return(IF Clean THEN "nil" ELSE "error")
    /\ UNCHANGED <<tree, run, walked, queue, worker, outcome, canceled, seen, faulty,
                   removed, followed, troubles>>

\* os.Remove of the confined path.
CanRemove(r) == r # Nil /\ ~IsKind(r, "none") /\ CanChange(r) /\ (IsKind(r, "dir") => Empty(r))
RemovePath(r) == dst' = [dst EXCEPT ![r] = None] /\ removed' = removed \cup {r}

\* deleteExtras, one file or link, in the order of the walk: an error ends it.
RemoveFile ==
    /\ phase = "delete" /\ ~canceled
    /\ \E p \in First(files) :
         /\ \/ CanRemove(Confine(p)) /\ RemovePath(Confine(p)) /\ files' = files \ {p}
               /\ UNCHANGED <<dirs, phase, result>>
            \/ ~CanRemove(Confine(p)) /\ Return("error") /\ UNCHANGED <<dst, removed>>
         /\ followed' = (followed \/ Confine(p) # p)
    /\ UNCHANGED <<src, staged, run, walked, queue, worker, outcome, canceled, seen,
                   faulty, troubles>>

\* Then one directory, the deepest first: an error is let go.
Deepest(S) == {p \in S : \A q \in S : Len(q) <= Len(p)}

RemoveDir ==
    /\ phase = "delete" /\ files = {} /\ ~canceled
    /\ \E p \in Deepest(dirs) :
         /\ \/ CanRemove(Confine(p)) /\ RemovePath(Confine(p))
            \/ ~CanRemove(Confine(p)) /\ UNCHANGED <<dst, removed>>
         /\ dirs' = dirs \ {p}
         /\ followed' = (followed \/ Confine(p) # p)
    /\ UNCHANGED <<src, staged, run, walked, queue, worker, outcome, canceled, phase,
                   files, result, seen, faulty, troubles>>

DeleteEnds ==
    /\ phase = "delete" /\ (files \cup dirs = {} \/ canceled)
    /\ Return(IF canceled THEN "error" ELSE "nil")
    /\ UNCHANGED <<tree, run, walked, queue, worker, outcome, canceled, seen, faulty,
                   removed, followed, troubles>>
-----------------------------------------------------------------------------
(* What others do to the run. *)

Cancel ==
    /\ phase # "done" /\ ~canceled
    /\ Trouble
    /\ canceled' = TRUE
    /\ UNCHANGED <<tree, run, walked, queue, worker, outcome, phase, extras, result,
                   seen, faulty, removed, followed>>

\* Any call a worker makes on either side may fail: Symlink, after what was in
\* the way is gone; MkdirAll, after it made the parent; Chmod, after MkdirAll.
HalfMade(w) ==
    LET p == worker[w].path
        r == Confine(p)
        made == [WithParent(r) EXCEPT ![r] = IF IsKind(r, "none") THEN Dir(Writable) ELSE @]
    IN \/ Has(w, "link") /\ CanReplace(p) /\ Put(p, None) /\ UNCHANGED followed
       \/ /\ Has(w, "dir") /\ CanMakeDir(r)
          /\ dst' \in {WithParent(r), made} /\ UNCHANGED staged
          /\ followed' = (followed \/ r # p)

IOError(w) ==
    /\ worker[w].st # "idle"
    /\ Trouble
    /\ UNCHANGED <<dst, staged, followed>> \/ HalfMade(w)
    /\ faulty' = faulty \cup {worker[w].path}
    /\ Done(w, "failed")
    /\ UNCHANGED <<src, run, walked, queue, canceled, phase, extras, result, seen, removed>>

\* The user changes the source after the walk: edits a file, points a link
\* elsewhere, removes something, or puts something else in its place.
Changed(p) == {None} \cup {File(v) : v \in Version} \cup {Dir(m) : m \in {Writable, ReadOnly}}
              \cup {Link(t) : t \in IF p \in Top THEN (Top \ {p}) \cup {Elsewhere} ELSE {}}

ChangeSource(p) ==
    /\ phase = "transfer" /\ walked[p] # None
    /\ p \in Top \/ src[TopOf(p)].kind = "dir"
    /\ Trouble
    /\ \E e \in Changed(p) \ {src[p]} :
          src' = [q \in Path |-> IF q = p THEN e
                                 ELSE IF q \in Below(p) /\ e.kind # "dir" THEN None ELSE src[q]]
    /\ seen' = [q \in Path |-> seen[q] \cup {src'[q]}]
    /\ UNCHANGED <<dst, staged, run, walked, queue, worker, outcome, canceled, phase,
                   extras, result, faulty, removed, followed>>

Init ==
    /\ src \in SrcTrees
    /\ \E d \in DstTrees : dst = d.tree /\ staged = d.staged /\ before = d.tree
    /\ deleting \in BOOLEAN
    /\ excluded \in Excludes
    /\ walked = [p \in Path |-> None]
    /\ queue = {}
    /\ worker = [w \in Worker |-> Idle]
    /\ outcome = [p \in Path |-> "none"]
    /\ canceled = FALSE
    /\ phase = "walk" /\ files = {} /\ dirs = {} /\ result = "none"
    /\ seen = [p \in Path |-> {}]
    /\ faulty = {} /\ removed = {} /\ followed = FALSE
    /\ troubles = 0

WorkerStep(w) == Take(w) \/ MakeDir(w) \/ MakeLink(w) \/ Begin(w) \/ Install(w)

Next == \/ WalkSource \/ Gather \/ RemoveFile \/ RemoveDir \/ DeleteEnds
        \/ \E w \in Worker : WorkerStep(w) \/ IOError(w)
        \/ Cancel
        \/ \E p \in Path : ChangeSource(p)

Spec == Init /\ [][Next]_vars
-----------------------------------------------------------------------------
(* Type invariant of the state above. *)
TypeOK ==
    /\ {src, dst, before, walked} \subseteq [Path -> Entry]
    /\ staged \subseteq {p \in Top : IsKind(p, "dir")}
    /\ deleting \in BOOLEAN /\ excluded \in Excludes
    /\ queue \cup files \cup dirs \subseteq Path
    /\ worker \in [Worker -> WorkerState]
    /\ outcome \in [Path -> Outcomes]
    /\ canceled \in BOOLEAN /\ followed \in BOOLEAN
    /\ phase \in {"walk", "transfer", "delete", "done"}
    /\ result \in {"none", "nil", "error"} /\ (phase = "done" <=> result # "none")
    /\ seen \in [Path -> SUBSET Entry]
    /\ faulty \subseteq Path /\ removed \subseteq Path
    /\ troubles \in 0..MaxTroubles

(* --delete runs only on a clean job: once it removed something, every path of
   the walk has been handled, none failed or was left out because the run was
   canceled, and nothing was removed that the walk listed, that matches an
   exclude, or that holds something which does. *)
DeletesOnlyAfterCleanJob ==
    removed # {} /\ ~followed =>
        /\ deleting
        /\ \A p \in Path : walked[p] # None => outcome[p] \in {"ok", "skipped"}
        /\ \A p \in removed : /\ walked[p] = None /\ p \notin excluded
                              /\ \A q \in Below(p) : before[q] # None => q \notin excluded

(* When Run returns nil, the dest has at every path of the walk something that
   the source had there during the run, whatever order the workers took; and
   with --delete it has nothing else, but what is excluded, directories that
   are not empty for that or for a staging directory, and directories in one
   that no one may write to. *)
Mirrored == \A p \in Path : walked[p] # None => dst[p] \in seen[p]
NothingElse == \A p \in Path : Extra(p) => IsKind(p, "dir") /\ (~Empty(p) \/ ~CanChange(p))
NilMeansMirror == result = "nil" /\ ~followed => Mirrored /\ (deleting => NothingElse)

(* A path fails for a reason outside of the run: the source changed there, an
   I/O error, a dest that has something of another kind in its place or in its
   directory's, or a directory no one may write to.  In particular it never
   fails because another worker was faster or slower, with its directory say. *)
InTheWay(p) ==
    \/ before[p] # None /\ before[p].kind # walked[p].kind /\ walked[p].kind # "link"
    \/ before[TopOf(p)].kind \in {"file", "link"} /\ walked[TopOf(p)].kind = "dir"
    \/ Dir(ReadOnly) \in {before[TopOf(p)], walked[TopOf(p)]}

FailureHasCause ==
    ~followed => \A p \in Path :
        outcome[p] = "failed" => p \in faulty \/ seen[p] # {walked[p]} \/ InTheWay(p)

(* README.md:76: one-way mirror.  Of a run that returns nil: who reads at the
   dest a file of the walk that did not change at the source finds that file. *)
OneWayMirror ==
    result = "nil" => \A p \in Path :
        walked[p].kind = "file" /\ seen[p] = {walked[p]} =>
            Confine(p) # Nil /\ dst[Confine(p)] = walked[p]
=============================================================================
