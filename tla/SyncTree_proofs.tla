---------------------------- MODULE SyncTree_proofs ----------------------------
(***************************************************************************)
(* Proofs about SyncTree, for any names, trees, workers and excludes.      *)
(***************************************************************************)
EXTENDS SyncTree, TLAPS

Tree == [Path -> Entry]
Busy(w) == worker[w].st # "idle"
Handled == {"ok", "skipped"}

(* The inductive invariant. *)
Types ==
    /\ src \in Tree /\ dst \in Tree /\ before \in Tree /\ walked \in Tree
    /\ staged \subseteq {p \in Top : IsKind(p, "dir")}
    /\ deleting \in BOOLEAN /\ excluded \in Excludes
    /\ queue \subseteq Path /\ files \subseteq Path /\ dirs \subseteq Path
    /\ worker \in [Worker -> WorkerState]
    /\ outcome \in [Path -> Outcomes]
    /\ canceled \in BOOLEAN /\ followed \in BOOLEAN
    /\ phase \in {"walk", "transfer", "delete", "done"}
    /\ result \in {"none", "nil", "error"}
    /\ seen \in [Path -> SUBSET Entry]
    /\ faulty \subseteq Path /\ removed \subseteq Path
    /\ troubles \in 0..MaxTroubles

(* Which phase Run is in says what there is to do and what has been done. *)
Phases ==
    /\ phase = "done" <=> result # "none"
    /\ phase = "walk" => /\ walked = [p \in Path |-> None] /\ queue = {}
                         /\ dst = before
    /\ phase # "transfer" => queue = {} /\ \A w \in Worker : ~Busy(w)
    /\ phase # "delete" => files = {} /\ dirs = {}
    /\ removed # {} => phase \in {"delete", "done"}
    /\ phase = "delete" \/ removed # {} => deleting
    /\ phase = "delete" \/ removed # {} \/ result = "nil" =>
           \A p \in Path : walked[p] # None => outcome[p] \in Handled

(* What Walk listed, and what the history knows of the source since. *)
Listing ==
    /\ WellFormed(walked) /\ WellFormed(before) /\ WellFormed(src)
    /\ \A p \in Path : walked[p] # None => /\ p \notin excluded /\ TopOf(p) \notin excluded
                                           /\ walked[p] \in seen[p]
    /\ phase # "walk" => \A p \in Path : src[p] \in seen[p]

(* Every path of the walk is in the queue, with one worker, or has its outcome. *)
Jobs ==
    /\ \A p \in queue : walked[p] # None /\ outcome[p] = "none"
    /\ \A w \in Worker : Busy(w) => /\ worker[w].path \notin queue
                                    /\ walked[worker[w].path] # None
                                    /\ outcome[worker[w].path] = "none"
    /\ \A v, w \in Worker : Busy(v) /\ Busy(w) /\ worker[v].path = worker[w].path => v = w
    /\ \A p \in Path : /\ walked[p] # None /\ outcome[p] = "none" =>
                             p \in queue \/ \E w \in Worker : Busy(w) /\ worker[w].path = p
                       /\ outcome[p] # "none" => walked[p] # None
                       /\ outcome[p] = "cut" => canceled

(* What a worker takes the source to be, it was; only a file is looked at again. *)
Fits(p, m) ==
    /\ m \in Entry /\ m # None
    /\ m # walked[p] => walked[p].kind = "file" /\ m.kind \in {"file", "dir"}
    /\ followed \/ m \in seen[p]
Metas == \A w \in Worker : Busy(w) => Fits(worker[w].path, worker[w].meta)
WillFit(p, m) ==
    /\ m \in Entry /\ m # None
    /\ m # walked'[p] => walked'[p].kind = "file" /\ m.kind \in {"file", "dir"}
    /\ followed' \/ m \in seen'[p]

(* A worker writes to the path itself, whose directory is there. *)
Writes ==
    \A w \in Worker : worker[w].st = "writing" =>
        followed \/ /\ worker[w].at = worker[w].path
                    /\ worker[w].path \notin Top => IsKind(TopOf(worker[w].path), "dir")

(* A path that was handled has what it should; one that no worker has finished
   is as it was before the run, but that its directory may have been made. *)
Mirror(p) == outcome[p] \in Handled => dst[p] \in seen[p] /\ dst[p] # None
Untouched(p) == walked[p] # None /\ outcome[p] = "none" =>
    \/ dst[p] = before[p]
    \/ before[p] = None /\ p \in Top /\ walked[p].kind = "dir" /\ dst[p] = Dir(Writable)
Lockedness(p) == p \in Top /\ dst[p] = Dir(ReadOnly) /\ walked[p].kind # "file" =>
                     Dir(ReadOnly) \in {before[p], walked[p]}
Protected(p) == p \in excluded /\ before[p] # None => dst[p] = before[p] \/ walked[TopOf(p)].kind = "link"
Unlisted(p) == p \in Top /\ walked[p] = None => dst[p] \in {before[p], None}
Placed == ~followed => \A p \in Path : /\ Mirror(p) /\ Untouched(p) /\ Lockedness(p)
                                       /\ Protected(p) /\ Unlisted(p)

(* What --delete may remove, what it has removed, and what it left for good. *)
LeftBehind(p) == /\ files = {} /\ IsKind(p, "dir") /\ (~Empty(p) \/ ~CanChange(p))
                 /\ dirs \cap Below(p) = {}
Deletes ==
    /\ \A p \in files \cup dirs : walked[p] = None /\ p \notin excluded
    /\ files \cap dirs = {}
    /\ ~followed =>
         /\ (\A p \in dirs : IsKind(p, "dir")) /\ (\A p \in files : ~IsKind(p, "dir"))
         /\ \A p \in removed : /\ walked[p] = None /\ p \notin excluded
                               /\ \A q \in Below(p) : before[q] # None => q \notin excluded
         /\ phase = "delete" => \A p \in Path : Extra(p) => p \in files \cup dirs \/ LeftBehind(p)
         /\ result = "nil" /\ deleting => NothingElse

IInv == Types /\ Phases /\ Listing /\ Jobs /\ Metas /\ Writes /\ Placed /\ Deletes /\ FailureHasCause
-----------------------------------------------------------------------------
(* Paths have one or two names. *)
LEMMA PathFacts ==
  /\ Top \subseteq Path
  /\ \A p \in Path : /\ TopOf(p) \in Top
                     /\ p \in Top => TopOf(p) = p /\ Len(p) = 1
                     /\ p \notin Top => TopOf(p) # p /\ Len(p) = 2
<1>1. ASSUME NEW p \in Path
      PROVE  /\ TopOf(p) \in Top
             /\ p \in Top => TopOf(p) = p /\ Len(p) = 1
             /\ p \notin Top => TopOf(p) # p /\ Len(p) = 2
  <2>1. CASE p \in Top
    <3>1. PICK n \in Name : p = <<n>>  BY <2>1 DEF Top
    <3>2. p[1] = n /\ Len(p) = 1  BY <3>1
    <3> QED  BY <2>1, <3>1, <3>2 DEF TopOf
  <2>2. CASE p \notin Top
    <3>1. PICK n \in Name, m \in SubName : p = <<n, m>>  BY <1>1, <2>2 DEF Path
    <3>2. p[1] = n /\ Len(p) = 2  BY <3>1
    <3>3. TopOf(p) = <<n>>  BY <3>2 DEF TopOf
    <3>4. TopOf(p) \in Top  BY <3>3 DEF Top
    <3> QED  BY <2>2, <3>2, <3>4
  <2> QED  BY <2>1, <2>2
<1> QED  BY <1>1 DEF Path

LEMMA BelowFacts ==
  \A p \in Path : \A q : q \in Below(p) <=> q \in Path \ Top /\ TopOf(q) = p
<1> SUFFICES ASSUME NEW p \in Path, NEW q
             PROVE  q \in Below(p) <=> q \in Path \ Top /\ TopOf(q) = p
  OBVIOUS
<1>1. ASSUME q \in Below(p)  PROVE q \in Path \ Top /\ TopOf(q) = p
  <2>1. q \in Path /\ Len(q) > Len(p) /\ TopOf(q) = p  BY <1>1 DEF Below
  <2>2. q \notin Top
    <3>1. SUFFICES ASSUME q \in Top PROVE FALSE  OBVIOUS
    <3>2. TopOf(q) = q  BY <2>1, <3>1, PathFacts
    <3>3. p = q  BY <2>1, <3>2
    <3>4. Len(p) = 1 /\ Len(q) = 1  BY <2>1, <3>1, <3>3, PathFacts
    <3> QED  BY <2>1, <3>4
  <2> QED  BY <2>1, <2>2
<1>2. ASSUME q \in Path \ Top, TopOf(q) = p  PROVE q \in Below(p)
  <2>1. p \in Top /\ Len(q) = 2  BY <1>2, PathFacts
  <2>2. Len(p) = 1  BY <2>1, PathFacts
  <2> QED  BY <1>2, <2>1, <2>2 DEF Below
<1> QED  BY <1>1, <1>2

(* An entry is told by its kind. *)
LEMMA EntryFacts ==
  /\ None \in Entry /\ Dir(Writable) \in Entry /\ \A v \in Version : File(v) \in Entry
  /\ None.kind = "none" /\ (\A v : File(v).kind = "file") /\ (\A m : Dir(m).kind = "dir")
  /\ Dir(Writable) # Dir(ReadOnly)
  /\ \A e \in Entry : /\ e.kind = "none" <=> e = None
                      /\ e.kind = "file" => e = File(e.val) /\ e.val \in Version
                      /\ e.kind = "dir" => e = Dir(Writable) \/ e = Dir(ReadOnly)
<1>1. None \in Entry /\ Dir(Writable) \in Entry /\ \A v \in Version : File(v) \in Entry
  BY DEF Entry
<1>2. None.kind = "none" /\ (\A v : File(v).kind = "file") /\ (\A m : Dir(m).kind = "dir")
  BY DEF None, File, Dir
<1>3. Dir(Writable) # Dir(ReadOnly)
  <2>1. Dir(Writable).val = Writable /\ Dir(ReadOnly).val = ReadOnly  BY DEF Dir
  <2> QED  BY <2>1, ValueAssumption
<1>4. ASSUME NEW e \in Entry
      PROVE  /\ e.kind = "none" <=> e = None
             /\ e.kind = "file" => e = File(e.val) /\ e.val \in Version
             /\ e.kind = "dir" => e = Dir(Writable) \/ e = Dir(ReadOnly)
  BY DEF Entry, None, File, Dir, Link
<1> QED  BY <1>1, <1>2, <1>3, <1>4

LEMMA WorkerFacts ==
  /\ Idle \in WorkerState /\ Idle.st = "idle"
  /\ \A p \in Path : \A e \in Entry :
       /\ Taken(p, e) \in WorkerState /\ Taken(p, e).st = "taken"
       /\ Taken(p, e).path = p /\ Taken(p, e).meta = e
  /\ \A s \in WorkerState : /\ s.st \in {"idle", "taken", "writing"}
                            /\ s.st = "idle" => s = Idle
                            /\ s.st # "idle" => s.path \in Path /\ s.meta \in Entry
                            /\ s.st = "writing" => s.at \in Path /\ s.meta.kind = "file"
<1>1. Idle \in WorkerState /\ Idle.st = "idle"  BY DEF Idle, WorkerState
<1>2. ASSUME NEW p \in Path, NEW e \in Entry
      PROVE  /\ Taken(p, e) \in WorkerState /\ Taken(p, e).st = "taken"
             /\ Taken(p, e).path = p /\ Taken(p, e).meta = e
  <2>1. Taken(p, e) = [st |-> "taken", path |-> p, at |-> Nil, meta |-> e]  BY DEF Taken
  <2>2. Taken(p, e) \in [st : {"taken"}, path : Path, at : {Nil}, meta : Entry]  BY <2>1
  <2>3. Taken(p, e).st = "taken" /\ Taken(p, e).path = p /\ Taken(p, e).meta = e  BY <2>1
  <2> QED  BY <2>2, <2>3 DEF WorkerState
<1>3. ASSUME NEW s \in WorkerState
      PROVE  /\ s.st \in {"idle", "taken", "writing"}
             /\ s.st = "idle" => s = Idle
             /\ s.st # "idle" => s.path \in Path /\ s.meta \in Entry
             /\ s.st = "writing" => s.at \in Path /\ s.meta.kind = "file"
  <2> DEFINE Files == {File(v) : v \in Version}
  <2>1. Files \subseteq Entry /\ \A e \in Files : e.kind = "file"  BY EntryFacts
  <2>2. CASE s = Idle  BY <2>2 DEF Idle
  <2>3. CASE s \in [st : {"taken"}, path : Path, at : {Nil}, meta : Entry]  BY <2>3
  <2>4. CASE s \in [st : {"writing"}, path : Path, at : Path, meta : Files]
    <3> HIDE DEF Files
    <3> QED  BY <2>1, <2>4
  <2> QED  BY <2>2, <2>3, <2>4 DEF WorkerState
<1> QED  BY <1>1, <1>2, <1>3

(* Confine gives a path; where that is the path asked for, no link led there
   and its directory is not a file. *)
LEMMA ConfineInFacts ==
  ASSUME NEW t, NEW p \in Path
  PROVE  /\ ConfineIn(t, p) \in Path \cup {Nil}
         /\ ConfineIn(t, p) = p => /\ t[TopOf(p)].kind # "link"
                                   /\ p \notin Top => t[TopOf(p)].kind # "file"
         /\ ConfineIn(t, p) # p => \/ t[TopOf(p)].kind = "link"
                                   \/ p \notin Top /\ t[TopOf(p)].kind = "file"
         /\ ConfineIn(t, p) # Nil => \/ ConfineIn(t, p) \in Path \ Top
                                     \/ t[ConfineIn(t, p)].kind # "link"
<1> DEFINE base == IF t[TopOf(p)].kind = "link" THEN Follow(t, TopOf(p)) ELSE TopOf(p)
<1>1. Nil \notin Path  BY ValueAssumption
<1>2. Follow(t, TopOf(p)) \in Top \cup {Nil}
      /\ (Follow(t, TopOf(p)) # Nil => t[Follow(t, TopOf(p))].kind # "link")
  BY DEF Follow
<1>3. base \in Top \cup {Nil} /\ (base # Nil => t[base].kind # "link")
  BY <1>2, PathFacts
<1>4. ConfineIn(t, p) = IF base = Nil \/ Len(p) = 1 THEN base
                        ELSE IF t[base].kind = "file" THEN Nil ELSE <<base[1], p[2]>>
  BY DEF ConfineIn
<1>5. CASE p \in Top
  <2>1. Len(p) = 1 /\ TopOf(p) = p  BY <1>5, PathFacts
  <2>2. ConfineIn(t, p) = base  BY <1>4, <2>1
  <2>3. ConfineIn(t, p) = p => t[p].kind # "link"  BY <1>1, <1>3, <2>2
  <2>4. ConfineIn(t, p) # p => t[p].kind = "link"  BY <2>1, <2>2
  <2> QED  BY <1>3, <1>5, <2>1, <2>2, <2>3, <2>4, PathFacts
<1>6. CASE p \notin Top
  <2>1. Len(p) # 1  BY <1>6, PathFacts
  <2>2. PICK n \in Name, m \in SubName : p = <<n, m>>  BY <1>6 DEF Path
  <2>3. p[1] = n /\ p[2] = m /\ TopOf(p) = <<n>>  BY <2>2 DEF TopOf
  <2>4. CASE base = Nil
    <3>1. TopOf(p) # Nil  BY <1>1, PathFacts
    <3> QED  BY <1>1, <1>4, <2>4, <3>1
  <2>5. CASE base # Nil
    <3>1. PICK k \in Name : base = <<k>>  BY <1>3, <2>5 DEF Top
    <3>2. base[1] = k  BY <3>1
    <3>3. ConfineIn(t, p) = IF t[base].kind = "file" THEN Nil ELSE <<k, m>>
      BY <1>4, <2>1, <2>3, <2>5, <3>2
    <3>4. <<k, m>> \in Path \ Top
      <4>1. Len(<<k, m>>) = 2  OBVIOUS
      <4> QED  BY <4>1, PathFacts DEF Path
    <3>5. ASSUME ConfineIn(t, p) = p  PROVE base = TopOf(p) /\ t[base].kind # "file"
      <4>1. t[base].kind # "file" /\ <<k, m>> = <<n, m>>  BY <1>1, <2>2, <3>3, <3>5
      <4>2. <<k, m>>[1] = k /\ <<n, m>>[1] = n  OBVIOUS
      <4>3. k = n  BY <4>1, <4>2
      <4> QED  BY <2>3, <3>1, <4>1, <4>3
    <3>6. ConfineIn(t, p) \in (Path \ Top) \cup {Nil}  BY <3>3, <3>4
    <3>7. ASSUME ConfineIn(t, p) # p, t[TopOf(p)].kind # "link"  PROVE t[TopOf(p)].kind = "file"
      <4>1. base = TopOf(p)  BY <3>7
      <4>2. <<k>> = <<n>>  BY <2>3, <3>1, <4>1
      <4>3. <<k>>[1] = k /\ <<n>>[1] = n  OBVIOUS
      <4>4. k = n  BY <4>2, <4>3
      <4>5. ConfineIn(t, p) = IF t[base].kind = "file" THEN Nil ELSE p
        BY <2>2, <3>3, <4>4
      <4> QED  BY <3>7, <4>1, <4>5
    <3> HIDE DEF base
    <3> QED  BY <1>3, <1>6, <2>5, <3>5, <3>6, <3>7
  <2> QED  BY <2>4, <2>5
<1> QED  BY <1>5, <1>6

LEMMA ConfineFacts ==
  ASSUME NEW p \in Path
  PROVE  /\ Confine(p) \in Path \cup {Nil}
         /\ Confine(p) = p => /\ ~IsKind(TopOf(p), "link")
                              /\ p \notin Top => ~IsKind(TopOf(p), "file")
  BY ConfineInFacts DEF Confine, IsKind

(* What is read at a path of the source. *)
LEMMA SourceFacts ==
  ASSUME src \in Tree, WellFormed(src), NEW p \in Path
  PROVE  /\ SourceAt(p) \in Entry /\ SourceAt(p).kind # "link"
         /\ ConfineIn(src, p) = p => SourceAt(p) = src[p]
         /\ ConfineIn(src, p) # p => src[p].kind # "file"
<1>1. PICK c : c = ConfineIn(src, p)  OBVIOUS
<1>2. SourceAt(p) = IF c = Nil THEN None ELSE src[c]  BY <1>1 DEF SourceAt
<1>3. c \in Path \cup {Nil} /\ (c # Nil => c \in Path \ Top \/ src[c].kind # "link")
  BY <1>1, ConfineInFacts
<1>4. \A q \in Path \ Top : src[q].kind # "link"
  BY DEF WellFormed
<1>5. SourceAt(p) \in Entry /\ SourceAt(p).kind # "link"
  BY <1>2, <1>3, <1>4, EntryFacts DEF Tree
<1>6. c = p => SourceAt(p) = src[p]  BY <1>2, ValueAssumption
<1>7. ASSUME c # p  PROVE src[p].kind # "file"
  <2>1. src[TopOf(p)].kind = "link" \/ (p \notin Top /\ src[TopOf(p)].kind = "file")
    BY <1>1, <1>7, ConfineInFacts
  <2>2. CASE p \in Top  BY <2>1, <2>2, PathFacts
  <2>3. CASE p \notin Top
    <3>1. src[p] = None  BY <2>1, <2>3 DEF WellFormed
    <3> QED  BY <3>1, EntryFacts
  <2> QED  BY <2>2, <2>3
<1> QED  BY <1>1, <1>5, <1>6, <1>7
-----------------------------------------------------------------------------
(* Types. *)
LEMMA ParentTyped ==
  ASSUME Types, NEW r \in Path
  PROVE  /\ WithParent(r) \in Tree
         /\ \A q \in Path : WithParent(r)[q] = IF q = TopOf(r) /\ dst[q] = None
                                               THEN Dir(Writable) ELSE dst[q]
<1>1. TopOf(r) \in Path /\ dst \in [Path -> Entry]  BY PathFacts DEF Types, Tree
<1>2. IsKind(TopOf(r), "none") <=> dst[TopOf(r)] = None  BY <1>1, EntryFacts DEF IsKind
<1>3. Dir(Writable) \in Entry  BY EntryFacts
<1> QED  BY <1>1, <1>2, <1>3 DEF WithParent, Tree

LEMMA PutTyped ==
  ASSUME Types, NEW p \in Path, NEW e \in Entry, Put(p, e)
  PROVE  /\ dst' \in Tree
         /\ staged' \subseteq {q \in Top : IsKind(q, "dir")}'
         /\ dst'[p] = e /\ \A q \in Path \ {p} : q \notin Below(p) => dst'[q] = dst[q]
<1>1. dst' = [q \in Path |-> IF q = p THEN e ELSE IF q \in Below(p) THEN None ELSE dst[q]]
      /\ staged' = staged \ {p}
  BY DEF Put
<1>2. dst' \in Tree  BY <1>1, EntryFacts DEF Types, Tree
<1>3. dst'[p] = e /\ \A q \in Path \ {p} : q \notin Below(p) => dst'[q] = dst[q]  BY <1>1
<1>4. ASSUME NEW q \in staged'  PROVE q \in Top /\ dst'[q].kind = "dir"
  <2>1. q \in staged /\ q # p  BY <1>1, <1>4
  <2>2. q \in Top /\ dst[q].kind = "dir"  BY <2>1 DEF Types, IsKind
  <2>3. q \in Path /\ q \notin Below(p)  BY <2>2, PathFacts, BelowFacts
  <2> QED  BY <1>3, <2>1, <2>2, <2>3
<1> QED  BY <1>2, <1>3, <1>4 DEF IsKind

(* What a worker has before it. *)
LEMMA BusyFacts ==
  ASSUME Types, NEW w \in Worker, Busy(w)
  PROVE  /\ worker[w] \in WorkerState /\ worker[w].path \in Path /\ worker[w].meta \in Entry
         /\ worker[w].st = "writing" => worker[w].at \in Path /\ worker[w].meta.kind = "file"
  BY WorkerFacts DEF Types, Busy

LEMMA DoneTyped ==
  ASSUME Types, NEW w \in Worker, Busy(w), NEW o \in Outcomes, Done(w, o)
  PROVE  worker' \in [Worker -> WorkerState] /\ outcome' \in [Path -> Outcomes]
<1>1. worker' \in [Worker -> WorkerState]  BY WorkerFacts DEF Types, Done
<1>2. outcome' \in [Path -> Outcomes]  BY BusyFacts DEF Types, Done
<1> QED  BY <1>1, <1>2

(* Where a worker looks at the source again. *)
LEMMA LookTyped ==
  ASSUME Types, WellFormed(src), NEW w \in Worker, Busy(w), LookAgain(w),
         NEW p, p = worker[w].path
  PROVE  /\ worker' \in [Worker -> WorkerState] /\ outcome' \in [Path -> Outcomes]
         /\ \E e \in Entry : /\ worker' = [worker EXCEPT ![w] = Taken(p, e)]
                             /\ e = IF SourceAt(p) = None THEN worker[w].meta ELSE SourceAt(p)
<1>1. p \in Path /\ worker[w].meta \in Entry  BY BusyFacts
<1>2. SourceAt(p) \in Entry  BY <1>1, SourceFacts DEF Types
<1>3. PICK e : e = IF SourceAt(p) = None THEN worker[w].meta ELSE SourceAt(p)  OBVIOUS
<1>4. e \in Entry  BY <1>1, <1>2, <1>3
<1>5. worker' = [worker EXCEPT ![w] = Taken(p, e)] /\ outcome' = outcome
  BY <1>3 DEF LookAgain
<1>6. worker' \in [Worker -> WorkerState]  BY <1>1, <1>4, <1>5, WorkerFacts DEF Types
<1> QED  BY <1>3, <1>4, <1>5, <1>6 DEF Types

LEMMA TakeTyped == ASSUME Types, NEW w \in Worker, Take(w)  PROVE Types'
<1>1. PICK p \in First(queue) :
        /\ queue' = queue \ {p}
        /\ \/ outcome' = [outcome EXCEPT ![p] = "cut"] /\ worker' = worker
           \/ worker' = [worker EXCEPT ![w] = Taken(p, walked[p])] /\ outcome' = outcome
  BY DEF Take
<1>2. p \in Path /\ walked[p] \in Entry  BY <1>1 DEF First, Types, Tree
<1>3. worker' \in [Worker -> WorkerState]  BY <1>1, <1>2, WorkerFacts DEF Types
<1>4. outcome' \in [Path -> Outcomes]  BY <1>1, <1>2 DEF Types, Outcomes
<1>5. queue' \subseteq Path  BY <1>1 DEF Types
<1> QED  BY <1>3, <1>4, <1>5 DEF Types, Take, tree, run, extras, IsKind

LEMMA MakeDirTyped == ASSUME Types, NEW w \in Worker, MakeDir(w)  PROVE Types'
<1> DEFINE p == worker[w].path
           r == Confine(p)
<1>1. Busy(w) /\ worker[w].meta.kind = "dir"  BY DEF MakeDir, Has, Busy
<1>2. p \in Path /\ worker[w].meta \in Entry  BY <1>1, BusyFacts
<1>3. worker' \in [Worker -> WorkerState] /\ outcome' \in [Path -> Outcomes]
  <2>1. Done(w, "ok") \/ Done(w, "failed")  BY DEF MakeDir
  <2> QED  BY <1>1, <2>1, DoneTyped DEF Outcomes
<1>4. followed' \in BOOLEAN  BY DEF MakeDir, Types
<1>5. dst' \in Tree /\ staged \subseteq {q \in Top : IsKind(q, "dir")}'
  <2>1. CASE dst' = dst  BY <2>1 DEF Types, IsKind
  <2>2. CASE CanMakeDir(r) /\ dst' = [WithParent(r) EXCEPT ![r] = worker[w].meta]
    <3>1. r \in Path  BY <1>2, <2>2, ConfineFacts DEF CanMakeDir
    <3>2. worker[w].meta \in Entry  BY <1>2
    <3>3. WithParent(r) \in [Path -> Entry]  BY <3>1, ParentTyped DEF Tree
    <3>4. dst' \in Tree  BY <2>2, <3>1, <3>2, <3>3 DEF Tree
    <3>5. ASSUME NEW q \in staged  PROVE q \in Top /\ dst'[q].kind = "dir"
      <4>1. q \in Top /\ dst[q].kind = "dir"  BY DEF Types, IsKind
      <4>2. q \in Path /\ dst[q] # None  BY <4>1, PathFacts, EntryFacts
      <4>3. WithParent(r)[q] = dst[q]  BY <3>1, <4>2, ParentTyped
      <4>4. dst'[q] = IF q = r THEN worker[w].meta ELSE WithParent(r)[q]
        BY <2>2, <3>1, <3>3, <4>2
      <4> QED  BY <1>1, <4>1, <4>3, <4>4
    <3> QED  BY <3>4, <3>5 DEF IsKind
  <2> QED  BY <2>1, <2>2 DEF MakeDir
<1> QED  BY <1>3, <1>4, <1>5 DEF Types, MakeDir, run, extras

LEMMA MakeLinkTyped == ASSUME Types, NEW w \in Worker, MakeLink(w)  PROVE Types'
<1> DEFINE p == worker[w].path
<1>1. Busy(w)  BY DEF MakeLink, Has, Busy
<1>2. p \in Path /\ src[p] \in Entry  BY <1>1, BusyFacts DEF Types, Tree
<1>3. worker' \in [Worker -> WorkerState] /\ outcome' \in [Path -> Outcomes]
  <2>1. Done(w, "ok") \/ Done(w, "failed")  BY DEF MakeLink
  <2> QED  BY <1>1, <2>1, DoneTyped DEF Outcomes
<1>4. dst' \in Tree /\ staged' \subseteq {q \in Top : IsKind(q, "dir")}'
  <2>1. CASE dst' = dst /\ staged' = staged  BY <2>1 DEF Types, IsKind
  <2>2. CASE Put(p, src[p])  BY <1>2, <2>2, PutTyped
  <2> QED  BY <2>1, <2>2 DEF MakeLink
<1> QED  BY <1>3, <1>4 DEF Types, MakeLink, run, extras

LEMMA BeginTyped == ASSUME Types, WellFormed(src), NEW w \in Worker, Begin(w)  PROVE Types'
<1> DEFINE p == worker[w].path
           r == Confine(p)
           m == worker[w].meta
<1>1. Busy(w)  BY DEF Begin, Has, Busy
<1>2. p \in Path /\ m \in Entry /\ m.kind = "file"  BY <1>1, BusyFacts DEF Begin, Has
<1>3. followed' \in BOOLEAN  BY DEF Begin, Types
<1>4. CASE UNCHANGED <<dst, staged>> /\ (Done(w, "skipped") \/ Done(w, "failed"))
  <2>1. worker' \in [Worker -> WorkerState] /\ outcome' \in [Path -> Outcomes]
    BY <1>1, <1>4, DoneTyped DEF Outcomes
  <2>2. dst' \in Tree /\ staged' \subseteq {q \in Top : IsKind(q, "dir")}'
    BY <1>4 DEF Types, IsKind
  <2> QED  BY <1>3, <2>1, <2>2 DEF Types, Begin, run, extras
<1>5. CASE /\ CanBegin(p, r, m)
           /\ worker' = [worker EXCEPT ![w] = Writing(p, r, m)]
           /\ IF Len(r) = 1 THEN UNCHANGED <<dst, staged>>
              ELSE /\ dst' = WithParent(r)
                   /\ staged' = IF dst'[TopOf(r)] = Dir(Writable)
                                THEN staged \cup {TopOf(r)} ELSE staged
           /\ UNCHANGED outcome
  <2>1. r \in Path  BY <1>2, <1>5, ConfineFacts DEF CanBegin
  <2>2. Writing(p, r, m) \in WorkerState
    <3> DEFINE Files == {File(v) : v \in Version}
    <3>1. m \in Files  BY <1>2, EntryFacts
    <3>2. Writing(p, r, m) = [st |-> "writing", path |-> p, at |-> r, meta |-> m]  BY DEF Writing
    <3> HIDE DEF m, Files
    <3>3. Writing(p, r, m) \in [st : {"writing"}, path : Path, at : Path, meta : Files]
      BY <1>2, <2>1, <3>1, <3>2
    <3> QED  BY <3>3 DEF WorkerState, Files
  <2>3. worker' \in [Worker -> WorkerState]  BY <1>5, <2>2 DEF Types
  <2>4. dst' \in Tree /\ staged' \subseteq {q \in Top : IsKind(q, "dir")}'
    <3>1. CASE UNCHANGED <<dst, staged>>  BY <3>1 DEF Types, IsKind
    <3>2. CASE /\ dst' = WithParent(r)
               /\ staged' = IF dst'[TopOf(r)] = Dir(Writable)
                            THEN staged \cup {TopOf(r)} ELSE staged
      <4>1. dst' \in Tree  BY <2>1, <3>2, ParentTyped
      <4>2. ASSUME NEW q \in staged'  PROVE q \in Top /\ dst'[q].kind = "dir"
        <5>1. CASE q \in staged
          <6>1. q \in Top /\ dst[q].kind = "dir"  BY <5>1 DEF Types, IsKind
          <6>2. q \in Path /\ dst[q] # None  BY <6>1, PathFacts, EntryFacts
          <6>3. dst'[q] = dst[q]  BY <2>1, <3>2, <6>2, ParentTyped
          <6> QED  BY <6>1, <6>3
        <5>2. CASE q \notin staged
          <6>1. q = TopOf(r) /\ dst'[q] = Dir(Writable)  BY <3>2, <4>2, <5>2
          <6> QED  BY <2>1, <6>1, PathFacts, EntryFacts
        <5> QED  BY <5>1, <5>2
      <4> QED  BY <4>1, <4>2 DEF IsKind
    <3> QED  BY <1>5, <3>1, <3>2
  <2>5. outcome' \in [Path -> Outcomes]  BY <1>5 DEF Types
  <2> QED  BY <1>3, <2>3, <2>4, <2>5 DEF Types, Begin, run, extras
<1>6. CASE LookAgain(w) /\ UNCHANGED <<dst, staged>>
  <2>1. worker' \in [Worker -> WorkerState] /\ outcome' \in [Path -> Outcomes]
    BY <1>1, <1>6, LookTyped
  <2>2. dst' \in Tree /\ staged' \subseteq {q \in Top : IsKind(q, "dir")}'
    BY <1>6 DEF Types, IsKind
  <2> QED  BY <1>3, <2>1, <2>2 DEF Types, Begin, run, extras
<1> QED  BY <1>4, <1>5, <1>6 DEF Begin

LEMMA InstallTyped == ASSUME Types, WellFormed(src), NEW w \in Worker, Install(w)  PROVE Types'
<1> DEFINE p == worker[w].path
           r == worker[w].at
<1>1. Busy(w) /\ worker[w].st = "writing"  BY DEF Install, Busy
<1>2. p \in Path /\ r \in Path /\ worker[w].meta \in Entry  BY <1>1, BusyFacts
<1>3. worker' \in [Worker -> WorkerState] /\ outcome' \in [Path -> Outcomes]
  <2>1. CASE Done(w, "ok") \/ Done(w, "failed")
    BY <1>1, <2>1, DoneTyped DEF Outcomes
  <2>2. CASE LookAgain(w)  BY <1>1, <2>2, LookTyped
  <2> QED  BY <2>1, <2>2 DEF Install
<1>4. faulty' \subseteq Path  BY <1>2 DEF Install, Types
<1>5. dst' \in Tree /\ staged \subseteq {q \in Top : IsKind(q, "dir")}'
  <2>1. CASE dst' = dst  BY <2>1 DEF Types, IsKind
  <2>2. CASE CanInstall(r) /\ dst' = [dst EXCEPT ![r] = worker[w].meta]
    <3>1. worker[w].meta \in Entry  BY <1>2
    <3>2. dst' \in Tree  BY <2>2, <1>2, <3>1 DEF Types, Tree
    <3>3. ASSUME NEW q \in staged  PROVE q \in Top /\ dst'[q].kind = "dir"
      <4>1. q \in Top /\ dst[q].kind = "dir"  BY DEF Types, IsKind
      <4>2. q \in Path /\ q # r  BY <2>2, <4>1, PathFacts DEF CanInstall, IsKind
      <4>3. dst'[q] = dst[q]  BY <2>2, <4>2 DEF Types, Tree
      <4> QED  BY <4>1, <4>3
    <3> QED  BY <3>2, <3>3 DEF IsKind
  <2> QED  BY <2>1, <2>2 DEF Install
<1>6. followed' \in BOOLEAN  BY DEF Install, Types
<1> QED  BY <1>3, <1>4, <1>5, <1>6 DEF Types, Install, run, extras

(* What MkdirAll leaves where it, or the Chmod after it, fails. *)
LEMMA HalfTyped ==
  ASSUME Types, NEW r \in Path, NEW made,
         made = [WithParent(r) EXCEPT ![r] = IF IsKind(r, "none") THEN Dir(Writable) ELSE @]
  PROVE  /\ made \in Tree /\ WithParent(r) \in Tree
         /\ \A q \in Path : /\ made[q] # dst[q] => dst[q] = None /\ made[q] = Dir(Writable)
                                                  /\ q \in {r, TopOf(r)}
                            /\ WithParent(r)[q] # dst[q] =>
                                  /\ dst[q] = None /\ WithParent(r)[q] = Dir(Writable)
                                  /\ q = TopOf(r)
<1>1. WithParent(r) \in Tree
      /\ \A q \in Path : WithParent(r)[q] = IF q = TopOf(r) /\ dst[q] = None
                                            THEN Dir(Writable) ELSE dst[q]
  BY ParentTyped
<1>2. made = [WithParent(r) EXCEPT ![r] = IF IsKind(r, "none") THEN Dir(Writable)
                                          ELSE WithParent(r)[r]]
  BY <1>1
<1>3. IsKind(r, "none") => dst[r] = None  BY EntryFacts DEF IsKind, Types, Tree
<1>4. made \in Tree  BY <1>1, <1>2, EntryFacts DEF Tree
<1>5. ASSUME NEW q \in Path, made[q] # dst[q]
      PROVE dst[q] = None /\ made[q] = Dir(Writable) /\ q \in {r, TopOf(r)}
  <2>1. CASE q = r
    <3>1. made[r] = IF IsKind(r, "none") THEN Dir(Writable) ELSE WithParent(r)[r]
      BY <1>1, <1>2 DEF Tree
    <3> QED  BY <1>1, <1>3, <1>5, <2>1, <3>1
  <2>2. CASE q # r
    <3>1. made[q] = WithParent(r)[q]  BY <1>1, <1>2, <2>2 DEF Tree
    <3> QED  BY <1>1, <1>5, <3>1
  <2> QED  BY <2>1, <2>2
<1> QED  BY <1>1, <1>4, <1>5

LEMMA HalfMadeFacts ==
  ASSUME Types, NEW w \in Worker, Busy(w), HalfMade(w), NEW p, p = worker[w].path
  PROVE  \/ Has(w, "link") /\ Put(p, None) /\ followed' = followed
         \/ /\ Has(w, "dir") /\ dst' \in Tree /\ staged' = staged
            /\ followed' = (followed \/ Confine(p) # p) /\ Confine(p) \in Path
            /\ \A q \in Path : dst'[q] # dst[q] => /\ dst[q] = None /\ dst'[q] = Dir(Writable)
                                                   /\ q \in {Confine(p), TopOf(Confine(p))}
<1>1. CASE Has(w, "link") /\ Put(p, None) /\ followed' = followed  BY <1>1
<1>2. PICK r : r = Confine(p)  OBVIOUS
<1>3. PICK made : made = [WithParent(r) EXCEPT ![r] = IF IsKind(r, "none") THEN Dir(Writable)
                                                      ELSE @]
  OBVIOUS
<1>4. CASE /\ Has(w, "dir") /\ CanMakeDir(r) /\ dst' \in {WithParent(r), made}
           /\ staged' = staged /\ followed' = (followed \/ r # p)
  <2>1. p \in Path  BY BusyFacts
  <2>2. r \in Path  BY <1>2, <1>4, <2>1, ConfineFacts DEF CanMakeDir
  <2> QED  BY <1>2, <1>3, <1>4, <2>2, HalfTyped
<1> QED  BY <1>1, <1>2, <1>3, <1>4 DEF HalfMade

LEMMA IOErrorTyped == ASSUME Types, NEW w \in Worker, IOError(w)  PROVE Types'
<1> DEFINE p == worker[w].path
<1>1. Busy(w)  BY DEF IOError, Busy
<1>2. p \in Path  BY <1>1, BusyFacts
<1>3. worker' \in [Worker -> WorkerState] /\ outcome' \in [Path -> Outcomes]
  BY <1>1, DoneTyped DEF Outcomes, IOError
<1>4. faulty' \subseteq Path  BY <1>2 DEF IOError, Types
<1>5. /\ dst' \in Tree /\ staged' \subseteq {q \in Top : IsKind(q, "dir")}'
      /\ followed' \in BOOLEAN
  <2>1. CASE UNCHANGED <<dst, staged, followed>>  BY <2>1 DEF Types, IsKind
  <2>2. CASE Put(p, None) /\ followed' = followed
    BY <1>2, <2>2, PutTyped, EntryFacts DEF Types
  <2>3. CASE /\ dst' \in Tree /\ staged' = staged /\ followed' = (followed \/ Confine(p) # p)
             /\ \A q \in Path : dst'[q] # dst[q] => dst[q] = None
    <3>1. ASSUME NEW q \in staged  PROVE q \in Top /\ dst'[q].kind = "dir"
      <4>1. q \in Top /\ dst[q].kind = "dir"  BY DEF Types, IsKind
      <4>2. q \in Path /\ dst[q] # None  BY <4>1, PathFacts, EntryFacts
      <4> QED  BY <2>3, <4>1, <4>2
    <3> QED  BY <2>3, <3>1 DEF Types, IsKind
  <2> QED  BY <1>1, <2>1, <2>2, <2>3, HalfMadeFacts DEF IOError
<1>6. troubles' \in 0..MaxTroubles  BY ValueAssumption DEF IOError, Trouble, Types
<1> QED  BY <1>3, <1>4, <1>5, <1>6 DEF Types, IOError, run, extras
-----------------------------------------------------------------------------
(* The steps of Run itself, and of others. *)
LEMMA RemovesTyped ==
  ASSUME Types, NEW r, r \in Path \cup {Nil}, CanRemove(r), RemovePath(r)
  PROVE  /\ dst' \in Tree /\ staged \subseteq {q \in Top : IsKind(q, "dir")}'
         /\ removed' \subseteq Path /\ r \in Path
         /\ dst'[r] = None /\ \A q \in Path \ {r} : dst'[q] = dst[q]
<1>1. r \in Path  BY DEF CanRemove
<1>2. dst' = [dst EXCEPT ![r] = None] /\ removed' = removed \cup {r}  BY DEF RemovePath
<1>3. dst' \in Tree  BY <1>2, EntryFacts DEF Types, Tree
<1>4. dst'[r] = None /\ \A q \in Path \ {r} : dst'[q] = dst[q]  BY <1>1, <1>2 DEF Types, Tree
<1>5. r \notin staged  BY DEF CanRemove, Empty, Types
<1>6. ASSUME NEW q \in staged  PROVE q \in Top /\ dst'[q].kind = "dir"
  <2>1. q \in Top /\ dst[q].kind = "dir"  BY DEF Types, IsKind
  <2>2. q \in Path /\ q # r  BY <1>5, <2>1, PathFacts
  <2> QED  BY <1>4, <2>1, <2>2
<1> QED  BY <1>1, <1>2, <1>3, <1>4, <1>6 DEF Types, IsKind

LEMMA RemoveFileTyped == ASSUME Types, RemoveFile  PROVE Types'
<1>1. PICK p \in First(files) :
        /\ \/ CanRemove(Confine(p)) /\ RemovePath(Confine(p)) /\ files' = files \ {p}
              /\ UNCHANGED <<dirs, phase, result>>
           \/ ~CanRemove(Confine(p)) /\ Return("error") /\ UNCHANGED <<dst, removed>>
        /\ followed' = (followed \/ Confine(p) # p)
  BY DEF RemoveFile
<1>2. p \in Path  BY <1>1 DEF First, Types
<1>3. followed' \in BOOLEAN  BY <1>1 DEF Types
<1>4. CASE /\ CanRemove(Confine(p)) /\ RemovePath(Confine(p)) /\ files' = files \ {p}
           /\ UNCHANGED <<dirs, phase, result>>
  <2>1. /\ dst' \in Tree /\ staged \subseteq {q \in Top : IsKind(q, "dir")}'
        /\ removed' \subseteq Path
    BY <1>2, <1>4, RemovesTyped, ConfineFacts
  <2>2. files' \subseteq Path  BY <1>4 DEF Types
  <2> QED  BY <1>3, <1>4, <2>1, <2>2 DEF Types, RemoveFile, run
<1>5. CASE Return("error") /\ UNCHANGED <<dst, removed>>
  BY <1>3, <1>5 DEF Types, RemoveFile, run, Return, IsKind
<1> QED  BY <1>1, <1>4, <1>5

LEMMA RemoveDirTyped == ASSUME Types, RemoveDir  PROVE Types'
<1>1. PICK p \in Deepest(dirs) :
        /\ \/ CanRemove(Confine(p)) /\ RemovePath(Confine(p))
           \/ ~CanRemove(Confine(p)) /\ UNCHANGED <<dst, removed>>
        /\ dirs' = dirs \ {p}
        /\ followed' = (followed \/ Confine(p) # p)
  BY DEF RemoveDir
<1>2. p \in Path /\ dirs' \subseteq Path  BY <1>1 DEF Deepest, Types
<1>3. followed' \in BOOLEAN  BY <1>1 DEF Types
<1>4. CASE CanRemove(Confine(p)) /\ RemovePath(Confine(p))
  <2>1. /\ dst' \in Tree /\ staged \subseteq {q \in Top : IsKind(q, "dir")}'
        /\ removed' \subseteq Path
    BY <1>2, <1>4, RemovesTyped, ConfineFacts
  <2> QED  BY <1>2, <1>3, <1>4, <2>1 DEF Types, RemoveDir, run
<1>5. CASE UNCHANGED <<dst, removed>>
  BY <1>2, <1>3, <1>5 DEF Types, RemoveDir, run, IsKind
<1> QED  BY <1>1, <1>4, <1>5

LEMMA WalkTyped == ASSUME Types, WalkSource  PROVE Types'
<1>1. walked' \in Tree  BY EntryFacts DEF WalkSource, Types, Tree
<1>2. seen' \in [Path -> SUBSET Entry]  BY DEF WalkSource, Types, Tree
<1>3. queue' \subseteq Path  BY DEF WalkSource
<1> QED  BY <1>1, <1>2, <1>3 DEF Types, WalkSource, tree, run, extras, IsKind

LEMMA GatherTyped == ASSUME Types, Gather  PROVE Types'
  BY DEF Types, Gather, Return, tree, run, IsKind

LEMMA DeleteEndsTyped == ASSUME Types, DeleteEnds  PROVE Types'
  BY DEF Types, DeleteEnds, Return, tree, run, IsKind

LEMMA CancelTyped == ASSUME Types, Cancel  PROVE Types'
<1>1. troubles' \in 0..MaxTroubles  BY ValueAssumption DEF Cancel, Trouble, Types
<1> QED  BY <1>1 DEF Types, Cancel, tree, run, extras, IsKind

LEMMA ChangedTyped ==
  ASSUME NEW p \in Path
  PROVE  Changed(p) \subseteq Entry /\ \A e \in Changed(p) : e.kind = "link" => p \in Top
<1>1. {None} \cup {File(v) : v \in Version} \cup {Dir(m) : m \in {Writable, ReadOnly}} \subseteq Entry
  BY DEF Entry
<1>2. {Link(t) : t \in IF p \in Top THEN (Top \ {p}) \cup {Elsewhere} ELSE {}} \subseteq Entry
  BY DEF Entry
<1>3. \A e \in {None} \cup {File(v) : v \in Version} \cup {Dir(m) : m \in {Writable, ReadOnly}} :
        e.kind # "link"
  BY EntryFacts
<1> QED  BY <1>1, <1>2, <1>3 DEF Changed

LEMMA ChangeTyped ==
  ASSUME Types, NEW p \in Path, ChangeSource(p)
  PROVE  Types'
<1>1. PICK e \in Changed(p) :
        src' = [q \in Path |-> IF q = p THEN e
                               ELSE IF q \in Below(p) /\ e.kind # "dir" THEN None ELSE src[q]]
  BY DEF ChangeSource
<1>2. e \in Entry  BY ChangedTyped
<1>3. src' \in Tree  BY <1>1, <1>2, EntryFacts DEF Types, Tree
<1>4. seen' = [q \in Path |-> seen[q] \cup {src'[q]}]  BY DEF ChangeSource
<1>5. seen' \in [Path -> SUBSET Entry]  BY <1>3, <1>4 DEF Types, Tree
<1>6. troubles' \in 0..MaxTroubles  BY ValueAssumption DEF ChangeSource, Trouble, Types
<1> QED  BY <1>3, <1>5, <1>6 DEF Types, ChangeSource, run, extras, IsKind
-----------------------------------------------------------------------------
(* A step of worker w with the path p it has: what all such steps leave alone,
   and what is then left to show of each. *)
Cause(p) == p \in faulty \/ seen[p] # {walked[p]} \/ InTheWay(p)

Touches(p) == \A q \in Path \ {p} : dst'[q] # dst[q] =>
                \/ q = TopOf(p) /\ dst[q] = None /\ dst'[q] = Dir(Writable)
                \/ q \in Below(p) /\ walked[p].kind = "link"

Step(w, p, s, o) ==
    /\ UNCHANGED <<src, run, walked, queue, canceled, phase, extras, result, seen, removed>>
    /\ faulty \subseteq faulty' /\ (followed => followed')
    /\ worker'[w] = s /\ \A v \in Worker \ {w} : worker'[v] = worker[v]
    /\ outcome'[p] = o /\ \A q \in Path \ {p} : outcome'[q] = outcome[q]
    /\ s.st = "idle" <=> o # "none"
    /\ s.st # "idle" => s.path = p
    /\ o # "cut"

LEMMA BusyPhase ==
  ASSUME Types, Phases, NEW w \in Worker, Busy(w)
  PROVE  /\ phase = "transfer" /\ result = "none" /\ files = {} /\ dirs = {} /\ removed = {}
  BY DEF Types, Phases

LEMMA StepPhases ==
  ASSUME Types, Phases, NEW w \in Worker, Busy(w), NEW p, NEW s, NEW o, Step(w, p, s, o)
  PROVE  Phases' /\ Deletes'
<1>1. /\ phase = "transfer" /\ result = "none" /\ files = {} /\ dirs = {} /\ removed = {}
  BY BusyPhase
<1>2. /\ phase' = "transfer" /\ result' = "none" /\ files' = {} /\ dirs' = {} /\ removed' = {}
  BY <1>1 DEF Step, extras
<1>3. Phases'  BY <1>2 DEF Phases
<1>4. Deletes'  BY <1>2 DEF Deletes
<1> QED  BY <1>3, <1>4

LEMMA StepListing ==
  ASSUME Listing, NEW w \in Worker, NEW p, NEW s, NEW o, Step(w, p, s, o)
  PROVE  Listing'
  BY DEF Listing, Step, run, WellFormed

LEMMA StepMetas ==
  ASSUME Types, Metas, NEW w \in Worker, NEW p, NEW s, NEW o, Step(w, p, s, o),
         s.st # "idle" => WillFit(p, s.meta)
  PROVE  Metas'
<1>1. SUFFICES ASSUME NEW v \in Worker, worker'[v].st # "idle"
               PROVE  WillFit(worker'[v].path, worker'[v].meta)
  BY DEF Metas, Busy, Fits, WillFit
<1>2. CASE v = w
  <2>1. worker'[v] = s /\ s.path = p  BY <1>1, <1>2 DEF Step
  <2> QED  BY <1>1, <2>1
<1>3. CASE v # w
  <2>1. worker'[v] = worker[v] /\ Busy(v)  BY <1>1, <1>3 DEF Step, Busy
  <2>2. seen' = seen /\ walked' = walked /\ (followed => followed')  BY DEF Step, run
  <2>3. Fits(worker[v].path, worker[v].meta)  BY <2>1 DEF Metas
  <2> QED  BY <2>1, <2>2, <2>3 DEF Fits, WillFit
<1> QED  BY <1>2, <1>3

LEMMA StepJobs ==
  ASSUME Types, Jobs, NEW w \in Worker, Busy(w), NEW s, NEW o,
         Step(w, worker[w].path, s, o)
  PROVE  Jobs'
<1> DEFINE p == worker[w].path
<1>1. /\ queue' = queue /\ walked' = walked /\ canceled' = canceled
      /\ worker'[w] = s /\ \A v \in Worker \ {w} : worker'[v] = worker[v]
      /\ outcome'[p] = o /\ \A q \in Path \ {p} : outcome'[q] = outcome[q]
      /\ s.st = "idle" <=> o # "none"
      /\ s.st # "idle" => s.path = p
      /\ o # "cut"
  BY DEF Step
<1>2. p \in Path /\ p \notin queue /\ walked[p] # None /\ outcome[p] = "none"
  BY BusyFacts DEF Jobs
<1>3. /\ Busy(w)' <=> o = "none"
      /\ Busy(w)' => worker'[w].path = p
      /\ \A v \in Worker \ {w} : (Busy(v)' <=> Busy(v)) /\ worker'[v].path = worker[v].path
  BY <1>1 DEF Busy
<1>4. \A v \in Worker : Busy(v)' => Busy(v) /\ worker'[v].path = worker[v].path
  BY <1>3
<1>5. \A v \in Worker \ {w} : Busy(v) => worker[v].path # p
  BY DEF Jobs
<1>6. \A q \in queue' : walked'[q] # None /\ outcome'[q] = "none"
  BY <1>1, <1>2 DEF Jobs, Types
<1>7. \A v \in Worker : Busy(v)' => /\ worker'[v].path \notin queue'
                                    /\ walked'[worker'[v].path] # None
                                    /\ outcome'[worker'[v].path] = "none"
  <2>1. SUFFICES ASSUME NEW v \in Worker, Busy(v)'
                 PROVE /\ worker'[v].path \notin queue'
                       /\ walked'[worker'[v].path] # None
                       /\ outcome'[worker'[v].path] = "none"
    OBVIOUS
  <2>2. CASE v = w  BY <1>1, <1>2, <1>3, <2>1, <2>2
  <2>3. CASE v # w
    <3>1. Busy(v) /\ worker'[v].path = worker[v].path  BY <1>4, <2>1
    <3>2. worker[v].path \in Path \ {p}  BY <1>5, <2>3, <3>1, BusyFacts
    <3> QED  BY <1>1, <3>1, <3>2 DEF Jobs
  <2> QED  BY <2>2, <2>3
<1>8. \A u, v \in Worker : Busy(u)' /\ Busy(v)' /\ worker'[u].path = worker'[v].path => u = v
  BY <1>4 DEF Jobs
<1>9. ASSUME NEW q \in Path
      PROVE  /\ walked'[q] # None /\ outcome'[q] = "none" =>
                    q \in queue' \/ \E v \in Worker : Busy(v)' /\ worker'[v].path = q
             /\ outcome'[q] # "none" => walked'[q] # None
             /\ outcome'[q] = "cut" => canceled'
  <2>1. CASE q = p  BY <1>1, <1>2, <1>3, <2>1
  <2>2. CASE q # p
    <3>1. ASSUME NEW v \in Worker, Busy(v), worker[v].path = q
          PROVE Busy(v)' /\ worker'[v].path = q
      BY <1>3, <2>2, <3>1
    <3> QED  BY <1>1, <2>2, <3>1 DEF Jobs
  <2> QED  BY <2>1, <2>2
<1> HIDE DEF p
<1> QED  BY <1>6, <1>7, <1>8, <1>9 DEF Jobs

LEMMA StepCauses ==
  ASSUME Types, Listing, Jobs, FailureHasCause, NEW w \in Worker, Busy(w), NEW p, NEW s, NEW o,
         p = worker[w].path, Step(w, p, s, o),
         ~followed' /\ o = "failed" => Cause(p)'
  PROVE  FailureHasCause'
<1>1. SUFFICES ASSUME ~followed', NEW q \in Path, outcome'[q] = "failed"
               PROVE Cause(q)'
  BY DEF FailureHasCause, Cause
<1>2. CASE q = p  BY <1>1, <1>2 DEF Step
<1>3. CASE q # p
  <2>1. outcome[q] = "failed" /\ ~followed  BY <1>1, <1>3 DEF Step
  <2>2. q \in faulty \/ seen[q] # {walked[q]} \/ InTheWay(q)
    BY <2>1 DEF FailureHasCause
  <2>3. faulty \subseteq faulty' /\ seen' = seen /\ walked' = walked /\ before' = before
    BY DEF Step, run
  <2>4. InTheWay(q) => InTheWay(q)'  BY <2>3 DEF InTheWay
  <2> QED  BY <2>2, <2>3, <2>4 DEF Cause
<1> QED  BY <1>2, <1>3

(* Every path of the walk lies in a directory of the walk, and none below a link. *)
LEMMA ListedFacts ==
  ASSUME Types, Listing, NEW p \in Path, walked[p] # None
  PROVE  /\ p \notin excluded /\ walked[p] \in seen[p]
         /\ p \notin Top => walked[TopOf(p)].kind = "dir" /\ walked[p].kind # "link"
         /\ \A q \in Below(p) : walked[q] # None => walked[p].kind = "dir"
<1>1. p \notin excluded /\ walked[p] \in seen[p]  BY DEF Listing
<1>2. \A q \in Path \ Top : walked[q].kind # "link"
                            /\ (walked[q] # None => walked[TopOf(q)].kind = "dir")
  BY DEF Listing, WellFormed
<1>3. \A q \in Below(p) : q \in Path \ Top /\ TopOf(q) = p  BY BelowFacts
<1> QED  BY <1>1, <1>2, <1>3

(* Where the tree changed besides p, nothing that matters was lost. *)
LEMMA TouchesKeeps ==
  ASSUME Types, Listing, NEW p \in Path, walked[p] # None, Touches(p),
         NEW q \in Path \ {p}, dst'[q] # dst[q]
  PROVE  \/ walked[q] = None /\ q \notin Top /\ walked[TopOf(q)].kind = "link"
         \/ q \in Top /\ dst[q] = None /\ dst'[q] = Dir(Writable) /\ walked[q].kind = "dir"
<1>1. CASE q = TopOf(p) /\ dst[q] = None /\ dst'[q] = Dir(Writable)
  <2>1. p \notin Top /\ q \in Top  BY <1>1, PathFacts
  <2> QED  BY <1>1, <2>1, ListedFacts
<1>2. CASE q \in Below(p) /\ walked[p].kind = "link"
  <2>1. q \notin Top /\ TopOf(q) = p  BY <1>2, BelowFacts
  <2>2. walked[q] = None  BY <1>2, ListedFacts
  <2> QED  BY <1>2, <2>1, <2>2
<1> QED  BY <1>1, <1>2 DEF Touches

LEMMA StepPlaced ==
  ASSUME Types, Listing, Jobs, Placed, NEW w \in Worker, Busy(w), NEW p, NEW s, NEW o,
         p = worker[w].path, Step(w, p, s, o),
         ~followed' => /\ Touches(p)
                       /\ o \in Handled => dst'[p] \in seen[p] /\ dst'[p] # None
                       /\ o = "none" => dst'[p] = dst[p]
                       /\ dst'[p] = Dir(ReadOnly) /\ walked[p].kind # "file" =>
                             dst'[p] \in {dst[p], walked[p]}
  PROVE  Placed'
<1>1. SUFFICES ASSUME ~followed', NEW q \in Path
               PROVE /\ Mirror(q)' /\ Untouched(q)' /\ Lockedness(q)'
                     /\ Protected(q)' /\ Unlisted(q)'
  BY DEF Placed
<1>2. ~followed  BY <1>1 DEF Step
<1>3. Mirror(q) /\ Untouched(q) /\ Lockedness(q) /\ Protected(q) /\ Unlisted(q)
  BY <1>2 DEF Placed
<1>4. seen' = seen /\ walked' = walked /\ before' = before /\ excluded' = excluded
  BY DEF Step, run
<1>5. p \in Path /\ walked[p] # None /\ outcome[p] = "none" /\ p \notin excluded
  BY BusyFacts, ListedFacts DEF Jobs
<1>6. CASE q = p
  <2>1. outcome'[p] = o  BY DEF Step
  <2>2. Mirror(q)'  BY <1>1, <1>4, <1>6, <2>1 DEF Mirror
  <2>3. Untouched(q)'
    <3>1. o = "none" => dst'[p] = dst[p]  BY <1>1
    <3> QED  BY <1>3, <1>4, <1>5, <1>6, <2>1, <3>1 DEF Untouched
  <2>4. Lockedness(q)'  BY <1>1, <1>3, <1>4, <1>6 DEF Lockedness
  <2>5. Protected(q)'  BY <1>4, <1>5, <1>6 DEF Protected
  <2>6. Unlisted(q)'  BY <1>4, <1>5, <1>6 DEF Unlisted
  <2> QED  BY <2>2, <2>3, <2>4, <2>5, <2>6
<1>7. CASE q # p /\ dst'[q] = dst[q]
  <2>1. outcome'[q] = outcome[q]  BY <1>7 DEF Step
  <2> QED  BY <1>3, <1>4, <1>7, <2>1 DEF Mirror, Untouched, Lockedness, Protected, Unlisted
<1>8. CASE q # p /\ dst'[q] # dst[q]
  <2>1. outcome'[q] = outcome[q]  BY <1>8 DEF Step
  <2>2. CASE walked[q] = None /\ q \notin Top /\ walked[TopOf(q)].kind = "link"
    <3>1. outcome[q] = "none"  BY <2>2 DEF Jobs
    <3> QED  BY <1>4, <2>1, <2>2, <3>1 DEF Mirror, Untouched, Lockedness, Protected, Unlisted, Handled
  <2>3. CASE q \in Top /\ dst[q] = None /\ dst'[q] = Dir(Writable) /\ walked[q].kind = "dir"
    <3>1. dst[q].kind = "none" /\ Dir(Writable) # Dir(ReadOnly) /\ None # Dir(Writable)
      BY <2>3, EntryFacts
    <3>2. outcome[q] \notin Handled  BY <1>3, <2>3, <3>1 DEF Mirror
    <3>3. Untouched(q)'  BY <1>3, <1>4, <2>1, <2>3, <3>1 DEF Untouched
    <3>4. Protected(q)'
      <4>1. walked[q] # None  BY <2>3, EntryFacts
      <4> QED  BY <1>4, <4>1, ListedFacts DEF Protected
    <3>5. Unlisted(q)'
      <4>1. walked[q] # None  BY <2>3, EntryFacts
      <4> QED  BY <1>4, <4>1 DEF Unlisted
    <3> QED  BY <1>4, <2>1, <2>3, <3>1, <3>2, <3>3, <3>4, <3>5 DEF Mirror, Lockedness
  <2> QED  BY <1>1, <1>5, <1>8, <2>2, <2>3, TouchesKeeps
<1> QED  BY <1>6, <1>7, <1>8

LEMMA StepWrites ==
  ASSUME Types, Listing, Jobs, Writes, NEW w \in Worker, Busy(w), NEW p, NEW s, NEW o,
         p = worker[w].path, Step(w, p, s, o),
         ~followed' => /\ Touches(p)
                       /\ walked[p].kind = "dir" => dst'[p].kind \in {dst[p].kind, "dir"},
         s.st = "writing" => followed' \/ /\ s.at = p
                                          /\ p \notin Top => dst'[TopOf(p)].kind = "dir"
  PROVE  Writes'
<1>1. SUFFICES ASSUME NEW v \in Worker, worker'[v].st = "writing"
      PROVE followed' \/ /\ worker'[v].at = worker'[v].path
                         /\ worker'[v].path \notin Top => dst'[TopOf(worker'[v].path)].kind = "dir"
  BY DEF Writes, IsKind
<1>2. seen' = seen /\ walked' = walked /\ (followed => followed')  BY DEF Step, run
<1>3. CASE v = w
  <2>1. worker'[v] = s /\ s.path = p  BY <1>1, <1>3 DEF Step
  <2> QED  BY <1>1, <1>2, <2>1
<1>4. CASE v # w
  <2>1. worker'[v] = worker[v]  BY <1>4 DEF Step
  <2> DEFINE q == worker[v].path
  <2>2. Busy(v) /\ worker[v].st = "writing"  BY <1>1, <2>1 DEF Busy
  <2>3. q \in Path /\ walked[q] # None  BY <2>2, BusyFacts DEF Jobs
  <2>4. followed \/ /\ worker[v].at = q
                    /\ q \notin Top => dst[TopOf(q)].kind = "dir"
    BY <2>2 DEF Writes, IsKind
  <2>5. ASSUME ~followed', q \notin Top  PROVE dst'[TopOf(q)].kind = "dir"
    <3>1. dst[TopOf(q)].kind = "dir" /\ walked[TopOf(q)].kind = "dir" /\ TopOf(q) \in Top
      BY <1>2, <2>3, <2>4, <2>5, ListedFacts, PathFacts
    <3>2. CASE p = TopOf(q)  BY <2>5, <3>1, <3>2
    <3>3. CASE p # TopOf(q) /\ dst'[TopOf(q)] # dst[TopOf(q)]
      <4>1. p \in Path /\ walked[p] # None  BY BusyFacts DEF Jobs
      <4>2. TopOf(q) \in Path \ {p}  BY <3>1, <3>3, PathFacts
      <4>3. dst'[TopOf(q)] = Dir(Writable)  BY <2>5, <3>1, <3>3, <4>1, <4>2, TouchesKeeps
      <4> QED  BY <4>3, EntryFacts
    <3> QED  BY <3>1, <3>2, <3>3
  <2> HIDE DEF q
  <2>6. worker'[v].path = q /\ worker'[v].at = worker[v].at
    BY <2>1 DEF q
  <2> QED  BY <1>2, <2>4, <2>5, <2>6
<1> QED  BY <1>3, <1>4

LEMMA StepKeeps ==
  ASSUME IInv, Types', NEW w \in Worker, Busy(w), NEW p, NEW s, NEW o,
         p = worker[w].path, Step(w, p, s, o),
         ~followed' =>
           /\ Touches(p)
           /\ o \in Handled => dst'[p] \in seen[p] /\ dst'[p] # None
           /\ o = "none" => dst'[p] = dst[p]
           /\ o = "failed" => Cause(p)'
           /\ dst'[p] = Dir(ReadOnly) /\ walked[p].kind # "file" =>
                 dst'[p] \in {dst[p], walked[p]}
           /\ walked[p].kind = "dir" => dst'[p].kind \in {dst[p].kind, "dir"},
         s.st # "idle" => WillFit(p, s.meta),
         s.st = "writing" => followed' \/ /\ s.at = p
                                          /\ p \notin Top => dst'[TopOf(p)].kind = "dir"
  PROVE  IInv'
<1> USE DEF IInv
<1>1. Phases' /\ Deletes'  BY StepPhases
<1>2. Listing'  BY StepListing
<1>3. Jobs'  BY StepJobs
<1>4. FailureHasCause'  BY StepCauses
<1>5. Placed'  BY StepPlaced
<1>6. Writes'  BY StepWrites
<1>7. Metas'  BY StepMetas
<1> QED  BY <1>1, <1>2, <1>3, <1>4, <1>5, <1>6, <1>7

LEMMA DoneStep ==
  ASSUME Types, NEW w \in Worker, Busy(w), NEW p, p = worker[w].path,
         NEW o \in {"ok", "skipped", "failed"}, Done(w, o),
         UNCHANGED <<src, run, walked, queue, canceled, phase, extras, result, seen, removed>>,
         faulty \subseteq faulty', followed => followed'
  PROVE  Step(w, p, Idle, o)
<1>1. p \in Path  BY BusyFacts
<1>2. worker' = [worker EXCEPT ![w] = Idle] /\ outcome' = [outcome EXCEPT ![p] = o]
  BY DEF Done
<1>3. worker'[w] = Idle /\ \A v \in Worker \ {w} : worker'[v] = worker[v]
  BY <1>2 DEF Types
<1>4. outcome'[p] = o /\ \A q \in Path \ {p} : outcome'[q] = outcome[q]
  BY <1>1, <1>2 DEF Types
<1> QED  BY <1>3, <1>4, WorkerFacts DEF Step

(* What is before a worker, where no link led. *)
LEMMA BeforeIt ==
  ASSUME IInv, ~followed, NEW w \in Worker, Busy(w), NEW p, p = worker[w].path
  PROVE  /\ p \in Path /\ walked[p] # None /\ walked[p] \in seen[p] /\ src[p] \in seen[p]
         /\ \/ dst[p] = before[p]
            \/ before[p] = None /\ p \in Top /\ walked[p].kind = "dir" /\ dst[p] = Dir(Writable)
         /\ p \in Top => Lockedness(p)
         /\ p \notin Top => Lockedness(TopOf(p)) /\ walked[TopOf(p)].kind = "dir"
         /\ Fits(p, worker[w].meta) /\ worker[w].meta \in seen[p]
<1> USE DEF IInv
<1>1. p \in Path /\ walked[p] # None /\ outcome[p] = "none"  BY BusyFacts DEF Jobs
<1>2. phase # "walk"  BY BusyPhase
<1>3. src[p] \in seen[p]  BY <1>1, <1>2 DEF Listing
<1>4. Untouched(p) /\ Lockedness(p) /\ Lockedness(TopOf(p))
  BY <1>1, PathFacts DEF Placed
<1>5. Fits(p, worker[w].meta) /\ worker[w].meta \in seen[p]  BY DEF Metas, Fits
<1> QED  BY <1>1, <1>3, <1>4, <1>5, ListedFacts DEF Untouched

(* Who knows another source than the walk's, or finds another than he knows,
   knows of a change. *)
LEMMA ChangeSeen ==
  ASSUME IInv, ~followed, NEW w \in Worker, Busy(w), NEW p, p = worker[w].path,
         \/ worker[w].meta # walked[p]
         \/ worker[w].meta.kind = "file" /\ SourceAt(p) # worker[w].meta
  PROVE  seen[p] # {walked[p]}
<1>1. p \in Path /\ worker[w].meta \in seen[p] /\ src[p] \in seen[p]  BY BeforeIt
<1>2. CASE worker[w].meta # walked[p]  BY <1>1, <1>2
<1>3. CASE worker[w].meta = walked[p] /\ walked[p].kind = "file" /\ SourceAt(p) # walked[p]
  <2>1. src[p] # walked[p]
    <3>1. ConfineIn(src, p) = p => SourceAt(p) = src[p]
      BY <1>1, SourceFacts DEF IInv, Types, Listing
    <3>2. ConfineIn(src, p) # p => src[p].kind # "file"
      BY <1>1, SourceFacts DEF IInv, Types, Listing
    <3> QED  BY <1>3, <3>1, <3>2
  <2> QED  BY <1>1, <2>1
<1> QED  BY <1>2, <1>3

(* What a worker knows after it looked again. *)
LEMMA LookStep ==
  ASSUME IInv, NEW w \in Worker, Busy(w), NEW p, p = worker[w].path, LookAgain(w),
         worker[w].meta.kind = "file",
         UNCHANGED <<src, run, walked, queue, canceled, phase, extras, result, seen, removed>>,
         faulty' = faulty, followed' \in BOOLEAN, followed => followed',
         followed' \/ ~Strays(w)
  PROVE  \E e \in Entry : Step(w, p, Taken(p, e), "none") /\ WillFit(p, e)
<1> USE DEF IInv
<1>1. p \in Path /\ walked[p] # None /\ outcome[p] = "none" /\ phase # "walk"
  BY BusyFacts, BusyPhase DEF Jobs
<1>2. WellFormed(src) /\ src \in Tree  BY DEF Listing, Types
<1>3. PICK e \in Entry : /\ worker' = [worker EXCEPT ![w] = Taken(p, e)]
                         /\ e = IF SourceAt(p) = None THEN worker[w].meta ELSE SourceAt(p)
  BY <1>2, LookTyped
<1>4. Fits(p, worker[w].meta)  BY DEF Metas
<1>5. SourceAt(p) \in Entry /\ SourceAt(p).kind # "link"  BY <1>1, <1>2, SourceFacts
<1>6. worker'[w] = Taken(p, e) /\ \A v \in Worker \ {w} : worker'[v] = worker[v]
  BY <1>3 DEF Types
<1>7. Taken(p, e).st = "taken" /\ Taken(p, e).path = p /\ Taken(p, e).meta = e
  BY <1>1, <1>3, WorkerFacts
<1>8. outcome' = outcome  BY DEF LookAgain
<1>9. Step(w, p, Taken(p, e), "none")  BY <1>1, <1>6, <1>7, <1>8 DEF Step
<1>10. walked[p].kind = "file"  BY <1>4 DEF Fits
<1>11. e # None /\ e.kind \in {"file", "dir"}
  <2>1. CASE e = worker[w].meta  BY <1>4, <2>1 DEF Fits
  <2>2. CASE e = SourceAt(p) /\ e # None
    <3>0. e \in Entry  BY <1>3
    <3>1. e.kind \in {"none", "file", "dir", "link"}
      BY <3>0 DEF Entry, None, File, Dir, Link
    <3>2. e.kind # "none" /\ e.kind # "link"  BY <1>5, <2>2, <3>0, EntryFacts
    <3> QED  BY <2>2, <3>1, <3>2
  <2> QED  BY <1>3, <2>1, <2>2
<1>12. followed' \/ e \in seen[p]
  <2>1. CASE e = worker[w].meta  BY <1>4, <2>1 DEF Fits
  <2>2. CASE e = SourceAt(p)
    <3>1. followed' \/ ConfineIn(src, p) = p  BY <1>6, <1>7 DEF Strays
    <3>2. ConfineIn(src, p) = p => SourceAt(p) = src[p]  BY <1>1, <1>2, SourceFacts
    <3>3. src[p] \in seen[p]  BY <1>1 DEF Listing
    <3> QED  BY <2>2, <3>1, <3>2, <3>3
  <2> QED  BY <1>3, <2>1, <2>2
<1>13. walked' = walked /\ seen' = seen  BY DEF run
<1> QED  BY <1>9, <1>10, <1>11, <1>12, <1>13 DEF WillFit

(* A directory in the place of a file is in the way; so is a locked one above it. *)
LEMMA KindInTheWay ==
  ASSUME IInv, ~followed, NEW w \in Worker, Busy(w), NEW p, p = worker[w].path,
         \/ walked[p].kind = "dir" /\ IsKind(p, "file")
         \/ walked[p].kind = "file" /\ IsKind(p, "dir")
  PROVE  InTheWay(p)
<1>1. dst[p] = before[p]
  <2>1. dst[p] = before[p] \/ (walked[p].kind = "dir" /\ dst[p] = Dir(Writable))
    BY BeforeIt
  <2> QED  BY <2>1, EntryFacts DEF IsKind
<1>2. before[p].kind # walked[p].kind /\ walked[p].kind # "link" /\ before[p].kind # "none"
  BY <1>1 DEF IsKind
<1>3. before[p] # None  BY <1>2, EntryFacts
<1> QED  BY <1>2, <1>3 DEF InTheWay

LEMMA LockedInTheWay ==
  ASSUME IInv, ~followed, NEW w \in Worker, Busy(w), NEW p, p = worker[w].path,
         IsKind(TopOf(p), "dir"), ~CanChange(p)
  PROVE  InTheWay(p)
<1>1. p \in Path  BY BeforeIt
<1>2. p \notin Top /\ dst[TopOf(p)] # Dir(Writable)  BY <1>1, PathFacts DEF CanChange
<1>3. TopOf(p) \in Path /\ TopOf(p) \in Top  BY <1>1, PathFacts
<1>4. dst[TopOf(p)] \in Entry  BY <1>3 DEF IInv, Types, Tree
<1>5. dst[TopOf(p)] = Dir(ReadOnly)  BY <1>2, <1>4, EntryFacts DEF IsKind
<1>6. Lockedness(TopOf(p)) /\ walked[TopOf(p)].kind # "file"  BY <1>2, BeforeIt
<1> QED  BY <1>3, <1>5, <1>6 DEF Lockedness, InTheWay

LEMMA ParentIsDir ==
  ASSUME Types, NEW p \in Path, p \notin Top, Confine(p) = p, ~IsKind(TopOf(p), "none")
  PROVE  IsKind(TopOf(p), "dir")
<1>1. ~IsKind(TopOf(p), "link") /\ ~IsKind(TopOf(p), "file")  BY ConfineFacts
<1>2. dst[TopOf(p)] \in Entry  BY PathFacts DEF Types, Tree
<1>3. dst[TopOf(p)].kind \in {"none", "file", "dir", "link"}
  BY <1>2 DEF Entry, None, File, Dir, Link
<1> QED  BY <1>1, <1>3 DEF IsKind
-----------------------------------------------------------------------------
(* One lemma per action: it keeps the invariant. *)
LEMMA MakeDirKeeps == ASSUME IInv, NEW w \in Worker, MakeDir(w)  PROVE IInv'
<1> DEFINE r == Confine(worker[w].path)
<1>1. PICK p : p = worker[w].path  OBVIOUS
<1>2. Types /\ Types'  BY MakeDirTyped DEF IInv
<1>3. /\ Busy(w) /\ worker[w].meta.kind = "dir" /\ worker[w].meta \in Entry
      /\ worker[w].meta # None
      /\ worker[w].meta = walked[p] \/ walked[p].kind = "file"
  BY <1>1 DEF MakeDir, Has, Busy, IInv, Metas, Fits
<1>4. p \in Path /\ dst \in [Path -> Entry]  BY <1>1, <1>2, <1>3, BusyFacts DEF Types, Tree
<1>5. /\ UNCHANGED <<src, run, walked, queue, canceled, phase, extras, result, seen, removed>>
      /\ faulty' = faulty /\ followed' = (followed \/ r # p)
  BY <1>1 DEF MakeDir
<1>6. followed \in BOOLEAN /\ (followed => followed')
      /\ (~followed' => ~followed /\ r = p)  BY <1>2, <1>5 DEF Types
<1>7. CASE CanMakeDir(r) /\ dst' = [WithParent(r) EXCEPT ![r] = worker[w].meta] /\ Done(w, "ok")
  <2>1. Step(w, p, Idle, "ok")  BY <1>1, <1>2, <1>3, <1>5, <1>6, <1>7, DoneStep
  <2>2. SUFFICES ASSUME ~followed'
                 PROVE  Touches(p) /\ dst'[p] \in seen[p] /\ dst'[p] = worker[w].meta
    <3>1. ~followed' => /\ dst'[p] # None /\ dst'[p].kind = "dir"
                        /\ walked[p].kind # "file" => dst'[p] = walked[p]
      BY <1>3, <2>2
    <3> QED  BY <1>1, <1>2, <1>3, <2>1, <2>2, <3>1, WorkerFacts, StepKeeps DEF Handled
  <2>3. dst' = [WithParent(p) EXCEPT ![p] = worker[w].meta]  BY <1>6, <1>7, <2>2
  <2>4. WithParent(p) \in [Path -> Entry]  BY <1>2, <1>4, ParentTyped DEF Tree
  <2>5. dst'[p] = worker[w].meta /\ \A q \in Path \ {p} : dst'[q] = WithParent(p)[q]
    BY <1>4, <2>3, <2>4
  <2>6. Touches(p)  BY <1>2, <1>4, <2>5, ParentTyped DEF Touches
  <2> QED  BY <1>1, <1>3, <1>6, <2>2, <2>5, <2>6, BeforeIt
<1>8. CASE ~CanMakeDir(r) /\ dst' = dst /\ Done(w, "failed")
  <2>1. Step(w, p, Idle, "failed")  BY <1>1, <1>2, <1>3, <1>5, <1>6, <1>8, DoneStep
  <2>2. Touches(p)  BY <1>8 DEF Touches
  <2>3. SUFFICES ASSUME ~followed' PROVE seen[p] # {walked[p]} \/ InTheWay(p)
    <3>1. InTheWay(p) => InTheWay(p)'  BY <1>5 DEF InTheWay, run
    <3>2. ~followed' => Cause(p)'  BY <1>5, <2>3, <3>1 DEF Cause
    <3> QED  BY <1>1, <1>2, <1>3, <1>8, <2>1, <2>2, <3>2, WorkerFacts, StepKeeps DEF Handled
  <2>4. ~followed /\ r = p  BY <1>6, <2>3
  <2>5. CASE IsKind(p, "file") /\ worker[w].meta = walked[p]
    BY <1>1, <1>3, <2>4, <2>5, KindInTheWay
  <2>9. CASE worker[w].meta # walked[p]  BY <1>1, <1>3, <2>4, <2>9, ChangeSeen
  <2>6. CASE IsKind(p, "none") /\ ~CanChange(p) /\ ~IsKind(TopOf(p), "none")
    <3>1. p \notin Top  BY <1>4, <2>6, PathFacts
    <3>2. IsKind(TopOf(p), "dir")  BY <1>1, <1>2, <1>4, <2>4, <2>6, <3>1, ParentIsDir
    <3> QED  BY <1>1, <1>3, <2>4, <2>6, <3>2, LockedInTheWay
  <2>7. p # Nil  BY <1>4, ValueAssumption
  <2> QED  BY <1>8, <2>4, <2>5, <2>6, <2>7, <2>9 DEF CanMakeDir
<1> QED  BY <1>1, <1>7, <1>8 DEF MakeDir

LEMMA PutTouches ==
  ASSUME Types, NEW p \in Path, NEW e \in Entry, Put(p, e), walked[p].kind = "link"
  PROVE  Touches(p)
  BY PutTyped DEF Touches

LEMMA LinkStep ==
  ASSUME IInv, NEW w \in Worker, Has(w, "link"), NEW p, p = worker[w].path,
         ~followed
  PROVE  Busy(w) /\ p \in Top /\ src[p] \in Entry /\ src[p] \in seen[p]
<1>1. Busy(w) /\ walked[p].kind = "link"  BY DEF Has, Busy, IInv, Metas, Fits
<1>2. p \in Path /\ walked[p] # None /\ src[p] \in seen[p]  BY <1>1, BeforeIt
<1>3. p \in Top  BY <1>1, <1>2, ListedFacts DEF IInv
<1> QED  BY <1>1, <1>2, <1>3 DEF IInv, Types, Tree

LEMMA MakeLinkKeeps == ASSUME IInv, NEW w \in Worker, MakeLink(w)  PROVE IInv'
<1>1. PICK p : p = worker[w].path  OBVIOUS
<1>2. Types /\ Types'  BY MakeLinkTyped DEF IInv
<1>3. Has(w, "link") /\ Busy(w) /\ walked[p].kind = "link"
  BY <1>1 DEF MakeLink, Has, Busy, IInv, Metas, Fits
<1>4. p \in Path /\ src[p] \in Entry  BY <1>1, <1>2, <1>3, BusyFacts DEF Types, Tree
<1>5. /\ UNCHANGED <<src, run, walked, queue, canceled, phase, extras, result, seen, removed>>
      /\ faulty' = faulty /\ followed' = followed
  BY DEF MakeLink
<1>6. CASE src[p].kind = "link" /\ Put(p, src[p]) /\ Done(w, "ok")
  <2>1. Step(w, p, Idle, "ok")  BY <1>1, <1>2, <1>3, <1>5, <1>6, DoneStep
  <2>2. Touches(p)  BY <1>2, <1>3, <1>4, <1>6, PutTouches
  <2>3. dst'[p] = src[p]  BY <1>2, <1>4, <1>6, PutTyped
  <2>4. ~followed' => src[p] \in seen[p]  BY <1>1, <1>3, <1>5, LinkStep
  <2>5. dst'[p] # Dir(ReadOnly) /\ dst'[p] # None  BY <1>6, <2>3, EntryFacts
  <2> QED  BY <1>1, <1>2, <1>3, <1>6, <2>1, <2>2, <2>3, <2>4, <2>5, WorkerFacts, StepKeeps
           DEF Handled
<1>7. CASE /\ ~(src[p].kind = "link" /\ CanReplace(p))
           /\ dst' = dst /\ Done(w, "failed")
  <2>1. Step(w, p, Idle, "failed")  BY <1>1, <1>2, <1>3, <1>5, <1>7, DoneStep
  <2>2. Touches(p)  BY <1>7 DEF Touches
  <2>3. SUFFICES ASSUME ~followed' PROVE seen[p] # {walked[p]} \/ InTheWay(p)
    <3>1. InTheWay(p) => InTheWay(p)'  BY <1>5 DEF InTheWay, run
    <3>2. ~followed' => Cause(p)'  BY <1>5, <2>3, <3>1 DEF Cause
    <3> QED  BY <1>1, <1>2, <1>3, <1>7, <2>1, <2>2, <3>2, WorkerFacts, StepKeeps DEF Handled
  <2>4. ~followed /\ p \in Top /\ src[p] \in seen[p]  BY <1>1, <1>3, <1>5, <2>3, LinkStep
  <2>5. CASE src[p].kind # "link"  BY <1>3, <2>4, <2>5
  <2>6. CASE ~CanReplace(p)
    <3>1. dst[p] = Dir(ReadOnly)  BY <2>6 DEF CanReplace
    <3>2. Lockedness(p) /\ walked[p].kind # "file"  BY <1>1, <1>3, <2>4, BeforeIt
    <3> QED  BY <2>4, <3>1, <3>2, PathFacts DEF Lockedness, InTheWay
  <2> QED  BY <1>7, <2>5, <2>6
<1> QED  BY <1>1, <1>6, <1>7 DEF MakeLink

LEMMA IOErrorKeeps == ASSUME IInv, NEW w \in Worker, IOError(w)  PROVE IInv'
<1>1. PICK p : p = worker[w].path  OBVIOUS
<1>2. Types /\ Types'  BY IOErrorTyped DEF IInv
<1>3. Busy(w) /\ Done(w, "failed")  BY DEF IOError, Busy
<1>4. p \in Path  BY <1>1, <1>2, <1>3, BusyFacts
<1>5. /\ UNCHANGED <<src, run, walked, queue, canceled, phase, extras, result, seen, removed>>
      /\ faulty' = faulty \cup {p} /\ (followed => followed')
  BY <1>1, <1>2, <1>3, HalfMadeFacts DEF IOError
<1>6. Step(w, p, Idle, "failed")  BY <1>1, <1>2, <1>3, <1>5, DoneStep
<1>7. Cause(p)'  BY <1>5 DEF Cause
<1>8. CASE dst' = dst
  <2>1. Touches(p)  BY <1>8 DEF Touches
  <2> QED  BY <1>1, <1>2, <1>3, <1>6, <1>7, <1>8, <2>1, WorkerFacts, StepKeeps DEF Handled
<1>9. CASE Has(w, "link") /\ Put(p, None)
  <2>0. walked[p].kind = "link"  BY <1>1, <1>3, <1>9 DEF Has, IInv, Metas, Fits
  <2>1. Touches(p)  BY <1>2, <1>4, <1>9, <2>0, PutTouches, EntryFacts
  <2>2. dst'[p] = None  BY <1>2, <1>4, <1>9, PutTyped, EntryFacts
  <2>3. dst'[p] # Dir(ReadOnly)  BY <2>2, EntryFacts
  <2> QED  BY <1>1, <1>2, <1>3, <1>6, <1>7, <1>9, <2>1, <2>3, <2>0, WorkerFacts, StepKeeps DEF Handled
<1>10. CASE /\ followed' = (followed \/ Confine(p) # p)
            /\ \A q \in Path : dst'[q] # dst[q] => /\ dst[q] = None /\ dst'[q] = Dir(Writable)
                                                  /\ q \in {Confine(p), TopOf(Confine(p))}
  <2>1. ~followed' => Touches(p)
    <3>1. SUFFICES ASSUME Confine(p) = p  PROVE Touches(p)  BY <1>10
    <3> QED  BY <1>10, <3>1 DEF Touches
  <2>2. dst'[p] # dst[p] => dst'[p] = Dir(Writable)  BY <1>4, <1>10
  <2>3. Dir(Writable) # Dir(ReadOnly) /\ Dir(Writable).kind = "dir"  BY EntryFacts
  <2> QED  BY <1>1, <1>2, <1>3, <1>6, <1>7, <2>1, <2>2, <2>3, WorkerFacts, StepKeeps DEF Handled
<1> QED  BY <1>1, <1>2, <1>3, <1>8, <1>9, <1>10, HalfMadeFacts DEF IOError

LEMMA BeginKeeps == ASSUME IInv, NEW w \in Worker, Begin(w)  PROVE IInv'
<1> DEFINE r == Confine(worker[w].path)
           m == worker[w].meta
<1>1. PICK p : p = worker[w].path  OBVIOUS
<1>2. Types /\ Types'  BY BeginTyped DEF IInv, Listing
<1>3. Busy(w) /\ m.kind = "file" /\ walked[p].kind = "file" /\ Fits(p, m)
  BY <1>1 DEF Begin, Has, Busy, IInv, Metas, Fits
<1>4. p \in Path /\ m \in Entry  BY <1>1, <1>2, <1>3, BusyFacts
<1>5. /\ UNCHANGED <<src, run, walked, queue, canceled, phase, extras, result, seen, removed>>
      /\ faulty' = faulty /\ followed' = (followed \/ r # p \/ Strays(w))
  BY <1>1 DEF Begin
<1>6. followed \in BOOLEAN /\ (followed => followed')
      /\ (~followed' => ~followed /\ r = p)  BY <1>2, <1>5 DEF Types
<1>7. CASE LooksTheSame(r, m) /\ Done(w, "skipped") /\ dst' = dst
  <2>1. Step(w, p, Idle, "skipped")  BY <1>1, <1>2, <1>3, <1>5, <1>6, <1>7, DoneStep
  <2>2. Touches(p)  BY <1>7 DEF Touches
  <2>3. ~followed' => dst'[p] \in seen[p] /\ dst'[p] # None
    BY <1>3, <1>6, <1>7 DEF LooksTheSame, Fits
  <2> QED  BY <1>1, <1>2, <1>3, <1>7, <2>1, <2>2, <2>3, WorkerFacts, StepKeeps
<1>8. CASE /\ CanBegin(p, r, m)
           /\ worker' = [worker EXCEPT ![w] = Writing(p, r, m)]
           /\ (IF Len(r) = 1 THEN dst' = dst ELSE dst' = WithParent(r))
           /\ outcome' = outcome
  <2> DEFINE s == Writing(p, r, m)
  <2>1. outcome[p] = "none"  BY <1>1, <1>3 DEF IInv, Jobs
  <2>2. worker'[w] = s /\ \A v \in Worker \ {w} : worker'[v] = worker[v]
    BY <1>2, <1>8 DEF Types
  <2>3. s.st = "writing" /\ s.path = p /\ s.at = r /\ s.meta = m  BY DEF Writing
  <2>4. Step(w, p, s, "none")  BY <1>5, <1>6, <1>8, <2>1, <2>2, <2>3 DEF Step
  <2>5. WillFit(p, s.meta)
    <3>1. walked' = walked /\ seen' = seen  BY <1>5 DEF run
    <3> QED  BY <1>3, <1>6, <2>3, <3>1 DEF Fits, WillFit
  <2>7. ASSUME ~followed'
        PROVE /\ Touches(p) /\ dst'[p] = dst[p]
              /\ p \notin Top => dst'[TopOf(p)].kind = "dir"
    <3>1. ~followed /\ r = p  BY <1>6, <2>7
    <3>2. CASE p \in Top
      <4>1. dst' = dst  BY <1>4, <1>8, <3>1, <3>2, PathFacts
      <4> QED  BY <3>2, <4>1 DEF Touches
    <3>3. CASE p \notin Top
      <4>1. dst' = WithParent(p) /\ p # TopOf(p) /\ TopOf(p) \in Path
        BY <1>4, <1>8, <3>1, <3>3, PathFacts
      <4>2. \A q \in Path : dst'[q] = IF q = TopOf(p) /\ dst[q] = None
                                      THEN Dir(Writable) ELSE dst[q]
        BY <1>2, <1>4, <4>1, ParentTyped
      <4>3. Touches(p) /\ dst'[p] = dst[p]  BY <1>4, <4>1, <4>2 DEF Touches
      <4>4. CASE dst[TopOf(p)] = None
        BY <4>1, <4>2, <4>3, <4>4, EntryFacts
      <4>5. CASE dst[TopOf(p)] # None
        <5>1. ~IsKind(TopOf(p), "none")
          BY <1>2, <4>1, <4>5, EntryFacts DEF IsKind, Types, Tree
        <5>2. IsKind(TopOf(p), "dir")  BY <1>1, <1>2, <1>4, <3>1, <3>3, <5>1, ParentIsDir
        <5> QED  BY <4>1, <4>2, <4>3, <4>5, <5>2 DEF IsKind
      <4> QED  BY <4>4, <4>5
    <3> QED  BY <3>2, <3>3
  <2>8. ~followed' => s.at = p  BY <1>6, <2>3
  <2>9. s.st = "writing" => followed' \/ /\ s.at = p
                                         /\ p \notin Top => dst'[TopOf(p)].kind = "dir"
    BY <2>7, <2>8
  <2> HIDE DEF s
  <2> QED  BY <1>1, <1>2, <1>3, <2>4, <2>5, <2>7, <2>9, StepKeeps DEF Handled
<1>9. CASE ~CanBegin(p, r, m) /\ Done(w, "failed") /\ dst' = dst
  <2>1. Step(w, p, Idle, "failed")  BY <1>1, <1>2, <1>3, <1>5, <1>6, <1>9, DoneStep
  <2>2. Touches(p)  BY <1>9 DEF Touches
  <2>3. SUFFICES ASSUME ~followed' PROVE seen[p] # {walked[p]} \/ InTheWay(p)
    <3>1. InTheWay(p) => InTheWay(p)'  BY <1>5 DEF InTheWay, run
    <3>2. ~followed' => Cause(p)'  BY <1>5, <2>3, <3>1 DEF Cause
    <3> QED  BY <1>1, <1>2, <1>3, <1>9, <2>1, <2>2, <3>2, WorkerFacts, StepKeeps DEF Handled
  <2>4. ~followed /\ r = p /\ p # Nil  BY <1>4, <1>6, <2>3, ValueAssumption
  <2>5. CASE SourceAt(p) # m  BY <1>1, <1>3, <2>4, <2>5, ChangeSeen
  <2>6. CASE IsKind(p, "dir")  BY <1>1, <1>3, <2>4, <2>6, KindInTheWay
  <2> QED  BY <1>9, <2>4, <2>5, <2>6 DEF CanBegin
<1>10. CASE LookAgain(w) /\ dst' = dst
  <2>1. PICK e \in Entry : Step(w, p, Taken(p, e), "none") /\ WillFit(p, e)
    BY <1>1, <1>2, <1>3, <1>5, <1>6, <1>10, LookStep DEF Types
  <2>2. Taken(p, e).st = "taken" /\ Taken(p, e).meta = e  BY <1>4, <2>1, WorkerFacts
  <2>3. Touches(p)  BY <1>10 DEF Touches
  <2> QED  BY <1>1, <1>2, <1>3, <1>10, <2>1, <2>2, <2>3, StepKeeps DEF Handled
<1> QED  BY <1>1, <1>7, <1>8, <1>9, <1>10 DEF Begin

LEMMA InstallKeeps == ASSUME IInv, NEW w \in Worker, Install(w)  PROVE IInv'
<1> DEFINE r == worker[w].at
           f == worker[w].meta
<1>1. PICK p : p = worker[w].path  OBVIOUS
<1>2. Types /\ Types'  BY InstallTyped DEF IInv, Listing
<1>3. Busy(w) /\ worker[w].st = "writing"  BY DEF Install, Busy
<1>4. p \in Path /\ src[p] \in Entry /\ r \in Path
  BY <1>1, <1>2, <1>3, BusyFacts DEF Types, Tree
<1>5. /\ UNCHANGED <<src, run, walked, queue, canceled, phase, extras, result, seen, removed>>
      /\ faulty \subseteq faulty' /\ followed' = (followed \/ Strays(w))
  BY DEF Install
<1>10. /\ f.kind = "file" /\ Fits(p, f) /\ followed' \in BOOLEAN
       /\ followed => followed'
  BY <1>1, <1>2, <1>3, <1>5, BusyFacts DEF IInv, Metas, Types
<1>6. /\ walked[p].kind = "file" /\ f # None
      /\ ~followed => f \in seen[p] /\ r = p /\ (p \notin Top => IsKind(TopOf(p), "dir"))
  BY <1>1, <1>3, <1>10 DEF IInv, Writes, Fits
<1>7. CASE Unchanged(w) /\ CanInstall(r) /\ dst' = [dst EXCEPT ![r] = f] /\ Done(w, "ok")
  <2>1. Step(w, p, Idle, "ok")  BY <1>1, <1>2, <1>3, <1>5, <1>7, <1>10, DoneStep
  <2>2. ASSUME ~followed'
        PROVE Touches(p) /\ dst'[p] \in seen[p] /\ dst'[p] # None
              /\ dst'[p] # Dir(ReadOnly)
    <3>1. r = p  BY <1>5, <1>6, <2>2
    <3>2. dst'[p] = f /\ \A q \in Path \ {p} : dst'[q] = dst[q]
      BY <1>2, <1>4, <1>7, <3>1 DEF Types, Tree
    <3>3. Dir(ReadOnly).kind = "dir"  BY EntryFacts
    <3> QED  BY <1>5, <1>6, <1>10, <2>2, <3>2, <3>3 DEF Touches
  <2> QED  BY <1>1, <1>2, <1>3, <1>6, <2>1, <2>2, WorkerFacts, StepKeeps DEF Handled
<1>8. CASE dst' = dst /\ Done(w, "failed")
           /\ (~Unchanged(w) \/ ~CanInstall(r) \/ faulty' = faulty \cup {worker[w].path})
  <2>1. Step(w, p, Idle, "failed")  BY <1>1, <1>2, <1>3, <1>5, <1>8, <1>10, DoneStep
  <2>2. Touches(p)  BY <1>8 DEF Touches
  <2>3. SUFFICES ASSUME ~followed' PROVE p \in faulty' \/ seen[p] # {walked[p]} \/ InTheWay(p)
    <3>1. InTheWay(p) => InTheWay(p)'  BY <1>5 DEF InTheWay, run
    <3>2. ~followed' => Cause(p)'  BY <1>5, <2>3, <3>1 DEF Cause
    <3> QED  BY <1>1, <1>2, <1>3, <1>6, <1>8, <2>1, <2>2, <3>2, WorkerFacts, StepKeeps DEF Handled
  <2>4. ~followed /\ r = p  BY <1>5, <1>6, <2>3
  <2>5. CASE ~Unchanged(w)
    BY <1>1, <1>3, <1>10, <2>4, <2>5, ChangeSeen DEF Unchanged
  <2>6. CASE IsKind(p, "dir")  BY <1>1, <1>3, <1>6, <2>4, <2>6, KindInTheWay
  <2>7. CASE ~CanChange(p)
    <3>1. p \notin Top  BY <1>4, <2>7, PathFacts DEF CanChange
    <3> QED  BY <1>1, <1>3, <1>6, <2>4, <2>7, <3>1, LockedInTheWay
  <2> QED  BY <1>1, <1>8, <2>4, <2>5, <2>6, <2>7 DEF CanInstall
<1>9. CASE LookAgain(w) /\ dst' = dst /\ faulty' = faulty
  <2>1. PICK e \in Entry : Step(w, p, Taken(p, e), "none") /\ WillFit(p, e)
    BY <1>1, <1>3, <1>5, <1>9, <1>10, LookStep
  <2>2. Taken(p, e).st = "taken" /\ Taken(p, e).meta = e  BY <1>4, <2>1, WorkerFacts
  <2>3. Touches(p)  BY <1>9 DEF Touches
  <2> QED  BY <1>1, <1>2, <1>3, <1>6, <1>9, <2>1, <2>2, <2>3, StepKeeps DEF Handled
<1> QED  BY <1>1, <1>7, <1>8, <1>9 DEF Install

LEMMA TakeKeeps == ASSUME IInv, NEW w \in Worker, Take(w)  PROVE IInv'
<1> USE DEF IInv
<1>1. PICK p \in First(queue) :
        /\ queue' = queue \ {p}
        /\ \/ canceled /\ outcome' = [outcome EXCEPT ![p] = "cut"] /\ worker' = worker
           \/ worker' = [worker EXCEPT ![w] = Taken(p, walked[p])] /\ outcome' = outcome
  BY DEF Take
<1>2. Types'  BY TakeTyped
<1>3. /\ UNCHANGED <<src, dst, staged, run, walked, canceled, phase, extras, result, seen,
                     faulty, removed, followed>>
      /\ phase = "transfer" /\ ~Busy(w)
  BY DEF Take, tree, Busy
<1>4. /\ p \in queue /\ p \in Path /\ walked[p] # None /\ outcome[p] = "none"
      /\ walked[p] \in Entry
  BY <1>1 DEF First, Types, Jobs, Tree
<1>5. result = "none" /\ files = {} /\ dirs = {} /\ removed = {}
  BY <1>3 DEF Types, Phases
<1>6. Phases' /\ Deletes'
  <2>1. phase' = "transfer" /\ result' = "none" /\ files' = {} /\ dirs' = {} /\ removed' = {}
    BY <1>3, <1>5 DEF extras
  <2> QED  BY <2>1 DEF Phases, Deletes
<1>7. Listing'  BY <1>3 DEF Listing, run, WellFormed
<1>8. \A v \in Worker : worker'[v].st = "writing" => worker'[v] = worker[v]
  BY <1>1, <1>4, WorkerFacts DEF Types
<1>9. Writes'
  <2>1. SUFFICES ASSUME NEW v \in Worker, worker'[v].st = "writing"
                 PROVE followed' \/ /\ worker'[v].at = worker'[v].path
                                    /\ worker'[v].path \notin Top =>
                                         dst'[TopOf(worker'[v].path)].kind = "dir"
    BY DEF Writes, IsKind
  <2>2. worker'[v] = worker[v]  BY <1>8, <2>1
  <2> QED  BY <1>3, <2>1, <2>2 DEF Writes, IsKind
<1>10. \A q \in Path \ {p} : outcome'[q] = outcome[q]  BY <1>1, <1>4 DEF Types
<1>11. outcome'[p] \in {"none", "cut"} /\ (outcome'[p] = "cut" => canceled)
  BY <1>1, <1>4 DEF Types
<1>12. FailureHasCause'
  BY <1>3, <1>10, <1>11 DEF FailureHasCause, InTheWay, run
<1>13. Placed'
  <2>1. SUFFICES ASSUME ~followed, NEW q \in Path
                 PROVE /\ Mirror(q)' /\ Untouched(q)' /\ Lockedness(q)'
                       /\ Protected(q)' /\ Unlisted(q)'
    BY <1>3 DEF Placed
  <2>2. Mirror(q) /\ Untouched(q) /\ Lockedness(q) /\ Protected(q) /\ Unlisted(q)
    BY <2>1 DEF Placed
  <2>3. /\ outcome'[q] \in Handled => outcome[q] \in Handled
        /\ outcome'[q] = "none" => outcome[q] = "none"
    BY <1>4, <1>10, <1>11 DEF Handled
  <2> QED  BY <1>3, <2>2, <2>3 DEF Mirror, Untouched, Lockedness, Protected, Unlisted, run
<1>14. Jobs'
  <2>1. CASE canceled /\ outcome' = [outcome EXCEPT ![p] = "cut"] /\ worker' = worker
    <3>1. outcome'[p] = "cut"  BY <1>4, <2>1 DEF Types
    <3>2. \A v \in Worker : /\ Busy(v)' <=> Busy(v)
                            /\ worker'[v].path = worker[v].path
                            /\ Busy(v) => worker[v].path # p
      BY <1>4, <2>1 DEF Busy, Jobs
    <3>3. \A v \in Worker : Busy(v) => worker[v].path \in Path  BY BusyFacts
    <3>4. \A q \in queue' : walked'[q] # None /\ outcome'[q] = "none"
      BY <1>1, <1>3, <1>10 DEF Jobs, Types
    <3>5. \A v \in Worker : Busy(v)' => /\ worker'[v].path \notin queue'
                                        /\ walked'[worker'[v].path] # None
                                        /\ outcome'[worker'[v].path] = "none"
      BY <1>1, <1>3, <1>10, <3>2, <3>3 DEF Jobs
    <3>6. ASSUME NEW q \in Path
          PROVE /\ walked'[q] # None /\ outcome'[q] = "none" =>
                     q \in queue' \/ \E v \in Worker : Busy(v)' /\ worker'[v].path = q
                /\ outcome'[q] # "none" => walked'[q] # None
                /\ outcome'[q] = "cut" => canceled'
      <4>1. CASE q = p  BY <1>3, <1>4, <2>1, <3>1, <4>1
      <4>2. CASE q # p  BY <1>1, <1>3, <1>10, <3>2, <4>2 DEF Jobs
      <4> QED  BY <4>1, <4>2
    <3>7. \A u, v \in Worker : Busy(u)' /\ Busy(v)' /\ worker'[u].path = worker'[v].path => u = v
      BY <3>2 DEF Jobs
    <3> QED  BY <3>4, <3>5, <3>6, <3>7 DEF Jobs
  <2>2. CASE worker' = [worker EXCEPT ![w] = Taken(p, walked[p])] /\ outcome' = outcome
    <3>1. /\ worker'[w].st = "taken" /\ worker'[w].path = p
          /\ \A v \in Worker \ {w} : worker'[v] = worker[v]
      BY <1>4, <2>2, WorkerFacts DEF Types
    <3>2. Busy(w)' /\ \A v \in Worker \ {w} : Busy(v)' <=> Busy(v)  BY <3>1 DEF Busy
    <3>3. \A v \in Worker : Busy(v) => worker[v].path # p  BY <1>4 DEF Jobs
    <3>4. \A q \in queue' : walked'[q] # None /\ outcome'[q] = "none"
      BY <1>1, <1>3, <2>2 DEF Jobs
    <3>5. ASSUME NEW v \in Worker, Busy(v)'
          PROVE /\ worker'[v].path \notin queue' /\ walked'[worker'[v].path] # None
                /\ outcome'[worker'[v].path] = "none"
      <4>1. CASE v = w  BY <1>1, <1>3, <1>4, <2>2, <3>1, <4>1
      <4>2. CASE v # w  BY <1>1, <1>3, <2>2, <3>1, <3>2, <3>5, <4>2 DEF Jobs
      <4> QED  BY <4>1, <4>2
    <3>6. \A u, v \in Worker : Busy(u)' /\ Busy(v)' /\ worker'[u].path = worker'[v].path => u = v
      BY <3>1, <3>2, <3>3 DEF Jobs
    <3>7. ASSUME NEW q \in Path
          PROVE /\ walked'[q] # None /\ outcome'[q] = "none" =>
                     q \in queue' \/ \E v \in Worker : Busy(v)' /\ worker'[v].path = q
                /\ outcome'[q] # "none" => walked'[q] # None
                /\ outcome'[q] = "cut" => canceled'
      <4>1. CASE q = p  BY <1>3, <1>4, <2>2, <3>1, <3>2, <4>1
      <4>2. CASE q # p
        <5>1. \A v \in Worker : Busy(v) => v # w  BY <1>3
        <5>2. \A v \in Worker : Busy(v) => Busy(v)' /\ worker'[v].path = worker[v].path
          BY <3>1, <3>2, <5>1
        <5> QED  BY <1>1, <1>3, <2>2, <4>2, <5>2 DEF Jobs
      <4> QED  BY <4>1, <4>2
    <3> QED  BY <3>4, <3>5, <3>6, <3>7 DEF Jobs
  <2> QED  BY <1>1, <2>1, <2>2
<1>15. Metas'
  <2>1. SUFFICES ASSUME NEW v \in Worker, worker'[v].st # "idle"
                 PROVE WillFit(worker'[v].path, worker'[v].meta)
    BY DEF Metas, Busy, Fits, WillFit
  <2>2. CASE worker'[v] = worker[v]
    <3>1. Fits(worker[v].path, worker[v].meta)  BY <2>1, <2>2 DEF Metas, Busy
    <3> QED  BY <1>3, <2>2, <3>1 DEF Fits, WillFit, run
  <2>3. CASE v = w /\ worker'[v] = Taken(p, walked[p])
    <3>1. worker'[v].path = p /\ worker'[v].meta = walked[p]  BY <1>4, <2>3, WorkerFacts
    <3>2. walked[p] \in seen[p]  BY <1>4 DEF Listing
    <3> QED  BY <1>3, <1>4, <3>1, <3>2 DEF WillFit, run
  <2> QED  BY <1>1, <2>2, <2>3 DEF Types
<1> QED  BY <1>2, <1>6, <1>7, <1>9, <1>12, <1>13, <1>14, <1>15

LEMMA WalkKeeps == ASSUME IInv, WalkSource  PROVE IInv'
<1> USE DEF IInv
<1>1. Types'  BY WalkTyped
<1>2. /\ UNCHANGED <<src, dst, staged, run, worker, outcome, canceled, extras, result, faulty,
                     removed, followed>>
      /\ phase = "walk" /\ phase' = "transfer"
      /\ walked' = [p \in Path |-> IF Listed(p) THEN src[p] ELSE None]
      /\ queue' = {p \in Path : Listed(p)}
      /\ seen' = [p \in Path |-> {src[p]}]
  BY DEF WalkSource, tree
<1>3. /\ \A w \in Worker : ~Busy(w)
      /\ \A p \in Path : walked[p] = None
      /\ dst = before /\ WellFormed(src)
      /\ result = "none" /\ files = {} /\ dirs = {} /\ removed = {}
  BY <1>2 DEF Phases, Types, Listing
<1>4. \A p \in Path : outcome[p] = "none"  BY <1>3 DEF Jobs
<1>5. \A p \in Path : walked'[p] # None => Listed(p) /\ walked'[p] = src[p]  BY <1>2
<1>6. \A p \in Path : Listed(p) => walked'[p] = src[p] /\ src[p] # None  BY <1>2 DEF Listed
<1>7. Phases' /\ Deletes'
  <2>1. phase' = "transfer" /\ result' = "none" /\ files' = {} /\ dirs' = {} /\ removed' = {}
    BY <1>2, <1>3 DEF extras
  <2> QED  BY <2>1 DEF Phases, Deletes
<1>8. Listing'
  <2>1. WellFormed(walked')
    <3>1. ASSUME NEW p \in Path \ Top
          PROVE  /\ walked'[p].kind # "link"
                 /\ walked'[p] # None => walked'[TopOf(p)].kind = "dir"
      <4>1. CASE walked'[p] = None  BY <4>1, EntryFacts
      <4>2. CASE walked'[p] # None
        <5>1. src[p] # None /\ walked'[p] = src[p] /\ TopOf(p) \notin excluded
          BY <1>5, <4>2 DEF Listed
        <5>2. src[p].kind # "link" /\ src[TopOf(p)].kind = "dir"
          BY <1>3, <5>1 DEF WellFormed
        <5>3. TopOf(p) \in Path /\ TopOf(TopOf(p)) = TopOf(p)  BY PathFacts
        <5>4. src[TopOf(p)] # None  BY <5>2, EntryFacts
        <5>5. Listed(TopOf(p))  BY <5>1, <5>3, <5>4 DEF Listed
        <5> QED  BY <1>6, <5>1, <5>2, <5>3, <5>5
      <4> QED  BY <4>1, <4>2
    <3> QED  BY <1>1, <3>1 DEF WellFormed, Types, Tree
  <2>2. \A p \in Path : walked'[p] # None => /\ p \notin excluded /\ TopOf(p) \notin excluded
                                             /\ walked'[p] \in seen'[p]
    BY <1>2, <1>5 DEF Listed
  <2>3. \A p \in Path : src'[p] \in seen'[p]  BY <1>2
  <2> QED  BY <1>2, <2>1, <2>2, <2>3 DEF Listing, run, WellFormed
<1>9. \A w \in Worker : ~Busy(w)'  BY <1>2, <1>3 DEF Busy
<1>10. Jobs'
  <2>1. \A p \in queue' : walked'[p] # None /\ outcome'[p] = "none"  BY <1>2, <1>4, <1>6
  <2>2. \A p \in Path : /\ walked'[p] # None => p \in queue'
                        /\ outcome'[p] = "none"
    BY <1>2, <1>4, <1>5
  <2> QED  BY <1>9, <2>1, <2>2 DEF Jobs
<1>11. Writes' /\ Metas'  BY <1>9 DEF Writes, Metas, Busy
<1>12. Placed'
  <2>1. SUFFICES ASSUME ~followed', NEW p \in Path
                 PROVE /\ Mirror(p)' /\ Untouched(p)' /\ Lockedness(p)'
                       /\ Protected(p)' /\ Unlisted(p)'
    BY DEF Placed
  <2>2. dst'[p] = before'[p] /\ outcome'[p] = "none"  BY <1>2, <1>3, <1>4 DEF run
  <2> QED  BY <2>2 DEF Mirror, Untouched, Lockedness, Protected, Unlisted, Handled
<1>13. FailureHasCause'  BY <1>2, <1>4 DEF FailureHasCause
<1> QED  BY <1>1, <1>7, <1>8, <1>10, <1>11, <1>12, <1>13

(* What a clean job has come to when the workers are done. *)
LEMMA AllHandled ==
  ASSUME IInv, queue = {}, \A w \in Worker : worker[w] = Idle, Clean
  PROVE  \A p \in Path : walked[p] # None => outcome[p] \in Handled
<1>1. SUFFICES ASSUME NEW p \in Path, walked[p] # None  PROVE outcome[p] \in Handled
  OBVIOUS
<1>2. \A w \in Worker : ~Busy(w)  BY WorkerFacts DEF Busy
<1>3. outcome[p] # "none" /\ (outcome[p] = "cut" => canceled)
  BY <1>1, <1>2 DEF IInv, Jobs
<1>4. outcome[p] # "failed" /\ ~canceled  BY <1>1 DEF Clean, Failed
<1>5. outcome[p] \in {"none", "ok", "skipped", "cut", "failed"}
  BY DEF IInv, Types, Outcomes
<1> QED  BY <1>3, <1>4, <1>5 DEF Handled

(* Steps that leave the trees, the workers and what they know alone. *)
LEMMA RestKept ==
  ASSUME IInv, Types', Phases', Deletes',
         UNCHANGED <<src, dst, run, walked, queue, worker, outcome, seen, faulty, followed>>,
         canceled => canceled',
         phase # "walk"
  PROVE  IInv'
<1> USE DEF IInv
<1>1. Listing'
  <2>1. \A p \in Path : src[p] \in seen[p]  BY DEF Listing
  <2> QED  BY <2>1 DEF Listing, run, WellFormed
<1>2. Jobs'  BY DEF Jobs, Busy
<1>3. Writes' /\ Metas'  BY DEF Writes, Metas, Fits, Busy, IsKind
<1>4. Placed'  BY DEF Placed, Mirror, Untouched, Lockedness, Protected, Unlisted, run
<1>5. FailureHasCause'  BY DEF FailureHasCause, InTheWay, run
<1> QED  BY <1>1, <1>2, <1>3, <1>4, <1>5

LEMMA GatherKeeps == ASSUME IInv, Gather  PROVE IInv'
<1> USE DEF IInv
<1>1. /\ UNCHANGED <<src, dst, staged, run, walked, queue, worker, outcome, canceled, seen,
                     faulty, removed, followed>>
      /\ phase = "transfer" /\ queue = {} /\ \A w \in Worker : worker[w] = Idle
  BY DEF Gather, tree
<1>2. Types'  BY GatherTyped
<1>3. result = "none" /\ removed = {}  BY <1>1 DEF Phases, Types
<1>4. \A w \in Worker : ~Busy(w)'  BY <1>1, WorkerFacts DEF Busy
<1>5. Clean => \A p \in Path : walked'[p] # None => outcome'[p] \in Handled
  BY <1>1, AllHandled
<1>6. CASE /\ deleting /\ Clean /\ phase' = "delete" /\ result' = result
           /\ files' = {p \in Path : Extra(p) /\ ~IsKind(p, "dir")}
           /\ dirs' = {p \in Path : Extra(p) /\ IsKind(p, "dir")}
  <2>1. Phases'  BY <1>1, <1>3, <1>4, <1>5, <1>6 DEF Phases, run
  <2>2. \A p \in Path : Extra(p)' <=> Extra(p)  BY <1>1 DEF Extra, run
  <2>3. Deletes'
    <3>1. \A p \in files' \cup dirs' : walked'[p] = None /\ p \notin excluded'
      BY <1>1, <1>6 DEF Extra, run
    <3>2. files' \cap dirs' = {}  BY <1>6
    <3>3. (\A p \in dirs' : dst'[p].kind = "dir") /\ (\A p \in files' : dst'[p].kind # "dir")
      BY <1>1, <1>6 DEF IsKind
    <3>4. \A p \in Path : Extra(p)' => p \in files' \cup dirs'  BY <1>6, <2>2
    <3> QED  BY <1>1, <1>3, <1>6, <3>1, <3>2, <3>3, <3>4 DEF Deletes, IsKind
  <2> QED  BY <1>1, <1>2, <1>6, <2>1, <2>3, RestKept
<1>7. CASE ~(deleting /\ Clean) /\ Return(IF Clean THEN "nil" ELSE "error")
  <2>1. /\ phase' = "done" /\ files' = {} /\ dirs' = {} /\ result' \in {"nil", "error"}
        /\ result' = "nil" => Clean /\ ~deleting
    BY <1>7 DEF Return
  <2>2. Phases'  BY <1>1, <1>3, <1>4, <1>5, <2>1 DEF Phases, run
  <2>3. Deletes'  BY <1>1, <1>3, <2>1 DEF Deletes, run
  <2> QED  BY <1>1, <1>2, <2>1, <2>2, <2>3, RestKept
<1> QED  BY <1>6, <1>7 DEF Gather

LEMMA DeleteEndsKeeps == ASSUME IInv, DeleteEnds  PROVE IInv'
<1> USE DEF IInv
<1>1. /\ UNCHANGED <<src, dst, staged, run, walked, queue, worker, outcome, canceled, seen,
                     faulty, removed, followed>>
      /\ phase = "delete" /\ phase' = "done" /\ files' = {} /\ dirs' = {}
      /\ result' \in {"nil", "error"}
      /\ result' = "nil" => files = {} /\ dirs = {}
  BY DEF DeleteEnds, Return, tree
<1>2. Types'  BY DeleteEndsTyped
<1>3. Phases'  BY <1>1 DEF Phases, run, Busy
<1>4. Deletes'
  <2>1. ASSUME ~followed, result' = "nil"  PROVE NothingElse'
    <3>1. \A p \in Path : Extra(p) => LeftBehind(p)  BY <1>1, <2>1 DEF Deletes
    <3>2. \A p \in Path : /\ Extra(p)' <=> Extra(p)
                          /\ IsKind(p, "dir")' <=> IsKind(p, "dir")
                          /\ Empty(p)' <=> Empty(p)
                          /\ CanChange(p)' <=> CanChange(p)
      BY <1>1 DEF Extra, IsKind, Empty, CanChange, run
    <3> QED  BY <3>1, <3>2 DEF NothingElse, LeftBehind
  <2>2. \A p \in removed : ~followed =>
          /\ walked[p] = None /\ p \notin excluded
          /\ \A q \in Below(p) : before[q] # None => q \notin excluded
    BY DEF Deletes
  <2> QED  BY <1>1, <2>1, <2>2 DEF Deletes, run
<1> QED  BY <1>1, <1>2, <1>3, <1>4, RestKept

LEMMA CancelKeeps == ASSUME IInv, Cancel  PROVE IInv'
<1> USE DEF IInv
<1>1. /\ UNCHANGED <<src, dst, staged, run, walked, queue, worker, outcome, phase, extras,
                     result, seen, faulty, removed, followed>>
      /\ canceled' = TRUE
  BY DEF Cancel, tree
<1>2. Types'  BY CancelTyped
<1>3. Phases'  BY <1>1 DEF Phases, run, Busy, extras, WellFormed
<1>4. Deletes'
  BY <1>1 DEF Deletes, IsKind, Extra, LeftBehind, Empty, CanChange, NothingElse, run, extras
<1>5. Listing'  BY <1>1 DEF Listing, run, WellFormed
<1>6. Jobs'  BY <1>1 DEF Jobs, Busy
<1>7. Writes' /\ Metas'  BY <1>1 DEF Writes, Metas, Fits, Busy, IsKind
<1>8. Placed'  BY <1>1 DEF Placed, Mirror, Untouched, Lockedness, Protected, Unlisted, run
<1>9. FailureHasCause'  BY <1>1 DEF FailureHasCause, InTheWay, run
<1> QED  BY <1>2, <1>3, <1>4, <1>5, <1>6, <1>7, <1>8, <1>9

LEMMA ChangeKeeps == ASSUME IInv, NEW p \in Path, ChangeSource(p)  PROVE IInv'
<1> USE DEF IInv
<1>1. /\ UNCHANGED <<dst, staged, run, walked, queue, worker, outcome, canceled, phase, extras,
                     result, faulty, removed, followed>>
      /\ phase = "transfer"
      /\ seen' = [q \in Path |-> seen[q] \cup {src'[q]}]
  BY DEF ChangeSource
<1>2. Types'  BY ChangeTyped
<1>3. \A q \in Path : seen[q] \subseteq seen'[q] /\ src'[q] \in seen'[q]  BY <1>1
<1>4. Phases'  BY <1>1 DEF Phases, run, Busy, extras
<1>5. Deletes'
  BY <1>1 DEF Deletes, IsKind, Extra, LeftBehind, Empty, CanChange, NothingElse, run, extras
<1>6. Listing'
  <2>1. PICK e \in Changed(p) :
          src' = [q \in Path |-> IF q = p THEN e
                                 ELSE IF q \in Below(p) /\ e.kind # "dir" THEN None ELSE src[q]]
    BY DEF ChangeSource
  <2>2. p \in Top \/ src[TopOf(p)].kind = "dir"  BY DEF ChangeSource
  <2>3. ASSUME NEW q \in Path \ Top
        PROVE  src'[q].kind # "link" /\ (src'[q] # None => src'[TopOf(q)].kind = "dir")
    <3>1. src[q].kind # "link" /\ (src[q] # None => src[TopOf(q)].kind = "dir")
      BY DEF Listing, WellFormed
    <3>2. TopOf(q) \in Top /\ TopOf(q) \in Path /\ TopOf(q) # q  BY PathFacts
    <3>3. CASE q = p
      <4>1. src'[q] = e /\ e.kind # "link"  BY <2>1, <3>3, ChangedTyped
      <4>2. TopOf(q) \notin Below(p)  BY <3>2, BelowFacts
      <4>3. src'[TopOf(q)] = src[TopOf(q)]  BY <2>1, <3>2, <3>3, <4>2
      <4> QED  BY <2>2, <3>3, <4>1, <4>3
    <3>4. CASE q # p /\ TopOf(q) = p
      <4>1. q \in Below(p) /\ src'[p] = e  BY <2>1, <3>4, BelowFacts
      <4>2. CASE e.kind # "dir"  BY <2>1, <3>4, <4>1, <4>2, EntryFacts
      <4>3. CASE e.kind = "dir"  BY <2>1, <3>1, <3>4, <4>1, <4>3
      <4> QED  BY <4>2, <4>3
    <3>5. CASE q # p /\ TopOf(q) # p
      <4>1. q \notin Below(p) /\ TopOf(q) \notin Below(p)  BY <3>2, <3>5, BelowFacts
      <4>2. src'[q] = src[q] /\ src'[TopOf(q)] = src[TopOf(q)]
        BY <2>1, <3>2, <3>5, <4>1
      <4> QED  BY <3>1, <4>2
    <3> QED  BY <3>3, <3>4, <3>5
  <2>4. WellFormed(src)'  BY <1>2, <2>3 DEF WellFormed, Types, Tree
  <2> QED  BY <1>1, <1>3, <2>4 DEF Listing, run, WellFormed
<1>7. Jobs'  BY <1>1 DEF Jobs, Busy
<1>8. Writes' /\ Metas'
  <2>1. Writes'  BY <1>1 DEF Writes, IsKind
  <2>2. ASSUME NEW w \in Worker, Busy(w)  PROVE Fits(worker[w].path, worker[w].meta)'
    <3>1. worker[w].path \in Path /\ Fits(worker[w].path, worker[w].meta)
      BY <2>2, BusyFacts DEF Metas
    <3> QED  BY <1>1, <1>3, <3>1 DEF Fits
  <2> QED  BY <1>1, <2>1, <2>2 DEF Metas, Busy
<1>9. Placed'
  BY <1>1, <1>3 DEF Placed, Mirror, Untouched, Lockedness, Protected, Unlisted, run
<1>10. FailureHasCause'
  <2>1. SUFFICES ASSUME ~followed', NEW q \in Path, outcome'[q] = "failed"
                 PROVE Cause(q)'
    BY DEF FailureHasCause, Cause
  <2>2. Cause(q)  BY <1>1, <2>1 DEF FailureHasCause, Cause
  <2>3. walked[q] \in seen[q]  BY <1>1, <2>1 DEF Jobs, Listing
  <2>4. seen[q] # {walked[q]} => seen'[q] # {walked'[q]}  BY <1>1, <1>3, <2>3
  <2>5. InTheWay(q) => InTheWay(q)'  BY <1>1 DEF InTheWay, run
  <2> QED  BY <1>1, <2>2, <2>4, <2>5 DEF Cause
<1> QED  BY <1>2, <1>4, <1>5, <1>6, <1>7, <1>8, <1>9, <1>10

(* --delete takes away p, which the walk did not list. *)
LEMMA RemovalPlaced ==
  ASSUME IInv, ~followed, NEW p \in Path, walked[p] = None, p \notin excluded,
         dst'[p] = None, \A q \in Path \ {p} : dst'[q] = dst[q],
         UNCHANGED <<run, walked, outcome, seen>>
  PROVE  Placed'
<1> USE DEF IInv
<1>1. SUFFICES ASSUME NEW q \in Path
               PROVE /\ Mirror(q)' /\ Untouched(q)' /\ Lockedness(q)'
                     /\ Protected(q)' /\ Unlisted(q)'
  BY DEF Placed
<1>2. Mirror(q) /\ Untouched(q) /\ Lockedness(q) /\ Protected(q) /\ Unlisted(q)
  BY DEF Placed
<1>3. CASE q = p
  <2>1. outcome[p] = "none"  BY DEF Jobs
  <2>2. None # Dir(ReadOnly)  BY EntryFacts
  <2> QED  BY <1>3, <2>1, <2>2
           DEF Mirror, Untouched, Lockedness, Protected, Unlisted, Handled, run
<1>4. CASE q # p
  <2>1. dst'[q] = dst[q]  BY <1>4
  <2> QED  BY <1>2, <2>1 DEF Mirror, Untouched, Lockedness, Protected, Unlisted, run
<1> QED  BY <1>3, <1>4

(* What else such a step keeps. *)
LEMMA RemovalKeeps ==
  ASSUME IInv, Types', Phases', Deletes', Placed', phase = "delete",
         UNCHANGED <<src, run, walked, queue, worker, outcome, canceled, seen, faulty>>,
         followed => followed'
  PROVE  IInv'
<1> USE DEF IInv
<1>1. Listing'  BY DEF Listing, run, WellFormed
<1>2. Jobs'  BY DEF Jobs, Busy
<1>3. Writes' /\ Metas'
  <2>1. \A w \in Worker : ~Busy(w)'  BY DEF Phases, Busy
  <2> QED  BY <2>1 DEF Writes, Metas, Busy
<1>4. FailureHasCause'  BY DEF FailureHasCause, InTheWay, run
<1> QED  BY <1>1, <1>2, <1>3, <1>4

(* What it removes protected nothing: it is no directory, or an empty one. *)
LEMMA RemovedFacts ==
  ASSUME IInv, ~followed, NEW p \in Path, walked[p] = None, ~IsKind(p, "dir") \/ Empty(p),
         ~IsKind(p, "none"), NEW q \in Below(p), before[q] # None
  PROVE  q \notin excluded
<1> USE DEF IInv
<1>1. SUFFICES ASSUME q \in excluded PROVE FALSE  OBVIOUS
<1>2. q \in Path /\ q \notin Top /\ TopOf(q) = p /\ p \in Top  BY BelowFacts, PathFacts
<1>3. walked[p].kind # "link"  BY EntryFacts
<1>4. dst[q] = before[q]  BY <1>1, <1>2, <1>3 DEF Placed, Protected
<1>5. dst[q] \in Entry /\ dst[p] \in Entry  BY <1>2 DEF Types, Tree
<1>6. ~IsKind(q, "none")  BY <1>4, <1>5, EntryFacts DEF IsKind
<1>7. ~IsKind(p, "dir")  BY <1>6 DEF Empty
<1>8. dst[p] = before[p]
  <2>1. dst[p] # None  BY EntryFacts DEF IsKind
  <2> QED  BY <1>2, <2>1 DEF Placed, Unlisted
<1>9. before[p].kind = "dir"  BY <1>2 DEF Listing, WellFormed
<1> QED  BY <1>7, <1>8, <1>9 DEF IsKind

LEMMA RemoveFileKeeps == ASSUME IInv, RemoveFile  PROVE IInv'
<1> USE DEF IInv
<1>1. /\ UNCHANGED <<src, staged, run, walked, queue, worker, outcome, canceled, seen, faulty>>
      /\ phase = "delete" /\ ~canceled
  BY DEF RemoveFile
<1>2. Types'  BY RemoveFileTyped
<1>3. PICK p \in First(files) :
        /\ \/ CanRemove(Confine(p)) /\ RemovePath(Confine(p)) /\ files' = files \ {p}
              /\ UNCHANGED <<dirs, phase, result>>
           \/ ~CanRemove(Confine(p)) /\ Return("error") /\ UNCHANGED <<dst, removed>>
        /\ followed' = (followed \/ Confine(p) # p)
  BY DEF RemoveFile
<1>4. p \in files /\ p \in Path /\ walked[p] = None /\ p \notin excluded
  BY <1>3 DEF First, Types, Deletes
<1>5. /\ followed => followed'
      /\ ~followed' => ~followed /\ Confine(p) = p
  BY <1>3 DEF Types
<1>6. deleting /\ (\A q \in Path : walked[q] # None => outcome[q] \in Handled) /\ result = "none"
  BY <1>1 DEF Phases, Types
<1>7. CASE CanRemove(Confine(p)) /\ RemovePath(Confine(p)) /\ files' = files \ {p}
           /\ UNCHANGED <<dirs, phase, result>>
  <2>1. Phases'  BY <1>1, <1>6, <1>7 DEF Phases, run, Busy
  <2>2. ASSUME ~followed'
        PROVE  dst'[p] = None /\ (\A q \in Path \ {p} : dst'[q] = dst[q])
               /\ removed' = removed \cup {p}
    BY <1>4, <1>5, <1>7, <2>2, RemovesTyped DEF RemovePath
  <2>3. Placed'
    <3>1. SUFFICES ASSUME ~followed' PROVE Placed'  BY DEF Placed
    <3> QED  BY <1>1, <1>4, <1>5, <2>2, <3>1, RemovalPlaced
  <2>4. Deletes'
    <3>1. \A q \in files' \cup dirs' : walked'[q] = None /\ q \notin excluded'
      BY <1>1, <1>7 DEF Deletes, run
    <3>2. files' \cap dirs' = {}  BY <1>7 DEF Deletes
    <3>3. result' # "nil"  BY <1>6, <1>7
    <3>4. ASSUME ~followed'
          PROVE  /\ (\A q \in dirs' : IsKind(q, "dir")') /\ (\A q \in files' : ~IsKind(q, "dir")')
                 /\ \A q \in removed' : /\ walked'[q] = None /\ q \notin excluded'
                                        /\ \A m \in Below(q) : before'[m] # None => m \notin excluded'
                 /\ \A q \in Path : Extra(q)' => q \in files' \cup dirs'
      <4>1. ~followed /\ Confine(p) = p  BY <1>5, <3>4
      <4>2. p \notin dirs /\ files \subseteq Path /\ dirs \subseteq Path
        BY <1>4 DEF Deletes, Types
      <4>3. (\A q \in dirs' : IsKind(q, "dir")') /\ (\A q \in files' : ~IsKind(q, "dir")')
        BY <1>7, <2>2, <3>4, <4>1, <4>2 DEF Deletes, IsKind
      <4>4. \A m \in Below(p) : before[m] # None => m \notin excluded
        BY <1>4, <1>7, <4>1, RemovedFacts DEF CanRemove
      <4>5. \A q \in removed : /\ walked[q] = None /\ q \notin excluded
                               /\ \A m \in Below(q) : before[m] # None => m \notin excluded
        BY <4>1 DEF Deletes
      <4>6. ASSUME NEW q \in Path, Extra(q)'  PROVE q \in files' \cup dirs'
        <5>1. dst'[q] # None /\ walked[q] = None /\ q \notin excluded
          BY <1>1, <4>6 DEF Extra, run
        <5>2. q # p /\ dst'[q] = dst[q]  BY <2>2, <3>4, <5>1
        <5>3. Extra(q)  BY <5>1, <5>2 DEF Extra
        <5>4. q \in files \cup dirs  BY <1>1, <1>4, <4>1, <5>3 DEF Deletes, LeftBehind
        <5> QED  BY <1>7, <5>2, <5>4
      <4> QED  BY <1>1, <1>4, <2>2, <3>4, <4>3, <4>4, <4>5, <4>6 DEF run
    <3> QED  BY <3>1, <3>2, <3>3, <3>4 DEF Deletes
  <2> QED  BY <1>1, <1>2, <1>5, <2>1, <2>3, <2>4, RemovalKeeps
<1>8. CASE Return("error") /\ UNCHANGED <<dst, removed>>
  <2>1. phase' = "done" /\ result' = "error" /\ files' = {} /\ dirs' = {}
    BY <1>8 DEF Return
  <2>2. Phases'  BY <1>1, <1>6, <1>8, <2>1 DEF Phases, run, Busy
  <2>3. Deletes'
    <3>1. ~followed' => \A q \in removed : /\ walked[q] = None /\ q \notin excluded
                           /\ \A m \in Below(q) : before[m] # None => m \notin excluded
      BY <1>5 DEF Deletes
    <3> QED  BY <1>1, <1>8, <2>1, <3>1 DEF Deletes, run
  <2>4. Placed'
    BY <1>1, <1>5, <1>8 DEF Placed, Mirror, Untouched, Lockedness, Protected, Unlisted, run
  <2> QED  BY <1>1, <1>2, <1>5, <2>2, <2>3, <2>4, RemovalKeeps
<1> QED  BY <1>3, <1>7, <1>8

(* A directory left behind stays so when another one, d, is removed or let go. *)
LEMMA StaysBehind ==
  ASSUME IInv, ~followed, NEW d \in dirs, NEW q \in Path \ {d}, Extra(q), LeftBehind(q),
         \/ dst' = dst
         \/ Empty(d) /\ \A m \in Path \ {d} : dst'[m] = dst[m],
         staged' = staged, files' = files, dirs' = dirs \ {d}
  PROVE  LeftBehind(q)'
<1> USE DEF IInv
<1>1. d \in Path /\ IsKind(d, "dir")  BY DEF Types, Deletes
<1>2. files = {} /\ IsKind(q, "dir") /\ dirs \cap Below(q) = {} /\ (~Empty(q) \/ ~CanChange(q))
  BY DEF LeftBehind
<1>3. dst'[q] = dst[q]  OBVIOUS
<1>4. ~Empty(q)' \/ ~CanChange(q)'
  <2>1. CASE q \in Top
    <3>1. CanChange(q)  BY <2>1, PathFacts DEF CanChange
    <3>2. q \in staged \/ \E m \in Below(q) : ~IsKind(m, "none")
      BY <1>2, <3>1 DEF Empty
    <3>3. CASE q \in staged  BY <3>3 DEF Empty
    <3>4. CASE \E m \in Below(q) : ~IsKind(m, "none")
      <4>1. PICK m \in Below(q) : ~IsKind(m, "none")  BY <3>4
      <4>2. m \in Path /\ m # d  BY <1>2, <4>1, BelowFacts
      <4>3. dst'[m] = dst[m]  BY <4>2
      <4> QED  BY <4>1, <4>3 DEF Empty, IsKind
    <3> QED  BY <3>2, <3>3, <3>4
  <2>2. CASE q \notin Top
    <3>1. Below(q) = {}
      <4>1. \A m \in Below(q) : FALSE  BY <2>2, BelowFacts, PathFacts
      <4> QED  BY <4>1
    <3>2. Empty(q)  BY <2>2, <3>1 DEF Empty, Types
    <3>3. ~CanChange(q)  BY <1>2, <3>2
    <3>4. Len(q) # 1 /\ dst[TopOf(q)] # Dir(Writable) /\ TopOf(q) \in Path
      BY <3>3, PathFacts DEF CanChange
    <3>5. dst'[TopOf(q)] = dst[TopOf(q)]
      <4>1. CASE Empty(d) /\ \A m \in Path \ {d} : dst'[m] = dst[m]
        <5>1. dst[q] \in Entry /\ dst[q] # None  BY DEF Extra, Types, Tree
        <5>2. ~IsKind(q, "none")  BY <5>1, EntryFacts DEF IsKind
        <5>3. q \notin Below(d)  BY <4>1, <5>2 DEF Empty
        <5>4. TopOf(q) # d  BY <1>1, <2>2, <5>3, BelowFacts
        <5> QED  BY <3>4, <4>1, <5>4
      <4> QED  BY <4>1
    <3> QED  BY <3>4, <3>5 DEF CanChange
  <2> QED  BY <2>1, <2>2
<1> QED  BY <1>2, <1>3, <1>4 DEF LeftBehind, IsKind

LEMMA RemoveDirKeeps == ASSUME IInv, RemoveDir  PROVE IInv'
<1> USE DEF IInv
<1>1. /\ UNCHANGED <<src, staged, run, walked, queue, worker, outcome, canceled, phase, files,
                     result, seen, faulty>>
      /\ phase = "delete" /\ ~canceled /\ files = {}
  BY DEF RemoveDir
<1>2. Types'  BY RemoveDirTyped
<1>3. PICK p \in Deepest(dirs) :
        /\ \/ CanRemove(Confine(p)) /\ RemovePath(Confine(p))
           \/ ~CanRemove(Confine(p)) /\ UNCHANGED <<dst, removed>>
        /\ dirs' = dirs \ {p}
        /\ followed' = (followed \/ Confine(p) # p)
  BY DEF RemoveDir
<1>4. p \in dirs /\ p \in Path /\ walked[p] = None /\ p \notin excluded
  BY <1>3 DEF Deepest, Types, Deletes
<1>5. /\ followed => followed'
      /\ ~followed' => ~followed /\ Confine(p) = p /\ IsKind(p, "dir")
  BY <1>3, <1>4 DEF Types, Deletes
<1>6. deleting /\ (\A q \in Path : walked[q] # None => outcome[q] \in Handled) /\ result = "none"
  BY <1>1 DEF Phases, Types
<1>7. Phases'  BY <1>1, <1>3, <1>6 DEF Phases, run, Busy
<1>8. ASSUME ~followed'
      PROVE  \/ /\ CanRemove(p) /\ Empty(p)
                /\ dst'[p] = None /\ (\A q \in Path \ {p} : dst'[q] = dst[q])
                /\ removed' = removed \cup {p}
             \/ ~CanRemove(p) /\ UNCHANGED <<dst, removed>>
  <2>1. Confine(p) = p /\ IsKind(p, "dir")  BY <1>5, <1>8
  <2>2. CASE CanRemove(p) /\ RemovePath(p)
    <3>1. dst'[p] = None /\ (\A q \in Path \ {p} : dst'[q] = dst[q])
      BY <1>4, <2>2, RemovesTyped
    <3> QED  BY <2>1, <2>2, <3>1 DEF RemovePath, CanRemove
  <2> QED  BY <1>3, <2>1, <2>2
<1>9. Placed'
  <2>1. SUFFICES ASSUME ~followed' PROVE Placed'  BY DEF Placed
  <2>2. CASE dst' = dst
    BY <1>1, <1>5, <2>1, <2>2 DEF Placed, Mirror, Untouched, Lockedness, Protected, Unlisted, run
  <2>3. CASE dst'[p] = None /\ (\A q \in Path \ {p} : dst'[q] = dst[q])
    BY <1>1, <1>4, <1>5, <2>1, <2>3, RemovalPlaced
  <2> QED  BY <1>8, <2>1, <2>2, <2>3
<1>10. Deletes'
  <2>1. \A q \in files' \cup dirs' : walked'[q] = None /\ q \notin excluded'
    BY <1>1, <1>3 DEF Deletes, run
  <2>2. files' = {} /\ result' # "nil"  BY <1>1, <1>6
  <2>3. ASSUME ~followed'
        PROVE  /\ \A q \in dirs' : IsKind(q, "dir")'
               /\ \A q \in removed' : /\ walked'[q] = None /\ q \notin excluded'
                                      /\ \A m \in Below(q) : before'[m] # None => m \notin excluded'
               /\ \A q \in Path : Extra(q)' => q \in files' \cup dirs' \/ LeftBehind(q)'
    <3>1. ~followed /\ Confine(p) = p /\ IsKind(p, "dir")  BY <1>5, <2>3
    <3>2. \A q \in dirs' : q \in Path \ {p} /\ dst'[q] = dst[q]
      BY <1>3, <1>8, <2>3 DEF Types
    <3>3. \A q \in dirs' : IsKind(q, "dir")'
      BY <1>3, <3>1, <3>2 DEF Deletes, IsKind
    <3>4. \A q \in removed : /\ walked[q] = None /\ q \notin excluded
                             /\ \A m \in Below(q) : before[m] # None => m \notin excluded
      BY <3>1 DEF Deletes
    <3>5. CanRemove(p) => \A m \in Below(p) : before[m] # None => m \notin excluded
      BY <1>4, <3>1, RemovedFacts DEF CanRemove
    <3>6. removed' = removed \/ (CanRemove(p) /\ removed' = removed \cup {p})
      BY <1>8, <2>3
    <3>7. \A q \in removed' : /\ walked'[q] = None /\ q \notin excluded'
                              /\ \A m \in Below(q) : before'[m] # None => m \notin excluded'
      BY <1>1, <1>4, <3>4, <3>5, <3>6 DEF run
    <3>8. ASSUME NEW q \in Path, Extra(q)'  PROVE q \in dirs' \/ LeftBehind(q)'
      <4>1. dst'[q] # None /\ walked[q] = None /\ q \notin excluded
        BY <1>1, <3>8 DEF Extra, run
      <4>2. CASE q # p
        <5>1. dst'[q] = dst[q]  BY <1>8, <2>3, <4>2
        <5>2. Extra(q)  BY <4>1, <5>1 DEF Extra
        <5>3. q \in dirs \/ LeftBehind(q)  BY <1>1, <3>1, <5>2 DEF Deletes
        <5>4. CASE q \in dirs  BY <1>3, <4>2, <5>4
        <5>5. CASE LeftBehind(q)
          <6>1. \/ dst' = dst
                \/ Empty(p) /\ \A m \in Path \ {p} : dst'[m] = dst[m]
            BY <1>8, <2>3
          <6> QED  BY <1>1, <1>3, <1>4, <3>1, <4>2, <5>2, <5>5, <6>1, StaysBehind
        <5> QED  BY <5>3, <5>4, <5>5
      <4>3. CASE q = p
        <5>1. ~CanRemove(p) /\ dst' = dst  BY <1>8, <2>3, <4>1, <4>3
        <5>2. ~CanChange(p) \/ ~Empty(p)
          <6>1. p # Nil /\ ~IsKind(p, "none")  BY <1>4, <3>1, ValueAssumption DEF IsKind
          <6> QED  BY <5>1, <6>1 DEF CanRemove
        <5>3. dirs' \cap Below(p) = {}
          <6>1. SUFFICES ASSUME NEW m \in dirs, m \in Below(p) PROVE FALSE  BY <1>3
          <6>2. m \in Path /\ m \notin Top /\ p \in Top  BY <1>4, <6>1, BelowFacts, PathFacts
          <6>3. Len(m) = 2 /\ Len(p) = 1  BY <6>2, PathFacts
          <6>4. Len(m) <= Len(p)  BY <1>3, <6>1 DEF Deepest
          <6> QED  BY <6>3, <6>4
        <5>4. IsKind(p, "dir")' /\ (Empty(p)' <=> Empty(p)) /\ (CanChange(p)' <=> CanChange(p))
          BY <1>1, <3>1, <5>1 DEF IsKind, Empty, CanChange
        <5> QED  BY <2>2, <4>3, <5>2, <5>3, <5>4 DEF LeftBehind
      <4> QED  BY <4>2, <4>3
    <3> QED  BY <3>3, <3>7, <3>8
  <2> QED  BY <2>1, <2>2, <2>3 DEF Deletes
<1> QED  BY <1>1, <1>2, <1>5, <1>7, <1>9, <1>10, RemovalKeeps
-----------------------------------------------------------------------------
LEMMA InitHolds == ASSUME Init PROVE IInv
<1>1. PICK d \in DstTrees : dst = d.tree /\ staged = d.staged /\ before = d.tree
  BY DEF Init
<1>2. WellFormed(src) /\ WellFormed(before) /\ dst = before
      /\ staged \subseteq {p \in Top : dst[p].kind = "dir"}
  BY <1>1, TreeAssumption DEF Init
<1>3. walked \in Tree /\ \A p \in Path : walked[p] = None  BY EntryFacts DEF Init, Tree
<1>4. worker \in [Worker -> WorkerState] /\ \A w \in Worker : ~Busy(w)
  BY WorkerFacts DEF Init, Busy
<1>5. outcome \in [Path -> Outcomes] /\ \A p \in Path : outcome[p] = "none"
  BY DEF Init, Outcomes
<1>6. Types
  <2>1. src \in Tree /\ dst \in Tree /\ before \in Tree  BY <1>2 DEF WellFormed, Tree
  <2>2. seen \in [Path -> SUBSET Entry] /\ troubles \in 0..MaxTroubles
    BY ValueAssumption DEF Init
  <2>3. staged \subseteq {p \in Top : IsKind(p, "dir")}  BY <1>2 DEF IsKind
  <2> QED  BY <1>3, <1>4, <1>5, <2>1, <2>2, <2>3 DEF Types, Init
<1>7. Phases  BY <1>2, <1>4 DEF Init, Phases
<1>8. Listing
  <2>1. WellFormed(walked)  BY <1>3, EntryFacts DEF WellFormed, Tree
  <2> QED  BY <1>2, <1>3, <2>1 DEF Init, Listing
<1>9. Jobs  BY <1>3, <1>4, <1>5 DEF Init, Jobs
<1>10. Writes /\ Metas  BY <1>4 DEF Writes, Metas, Busy
<1>11. Placed
  BY <1>2, <1>3, <1>5 DEF Placed, Mirror, Untouched, Lockedness, Protected, Unlisted, Handled
<1>12. Deletes  BY DEF Init, Deletes
<1>13. FailureHasCause  BY <1>5 DEF FailureHasCause
<1> QED  BY <1>6, <1>7, <1>8, <1>9, <1>10, <1>11, <1>12, <1>13 DEF IInv

LEMMA Stutters == ASSUME IInv, UNCHANGED vars  PROVE IInv'
<1> USE DEF IInv, vars, tree, run, extras
<1>1. Types'  BY DEF Types, IsKind
<1>2. Phases' /\ Listing'  BY DEF Phases, Listing, WellFormed, Busy
<1>3. Jobs' /\ Writes' /\ Metas'  BY DEF Jobs, Writes, Metas, Fits, Busy, IsKind
<1>4. Placed'  BY DEF Placed, Mirror, Untouched, Lockedness, Protected, Unlisted
<1>5. Deletes'
  BY DEF Deletes, IsKind, Extra, LeftBehind, Empty, CanChange, NothingElse
<1>6. FailureHasCause'  BY DEF FailureHasCause, InTheWay
<1> QED  BY <1>1, <1>2, <1>3, <1>4, <1>5, <1>6

(* The invariant holds throughout a run. *)
THEOREM Inductive == Spec => []IInv
<1>1. Init => IInv  BY InitHolds
<1>2. IInv /\ [Next]_vars => IInv'
  <2>1. SUFFICES ASSUME IInv, [Next]_vars PROVE IInv'  OBVIOUS
  <2>2. CASE WalkSource  BY <2>1, <2>2, WalkKeeps
  <2>3. CASE Gather  BY <2>1, <2>3, GatherKeeps
  <2>4. CASE RemoveFile  BY <2>1, <2>4, RemoveFileKeeps
  <2>5. CASE RemoveDir  BY <2>1, <2>5, RemoveDirKeeps
  <2>6. CASE DeleteEnds  BY <2>1, <2>6, DeleteEndsKeeps
  <2>7. CASE Cancel  BY <2>1, <2>7, CancelKeeps
  <2>8. ASSUME NEW w \in Worker, WorkerStep(w) \/ IOError(w)  PROVE IInv'
    <3>1. CASE Take(w)  BY <2>1, <3>1, TakeKeeps
    <3>2. CASE MakeDir(w)  BY <2>1, <3>2, MakeDirKeeps
    <3>3. CASE MakeLink(w)  BY <2>1, <3>3, MakeLinkKeeps
    <3>4. CASE Begin(w)  BY <2>1, <3>4, BeginKeeps
    <3>5. CASE Install(w)  BY <2>1, <3>5, InstallKeeps
    <3>6. CASE IOError(w)  BY <2>1, <3>6, IOErrorKeeps
    <3> QED  BY <2>8, <3>1, <3>2, <3>3, <3>4, <3>5, <3>6 DEF WorkerStep
  <2>9. ASSUME NEW p \in Path, ChangeSource(p)  PROVE IInv'
    BY <2>1, <2>9, ChangeKeeps
  <2>10. CASE UNCHANGED vars  BY <2>1, <2>10, Stutters
  <2> QED  BY <2>1, <2>2, <2>3, <2>4, <2>5, <2>6, <2>7, <2>8, <2>9, <2>10 DEF Next
<1> QED  BY <1>1, <1>2, PTL DEF Spec

(* The types, and that staging directories lie in directories (Run, BeginWrite). *)
THEOREM TypeCorrect == Spec => []TypeOK
<1>1. IInv => TypeOK  BY DEF IInv, Types, Phases, TypeOK, Tree
<1> QED  BY <1>1, Inductive, PTL

(* --delete runs after a clean job only, and takes neither what the walk listed
   nor what is excluded (the gate in Run, deleteExtras). *)
THEOREM CleanDeletes == Spec => []DeletesOnlyAfterCleanJob
<1>1. ASSUME IInv PROVE DeletesOnlyAfterCleanJob
  <2>1. SUFFICES ASSUME removed # {}, ~followed
        PROVE /\ deleting
              /\ \A p \in Path : walked[p] # None => outcome[p] \in {"ok", "skipped"}
              /\ \A p \in removed : /\ walked[p] = None /\ p \notin excluded
                                    /\ \A q \in Below(p) : before[q] # None => q \notin excluded
    BY DEF DeletesOnlyAfterCleanJob
  <2>2. deleting /\ \A p \in Path : walked[p] # None => outcome[p] \in Handled
    BY <1>1, <2>1 DEF IInv, Phases
  <2>3. \A p \in removed : /\ walked[p] = None /\ p \notin excluded
                           /\ \A q \in Below(p) : before[q] # None => q \notin excluded
    BY <1>1, <2>1 DEF IInv, Deletes
  <2> QED  BY <2>2, <2>3 DEF Handled
<1> QED  BY <1>1, Inductive, PTL

(* A run that returns nil has made a mirror, whatever order its workers took
   (Run, tryTransfer, deleteExtras). *)
THEOREM MirrorsOnNil == Spec => []NilMeansMirror
<1>1. ASSUME IInv PROVE NilMeansMirror
  <2>1. SUFFICES ASSUME result = "nil", ~followed
                 PROVE  Mirrored /\ (deleting => NothingElse)
    BY DEF NilMeansMirror
  <2>2. \A p \in Path : walked[p] # None => outcome[p] \in Handled
    BY <1>1, <2>1 DEF IInv, Phases
  <2>3. \A p \in Path : Mirror(p)  BY <1>1, <2>1 DEF IInv, Placed
  <2>4. Mirrored  BY <2>2, <2>3 DEF Mirrored, Mirror
  <2>5. deleting => NothingElse  BY <1>1, <2>1 DEF IInv, Deletes
  <2> QED  BY <2>4, <2>5
<1> QED  BY <1>1, Inductive, PTL

(* No path fails because of how fast other workers were (tryTransfer). *)
THEOREM FailuresHaveCauses == Spec => []FailureHasCause
<1>1. IInv => FailureHasCause  BY DEF IInv
<1> QED  BY <1>1, Inductive, PTL
=============================================================================
