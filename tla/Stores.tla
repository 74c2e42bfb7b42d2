-------------------------------- MODULE Stores --------------------------------
(***************************************************************************)
(* A file in a store that other programs and other runs write to as well:  *)
(* transport/s3 (objects, each with a sidecar that holds its signature)    *)
(* and transport/nfs (files, replaced by RENAME).  Each call to the store  *)
(* is a step of its own; the store may change between any two.             *)
(*                                                                         *)
(* A writer is one copy of the engine into the store, from GetSignature to *)
(* Commit, of a version of the file of its own.  A signature, an ETag and  *)
(* a digest stand for the content they are of.  The staging file of a      *)
(* session is private to it (a local temporary file for S3, a unique name  *)
(* for NFS); it is the prefix of blocks written so far.                    *)
(***************************************************************************)
EXTENDS Naturals, Sequences

CONSTANTS Writer,
          Wanted,           \* the content each writer is to install
          Content,          \* what the path may hold at first, or get from others
          Ticks,            \* bound: mtimes of the NFS server's clock
          MaxTroubles,      \* bound: errors, crashes, other programs' writes
          NoObject          \* nothing at the path (and the signature of that)

Block  == UNION {{c[i] : i \in DOMAIN c} : c \in Content}
Object == [data: Content, tag: Content \cup {NoObject}, mtime: 0..Ticks]

\* A content is the sequence of its blocks; "none" is no content and no object.
ASSUME ContentAssumption == /\ Content \subseteq Seq(Block)
                            /\ Wanted \in [Writer -> Content]
                            /\ NoObject \notin Seq(Block) \cup Object
                            /\ Ticks \in Nat \ {0} /\ MaxTroubles \in Nat

VARIABLES
    kind,       \* "s3" or "nfs"
    object,     \* what is at the path: content, digest in its metadata, mtime
    sidecar,    \* S3: the signature kept beside it
    removing,   \* S3: how many Removes have yet to delete the sidecar
    pc,         \* per writer, its end included
    sig,        \* GetSignature's result
    old,        \* the session's old file: content by ETag (S3) or size, mtime (NFS)
    hint,       \* the size GetSignature's Stat found
    body,       \* a body being read (S3), or what an open file holds (NFS)
    stage,
    troubles,
    put,        \* history: writers that replaced the object
    disturbed,  \* history: writers that met an error or a change of the object
    seen        \* history: the contents during a writer's GetSignature

store   == <<object, sidecar, removing>>
session == <<sig, hint, old, body, stage>>
history == <<put, disturbed, seen>>
vars    == <<kind, store, pc, session, troubles, history>>

\* The objects with content c: NFS keeps an mtime by the server's clock.
Kept(c, tag) == [data: {c}, tag: {tag}, mtime: IF kind = "s3" THEN {0} ELSE 1..Ticks]
DataOf(o) == IF o = NoObject THEN NoObject ELSE o.data
Over == {"ok", "skipped", "failed", "crashed"}
Active(w) == pc[w] \notin Over \cup {"idle"}
Goto(w, l) == pc' = [pc EXCEPT ![w] = l]

Trouble == troubles < MaxTroubles /\ troubles' = troubles + 1
\* A call of w returns an error.
Errs(w) == Trouble /\ disturbed' = disturbed \cup {w} /\ UNCHANGED <<put, seen>>
Smooth  == UNCHANGED <<troubles, history>>

\* The object becomes o; who (or nobody of the writers) did it.
Becomes(o, who) ==
    /\ object' = o
    /\ seen' = [w \in Writer |-> IF seen[w] = {} THEN {} ELSE seen[w] \cup {DataOf(o)}]
    /\ disturbed' = disturbed \cup {w \in Writer \ who : Active(w)}
    /\ put' = put \cup who
-----------------------------------------------------------------------------
(* GetSignature. *)
Start(w) ==
    /\ pc[w] = "idle"
    /\ Goto(w, IF kind = "s3" THEN "sidecar" ELSE "get")
    /\ seen' = [seen EXCEPT ![w] = {DataOf(object)}]
    /\ UNCHANGED <<kind, store, session, troubles, put, disturbed>>

\* A sidecar without chunks says nothing; one that cannot be read neither.
GetSidecar(w) ==
    /\ pc[w] = "sidecar"
    /\ \/ /\ sidecar \notin {NoObject, <<>>}
          /\ sig' = [sig EXCEPT ![w] = sidecar] /\ Goto(w, "bind") /\ Smooth
       \/ /\ sidecar \in {NoObject, <<>>} /\ Goto(w, "get") /\ Smooth /\ UNCHANGED sig
       \/ Errs(w) /\ Goto(w, "get") /\ UNCHANGED sig
    /\ UNCHANGED <<kind, store, hint, old, body, stage>>

\* Mutant of Bound: the size is enough.
BoundBySize(w) == object # NoObject /\ Len(object.data) = Len(sig[w])

\* sidecarBoundToObject: size and the digest Commit put into the metadata.
Bound(w) == object # NoObject /\ Len(object.data) = Len(sig[w]) /\ object.tag = sig[w]

Bind(w) ==
    /\ pc[w] = "bind"
    /\ \/ Bound(w) /\ Goto(w, "plan") /\ Smooth
       \/ ~Bound(w) /\ Goto(w, "get") /\ Smooth
       \/ Errs(w) /\ Goto(w, "get")
    /\ UNCHANGED <<kind, store, session>>

\* OpenRead.  An error of NFS's Open counts as a missing file.
GetObject(w) ==
    /\ pc[w] = "get"
    /\ \/ /\ object # NoObject /\ Smooth
          /\ body' = [body EXCEPT ![w] = object.data] /\ Goto(w, "size")
          /\ UNCHANGED sig
       \/ /\ object = NoObject /\ Smooth
          /\ sig' = [sig EXCEPT ![w] = NoObject] /\ Goto(w, "plan") /\ UNCHANGED body
       \/ /\ Errs(w) /\ UNCHANGED body
          /\ \/ kind = "s3" /\ Goto(w, "failed") /\ UNCHANGED sig
             \/ kind = "nfs" /\ Goto(w, "plan") /\ sig' = [sig EXCEPT ![w] = NoObject]
    /\ UNCHANGED <<kind, store, hint, old, stage>>

StatObject(w) ==
    /\ pc[w] = "size"
    /\ \/ /\ object # NoObject /\ Goto(w, "hash") /\ Smooth
          /\ hint' = [hint EXCEPT ![w] = Len(object.data)]
          /\ sig' = [sig EXCEPT ![w] = <<>>]
       \/ object = NoObject /\ Goto(w, "failed") /\ Smooth /\ UNCHANGED <<sig, hint>>
       \/ Errs(w) /\ Goto(w, "failed") /\ UNCHANGED <<sig, hint>>
    /\ UNCHANGED <<kind, store, old, body, stage>>

(* ChunkReader: block by block to the end of what it reads, which is to be as
   much as Stat said, if that was anything. *)
HashBlock(w) ==
    /\ pc[w] = "hash"
    /\ \/ /\ Len(sig[w]) < Len(body[w]) /\ Smooth /\ UNCHANGED pc
          /\ sig' = [sig EXCEPT ![w] = Append(@, body[w][Len(@) + 1])]
       \/ /\ Len(sig[w]) >= Len(body[w]) /\ Smooth /\ UNCHANGED sig
          /\ Goto(w, IF hint[w] \in {0, Len(sig[w])} THEN "plan" ELSE "failed")
       \/ Errs(w) /\ Goto(w, "failed") /\ UNCHANGED sig
    /\ UNCHANGED <<kind, store, hint, old, body, stage>>
-----------------------------------------------------------------------------
(* The engine: compare, then write each block or have it reused. *)
BlocksOf(d) == IF d = NoObject THEN {} ELSE {d[i] : i \in DOMAIN d}

Plan(w) ==
    /\ pc[w] = "plan"
    /\ Goto(w, IF sig[w] = Wanted[w] THEN "skipped" ELSE "begin")
    /\ seen' = [seen EXCEPT ![w] = {}]
    /\ body' = [body EXCEPT ![w] = NoObject] /\ hint' = [hint EXCEPT ![w] = 0]
    /\ UNCHANGED <<kind, store, sig, old, stage, troubles, put, disturbed>>

NextBlock(w) == Wanted[w][Len(stage[w]) + 1]

\* Mutant of OldOffset: a block is looked for where it is to be written.
SameOffset(w) == Len(stage[w]) + 1

OldOffset(w) == CHOOSE k \in DOMAIN sig[w] :
                    /\ sig[w][k] = NextBlock(w)
                    /\ \A j \in 1..(k - 1) : sig[w][j] # NextBlock(w)

(* BeginWrite.  S3 asks for the object's size and ETag; if that fails there is
   nothing to reuse from.  NFS looks and then opens, in two calls. *)
BeginWrite(w) ==
    /\ pc[w] = "begin"
    /\ stage' = [stage EXCEPT ![w] = <<>>]
    /\ \/ old' = [old EXCEPT ![w] = object] /\ Smooth
       \/ Errs(w) /\ old' = [old EXCEPT ![w] = NoObject]
    /\ Goto(w, IF kind = "nfs" /\ old'[w] # NoObject THEN "open" ELSE "send")
    /\ UNCHANGED <<kind, store, sig, hint, body>>

\* No staging file, or (NFS) no directory for it.
BeginFails(w) ==
    /\ pc[w] = "begin" /\ Errs(w) /\ Goto(w, "failed")
    /\ UNCHANGED <<kind, store, session>>

OpenOld(w) ==
    /\ pc[w] = "open" /\ Goto(w, "send")
    /\ \/ /\ object # NoObject /\ Smooth
          /\ body' = [body EXCEPT ![w] = object.data] /\ UNCHANGED old
       \/ /\ object = NoObject /\ Smooth
          /\ old' = [old EXCEPT ![w] = NoObject] /\ UNCHANGED body
       \/ Errs(w) /\ old' = [old EXCEPT ![w] = NoObject] /\ UNCHANGED body
    /\ UNCHANGED <<kind, store, sig, hint, stage>>

Put1(w, block) == stage' = [stage EXCEPT ![w] = Append(@, block)]

WriteChunk(w) ==
    /\ pc[w] = "send" /\ Len(stage[w]) < Len(Wanted[w])
    /\ NextBlock(w) \notin BlocksOf(sig[w])
    /\ \/ Put1(w, NextBlock(w)) /\ UNCHANGED pc /\ Smooth
       \/ Errs(w) /\ Goto(w, "failed") /\ UNCHANGED stage
    /\ UNCHANGED <<kind, store, sig, hint, old, body>>

\* Mutant of OldUnchanged: nothing there before is nothing there now.
OldSame(w) == object = old[w]

\* checkOldUnchanged: size and ETag, or size and mtime.
OldUnchanged(w) ==
    /\ old[w] # NoObject /\ object # NoObject
    /\ IF kind = "s3" THEN object.data = old[w].data
       ELSE Len(object.data) = Len(old[w].data) /\ object.mtime = old[w].mtime

CheckOld(w) ==
    /\ pc[w] = "send" /\ Len(stage[w]) < Len(Wanted[w])
    /\ NextBlock(w) \in BlocksOf(sig[w])
    /\ \/ OldUnchanged(w) /\ Goto(w, "reuse") /\ Smooth
       \/ ~OldUnchanged(w) /\ Goto(w, "failed") /\ Smooth
       \/ Errs(w) /\ Goto(w, "failed")
    /\ UNCHANGED <<kind, store, session>>

\* Mutant of RightBlock: a full read is good enough.
FullRead(w, d) == OldOffset(w) <= Len(d)

RightBlock(w, d) == OldOffset(w) <= Len(d) /\ d[OldOffset(w)] = NextBlock(w)

\* The read itself: a ranged GET of what the object is by now, or a read of
\* the open file.
ReuseChunk(w) ==
    /\ pc[w] = "reuse"
    /\ \/ /\ kind = "nfs" \/ object # NoObject
          /\ LET d == IF kind = "s3" THEN object.data ELSE body[w] IN
               IF RightBlock(w, d) THEN Put1(w, d[OldOffset(w)]) /\ Goto(w, "send")
               ELSE Goto(w, "failed") /\ UNCHANGED stage
          /\ Smooth
       \/ /\ kind = "s3" /\ object = NoObject
          /\ Goto(w, "failed") /\ UNCHANGED stage /\ Smooth
       \/ Errs(w) /\ Goto(w, "failed") /\ UNCHANGED stage
    /\ UNCHANGED <<kind, store, sig, hint, old, body>>
-----------------------------------------------------------------------------
(* Commit and Remove. *)
Complete(w) == pc[w] = "send" /\ Len(stage[w]) = Len(Wanted[w])

\* S3: PutObject with the digest in the metadata.  NFS: RENAME; the mtime is
\* the server's, not the source's.
Promoted(w) == Kept(stage[w], IF kind = "s3" THEN Wanted[w] ELSE NoObject)

\* Commit compares the digest of what is staged first.
Promote(w) ==
    /\ Complete(w)
    /\ IF stage[w] = Wanted[w]
       THEN (\E o \in Promoted(w) : Becomes(o, {w})) /\ Goto(w, "answer")
       ELSE Goto(w, "failed") /\ UNCHANGED <<object, history>>
    /\ UNCHANGED <<kind, sidecar, removing, session, troubles>>

\* Mutant of OnPutError: goes on with the sidecar.
ContinueAnyway == "putSig"

OnPutError == "failed"

\* The call fails, before it had its effect or after.
PromoteFails(w) ==
    /\ \/ Complete(w) /\ stage[w] = Wanted[w]
       \/ pc[w] = "answer"
    /\ Errs(w) /\ Goto(w, OnPutError)
    /\ UNCHANGED <<kind, store, session>>

PutAnswered(w) ==
    /\ pc[w] = "answer" /\ Goto(w, IF kind = "s3" THEN "putSig" ELSE "ok")
    /\ UNCHANGED <<kind, store, session, troubles, history>>

PutSidecar(w) ==
    /\ pc[w] = "putSig"
    /\ \/ sidecar' = Wanted[w] /\ Goto(w, "ok") /\ Smooth
       \/ Errs(w) /\ sidecar' \in {sidecar, Wanted[w]} /\ Goto(w, "failed")
    /\ UNCHANGED <<kind, object, removing, session>>

(* --delete of another run: the object, then its sidecar (unless that fails).
   S3 deletes what is not there without an error. *)
Remove ==
    /\ Trouble /\ (object # NoObject \/ kind = "s3")
    /\ IF object # NoObject THEN Becomes(NoObject, {}) ELSE UNCHANGED <<object, history>>
    /\ removing' = IF kind = "s3" THEN removing + 1 ELSE removing
    /\ UNCHANGED <<kind, sidecar, pc, session>>

RemoveSidecar ==
    /\ removing > 0 /\ removing' = removing - 1
    /\ sidecar' = NoObject
    /\ UNCHANGED <<kind, object, pc, session, troubles, history>>

RemoveStops ==
    /\ removing > 0 /\ removing' = removing - 1
    /\ UNCHANGED <<kind, object, sidecar, pc, session, troubles, history>>
-----------------------------------------------------------------------------
\* Writers that hold a file of the NFS server open.
Reading == {w \in Writer : /\ kind = "nfs" /\ body[w] # NoObject
                           /\ pc[w] \in {"size", "hash", "send", "reuse"}}

(* Another program's upload has none of quiksync's metadata.  On NFS it may
   write in place, which those see that hold the file open; who opened the one
   before a RENAME does not. *)
Overwrite ==
    /\ Trouble
    /\ \E c \in Content, who \in SUBSET Reading :
         /\ object = NoObject => who = {}
         /\ \E o \in Kept(c, NoObject) : Becomes(o, {})
         /\ body' = [w \in Writer |-> IF w \in who THEN c ELSE body[w]]
    /\ UNCHANGED <<kind, sidecar, removing, pc, sig, hint, old, stage>>

\* A writer's process dies, between any two calls.
Crash(w) ==
    /\ Active(w) /\ Trouble /\ Goto(w, "crashed")
    /\ seen' = [seen EXCEPT ![w] = {}]
    /\ UNCHANGED <<kind, store, session, put, disturbed>>

Init ==
    /\ kind \in {"s3", "nfs"}
    /\ object \in {NoObject} \cup (UNION {Kept(c, NoObject) : c \in Content})
                  \cup (IF kind = "s3" THEN UNION {Kept(c, c) : c \in Content} ELSE {})
    /\ sidecar \in {NoObject} \cup (IF kind = "s3" THEN Content ELSE {})
    /\ removing = 0
    /\ pc = [w \in Writer |-> "idle"]
    /\ sig = [w \in Writer |-> NoObject] /\ old = [w \in Writer |-> NoObject]
    /\ hint = [w \in Writer |-> 0]
    /\ body = [w \in Writer |-> NoObject] /\ stage = [w \in Writer |-> <<>>]
    /\ troubles = 0 /\ put = {} /\ disturbed = {}
    /\ seen = [w \in Writer |-> {}]

Next ==
    \/ \E w \in Writer :
         \/ Start(w) \/ GetSidecar(w) \/ Bind(w) \/ GetObject(w) \/ StatObject(w)
         \/ HashBlock(w) \/ Plan(w) \/ BeginWrite(w) \/ BeginFails(w) \/ OpenOld(w) \/ WriteChunk(w)
         \/ CheckOld(w) \/ ReuseChunk(w) \/ Promote(w) \/ PromoteFails(w)
         \/ PutAnswered(w) \/ PutSidecar(w) \/ Crash(w)
    \/ Remove \/ RemoveSidecar \/ RemoveStops \/ Overwrite

Spec == Init /\ [][Next]_vars
-----------------------------------------------------------------------------
(* Type invariant of the state above; a block is reused only from an old file
   the session knows of. *)
TypeOK ==
    /\ object \in Object \cup {NoObject} /\ sidecar \in Content \cup {NoObject}
    /\ kind \in {"s3", "nfs"} /\ removing \in 0..MaxTroubles
    /\ pc \in [Writer -> Over \cup {"idle", "sidecar", "bind", "get", "size", "hash", "plan", "begin",
                                    "open", "send", "reuse", "answer", "putSig"}]
    /\ sig \in [Writer -> Seq(Block) \cup {NoObject}] /\ hint \in [Writer -> Nat]
    /\ body \in [Writer -> Content \cup {NoObject}]
    /\ old \in [Writer -> Object \cup {NoObject}] /\ stage \in [Writer -> Seq(Block)]
    /\ seen \in [Writer -> SUBSET (Content \cup {NoObject})]
    /\ \A w \in Writer : /\ Len(stage[w]) <= Len(Wanted[w])
                        /\ pc[w] = "reuse" => old[w] # NoObject
    /\ troubles \in 0..MaxTroubles /\ put \subseteq Writer /\ disturbed \subseteq Writer

\* Each block of s is one that a content of C has in its place.
PiecedFrom(s, C) ==
    \A i \in DOMAIN s : \E d \in C \ {NoObject} : i \in DOMAIN d /\ s[i] = d[i]

(* GetSignature returns the signature of a content the object had while it
   ran (or of no object when there was none): a sidecar of an earlier or a
   later object, of a failed commit, or one that a removed object left behind
   is never taken for it.  On NFS a file that is written in place meanwhile may
   give the blocks of several such contents, each in its place; and an error of
   Open counts as no object. *)
SignatureIsTrue ==
    \A w \in Writer : pc[w] = "plan" =>
        \/ sig[w] \in seen[w]
        \/ /\ kind = "nfs" /\ w \in disturbed
           /\ sig[w] = NoObject \/ PiecedFrom(sig[w], seen[w])

(* Every block in a session's staging file is the one that belongs there, also
   if the object is replaced between the check and the read of a reused one. *)
StagedBlocksTrue ==
    \A w \in Writer : \A i \in DOMAIN stage[w] : stage[w][i] = Wanted[w][i]

(* A copy fails for an error of a call, or because the object changed while it
   ran; never for what earlier runs left at the path and in the sidecar. *)
FailureHasCause == \A w \in Writer : pc[w] = "failed" => w \in disturbed

\* What the caller of a writer at label l knows.
Caller(l) == CASE l = "ok" -> "ok"
               [] l \in {"failed", "crashed"} -> "failed"
               [] l \in {"open", "send", "reuse", "answer", "putSig"} -> "open"
               [] OTHER -> "idle"
Staged == INSTANCE StagedWrite WITH
    Session <- Writer, PathOf <- [w \in Writer |-> "path"], WantedBy <- Wanted,
    Foreign <- Content \cup {NoObject}, object <- [path |-> DataOf(object)],
    state <- [w \in Writer |-> Caller(pc[w])], installed <- put

(* Both stores keep the promise of a WriteSession, whatever calls fail. *)
ImplementsStagedWrite == Staged!Spec
=============================================================================
