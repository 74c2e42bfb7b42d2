----------------------------- MODULE Stores_proofs -----------------------------
(***************************************************************************)
(* Proofs about Stores, for any writers, contents, clock and number of     *)
(* errors, crashes and changes by others.                                  *)
(***************************************************************************)
EXTENDS Stores, SequenceTheorems, NaturalsInduction, WellFoundedInduction, TLAPS

Label   == Over \cup {"idle", "sidecar", "bind", "get", "size", "hash", "plan", "begin",
                      "open", "send", "reuse", "answer", "putSig"}
Maybe   == Content \cup {NoObject}
Sigs    == Seq(Block) \cup {NoObject}
Looking == {"sidecar", "bind", "get", "size", "hash", "plan"}

(* The inductive invariant.  A digest in the metadata is that of the object it
   came with. *)
TagOK == object # NoObject => object.tag \in {NoObject, object.data}

\* What has been read of d so far is its beginning.
Begins(s, d) == Len(s) <= Len(d) /\ \A i \in DOMAIN s : s[i] = d[i]

(* While GetSignature runs, w has seen what is at the path, and the body it
   reads; what it has read is from what it has seen, and all from one body
   unless the file may be written in place. *)
Looks(w) == /\ pc[w] \in Looking => DataOf(object) \in seen[w]
            /\ pc[w] = "bind" => sig[w] \in Content
            /\ pc[w] \in {"size", "hash"} => body[w] \in seen[w] \ {NoObject}
            /\ pc[w] = "hash" =>
                  /\ sig[w] \in Seq(Block) /\ PiecedFrom(sig[w], seen[w])
                  /\ kind = "s3" \/ w \notin disturbed => Begins(sig[w], body[w])
            /\ pc[w] = "plan" => \/ sig[w] \in seen[w]
                                 \/ /\ kind = "nfs" /\ w \in disturbed
                                    /\ sig[w] = NoObject \/ PiecedFrom(sig[w], seen[w])

(* What is staged is right, and what is being reused is to be found in the old file. *)
Stages(w) == /\ Len(stage[w]) <= Len(Wanted[w])
             /\ \A i \in DOMAIN stage[w] : stage[w][i] = Wanted[w][i]
             /\ pc[w] = "reuse" => /\ Len(stage[w]) < Len(Wanted[w])
                                   /\ NextBlock(w) \in BlocksOf(sig[w])
                                   /\ old[w] # NoObject

(* As long as nothing disturbs w, all it has read is still at the path. *)
Undisturbed(w) ==
    w \notin disturbed =>
        /\ pc[w] # "failed"
        /\ pc[w] \in {"size", "hash"} => object # NoObject /\ body[w] = object.data
        /\ pc[w] = "hash" => hint[w] = Len(object.data)
        /\ pc[w] \in {"plan", "begin", "open", "send", "reuse"} => sig[w] = DataOf(object)
        /\ pc[w] \in {"open", "send", "reuse"} => old[w] = object
        /\ kind = "nfs" /\ pc[w] \in {"send", "reuse"} /\ object # NoObject
               => body[w] = object.data

(* Only a writer that promoted its version has put it there, and no one reports
   success without it. *)
Puts(w) == /\ w \in put => pc[w] \in {"answer", "putSig", "ok", "failed", "crashed"}
           /\ pc[w] \in {"answer", "putSig", "ok"} => w \in put

WriterOK(w) == Looks(w) /\ Stages(w) /\ Undisturbed(w) /\ Puts(w)

(* The types of the variables, without TypeOK's relations between them. *)
Types == /\ kind \in {"s3", "nfs"} /\ object \in Object \cup {NoObject}
         /\ sidecar \in Maybe /\ removing \in 0..troubles
         /\ pc \in [Writer -> Label] /\ sig \in [Writer -> Sigs] /\ body \in [Writer -> Maybe]
         /\ hint \in [Writer -> Nat]
         /\ old \in [Writer -> Object \cup {NoObject}] /\ stage \in [Writer -> Seq(Block)]
         /\ seen \in [Writer -> SUBSET Maybe]
         /\ troubles \in 0..MaxTroubles /\ put \subseteq Writer /\ disturbed \subseteq Writer

IInv == Types /\ TagOK /\ \A w \in Writer : WriterOK(w)
-----------------------------------------------------------------------------
(* Contents are sequences of blocks, and "none" is not among them. *)
LEMMA ContentFacts ==
  /\ Content \subseteq Seq(Block) /\ Maybe \subseteq Sigs
  /\ NoObject \notin Seq(Block) /\ NoObject \notin Content /\ NoObject \notin Object
  /\ Ticks \in Nat \ {0} /\ MaxTroubles \in Nat
  /\ \A w \in Writer : Wanted[w] \in Content /\ Wanted[w] \in Seq(Block)
  BY ContentAssumption DEF Maybe, Sigs

(* The invariant says what the properties say. *)
LEMMA InvImplies == IInv => TypeOK /\ SignatureIsTrue /\ StagedBlocksTrue /\ FailureHasCause
  <1> SUFFICES ASSUME IInv PROVE TypeOK /\ SignatureIsTrue /\ StagedBlocksTrue /\ FailureHasCause
    OBVIOUS
  <1>1. TypeOK
    <2>1. removing \in 0..MaxTroubles
      BY ContentFacts DEF IInv, Types
    <2> QED
      BY <2>1 DEF IInv, Types, WriterOK, Stages, TypeOK, Label, Maybe, Sigs
  <1>2. SignatureIsTrue
    BY DEF IInv, WriterOK, Looks, SignatureIsTrue
  <1>3. StagedBlocksTrue
    BY DEF IInv, WriterOK, Stages, StagedBlocksTrue
  <1>4. FailureHasCause
    BY DEF IInv, WriterOK, Undisturbed, FailureHasCause
  <1> QED
    BY <1>1, <1>2, <1>3, <1>4

(* An object that a store keeps has the content and the digest it is given. *)
LEMMA KeptObject ==
  ASSUME NEW c \in Content, NEW tag \in Maybe, NEW o \in Kept(c, tag)
  PROVE  /\ o \in Object /\ o # NoObject
         /\ o.data = c /\ o.tag = tag /\ DataOf(o) = c
  <1>1. o.data = c /\ o.tag = tag /\ o \in Object
    <2>1. (IF kind = "s3" THEN {0} ELSE 1..Ticks) \subseteq 0..Ticks
      BY ContentFacts
    <2>2. o \in [data: {c}, tag: {tag}, mtime: 0..Ticks]
      BY <2>1 DEF Kept
    <2> QED
      BY <2>2 DEF Object, Maybe
  <1>2. o # NoObject
    BY <1>1, ContentFacts
  <1> QED
    BY <1>1, <1>2 DEF DataOf

(* The content of what is at the path, or "none". *)
LEMMA DataType ==
  ASSUME NEW o \in Object \cup {NoObject}
  PROVE  /\ DataOf(o) \in Maybe
         /\ o # NoObject => DataOf(o) = o.data /\ o.data \in Content
         /\ o = NoObject => DataOf(o) = NoObject
  BY ContentFacts DEF DataOf, Object, Maybe

(* A block among those of a sequence has a first place there. *)
LEMMA FirstPlace ==
  ASSUME NEW S, NEW s \in Seq(S), NEW x, x \in {s[i] : i \in DOMAIN s}
  PROVE  \E k \in DOMAIN s : s[k] = x /\ \A j \in 1..(k - 1) : s[j] # x
  <1> DEFINE K == {k \in DOMAIN s : s[k] = x}
  <1>1. K # {} /\ K \subseteq Nat
    BY LenProperties
  <1>2. PICK k \in K : \A j \in K : <<j, k>> \notin OpToRel(<, Nat)
    BY <1>1, NatLessThanWellFounded, WFMin
  <1>3. \A j \in K : ~(j < k)
    BY <1>1, <1>2 DEF OpToRel
  <1>4. ASSUME NEW j \in 1..(k - 1) PROVE s[j] # x
    <2>1. DOMAIN s = 1..Len(s) /\ Len(s) \in Nat
      BY LenProperties
    <2>2. j \in DOMAIN s /\ j < k
      BY <1>1, <2>1
    <2> QED
      BY <1>3, <2>2
  <1> QED
    BY <1>4

(* So OldOffset is where the signature has the next block. *)
LEMMA OffsetFound ==
  ASSUME NEW w \in Writer, sig[w] \in Sigs, NextBlock(w) \in BlocksOf(sig[w])
  PROVE  /\ sig[w] \in Seq(Block) /\ OldOffset(w) \in 1..Len(sig[w])
         /\ sig[w][OldOffset(w)] = NextBlock(w)
  <1>1. sig[w] \in Seq(Block)
    BY DEF BlocksOf, Sigs
  <1>2. NextBlock(w) \in {sig[w][i] : i \in DOMAIN sig[w]}
    BY <1>1, ContentFacts DEF BlocksOf
  <1>3. \E k \in DOMAIN sig[w] : /\ sig[w][k] = NextBlock(w)
                                 /\ \A j \in 1..(k - 1) : sig[w][j] # NextBlock(w)
    BY <1>1, <1>2, FirstPlace
  <1>4. OldOffset(w) \in DOMAIN sig[w] /\ sig[w][OldOffset(w)] = NextBlock(w)
    BY <1>3 DEF OldOffset
  <1> QED
    BY <1>1, <1>4, LenProperties

(* The next block, appended, is in its place. *)
LEMMA AppendTrue ==
  ASSUME NEW s \in Seq(Block), NEW v \in Seq(Block), Len(s) < Len(v),
         \A i \in DOMAIN s : s[i] = v[i]
  PROVE  /\ Append(s, v[Len(s) + 1]) \in Seq(Block)
         /\ Len(Append(s, v[Len(s) + 1])) <= Len(v)
         /\ \A i \in DOMAIN Append(s, v[Len(s) + 1]) : Append(s, v[Len(s) + 1])[i] = v[i]
  <1> DEFINE x == v[Len(s) + 1]
             t == Append(s, x)
  <1>1. /\ Len(s) \in Nat /\ DOMAIN s = 1..Len(s)
        /\ Len(v) \in Nat /\ DOMAIN v = 1..Len(v)
    BY LenProperties
  <1>2. x \in Block
    <2>1. Len(s) + 1 \in 1..Len(v)
      BY <1>1
    <2> QED
      BY <2>1, ElementOfSeq
  <1>3. /\ t \in Seq(Block) /\ Len(t) = Len(s) + 1
        /\ \A i \in 1..Len(s) : t[i] = s[i]
        /\ t[Len(s) + 1] = x
    BY <1>2, AppendProperties
  <1>4. DOMAIN t = 1..(Len(s) + 1)
    BY <1>3, LenProperties
  <1>5. ASSUME NEW i \in 1..(Len(s) + 1) PROVE t[i] = v[i]
    <2>1. i \in 1..Len(s) \/ i = Len(s) + 1
      BY <1>1
    <2> QED
      BY <1>1, <1>3, <2>1
  <1> QED
    BY <1>1, <1>3, <1>4, <1>5

(* A staging file as long as the content that is wanted is that content. *)
LEMMA Whole ==
  ASSUME NEW s \in Seq(Block), NEW v \in Seq(Block), Len(s) = Len(v),
         \A i \in DOMAIN s : s[i] = v[i]
  PROVE  s = v
  <1>1. \A i \in 1..Len(s) : s[i] = v[i]
    BY LenProperties
  <1> QED
    BY <1>1, SeqEqual
-----------------------------------------------------------------------------
(* Errors and crashes stay within their bound. *)
LEMMA TroubleCounts ==
  ASSUME Types, Trouble \/ troubles' = troubles
  PROVE  troubles' \in 0..MaxTroubles /\ removing \in 0..troubles'
  BY ContentFacts DEF Types, Trouble

(* What a step leaves alone of a writer v. *)
SameFor(v) == /\ pc'[v] = pc[v] /\ sig'[v] = sig[v] /\ hint'[v] = hint[v] /\ old'[v] = old[v]
              /\ body'[v] = body[v] /\ stage'[v] = stage[v] /\ seen'[v] = seen[v]
              /\ v \in put' <=> v \in put
              /\ v \in disturbed' <=> v \in disturbed

(* A writer's part of the invariant does not depend on the others. *)
LEMMA OwnStep ==
  ASSUME IInv, NEW w \in Writer, kind' = kind, object' = object, Types',
         \A v \in Writer \ {w} : SameFor(v), WriterOK(w)'
  PROVE  IInv'
  <1>1. TagOK'
    BY DEF IInv, TagOK
  <1>2. ASSUME NEW v \in Writer \ {w} PROVE WriterOK(v)'
    <2>1. WriterOK(v) /\ SameFor(v)
      BY DEF IInv
    <2>2. Looks(v)'
      BY <2>1 DEF WriterOK, SameFor, Looks, DataOf
    <2>3. Stages(v)'
      BY <2>1 DEF WriterOK, SameFor, Stages, NextBlock, BlocksOf
    <2>4. Undisturbed(v)'
      BY <2>1 DEF WriterOK, SameFor, Undisturbed, DataOf
    <2>5. Puts(v)'
      BY <2>1 DEF WriterOK, SameFor, Puts
    <2> QED
      BY <2>2, <2>3, <2>4, <2>5 DEF WriterOK
  <1> QED
    BY <1>1, <1>2 DEF IInv

(* A step of w that changes only what is w's own: its types, and that it leaves
   the other writers alone. *)
LEMMA StepTypes ==
  ASSUME IInv, NEW w \in Writer, kind' = kind, object' = object,
         sidecar' \in Maybe, removing' = removing,
         Trouble \/ troubles' = troubles,
         NEW l \in Label, pc' = [pc EXCEPT ![w] = l] \/ pc' = pc,
         NEW s \in Sigs, sig' = [sig EXCEPT ![w] = s] \/ sig' = sig,
         NEW h \in Nat, hint' = [hint EXCEPT ![w] = h] \/ hint' = hint,
         NEW o \in Object \cup {NoObject}, old' = [old EXCEPT ![w] = o] \/ old' = old,
         NEW b \in Maybe, body' = [body EXCEPT ![w] = b] \/ body' = body,
         NEW g \in Seq(Block), stage' = [stage EXCEPT ![w] = g] \/ stage' = stage,
         NEW n \in SUBSET Maybe, seen' = [seen EXCEPT ![w] = n] \/ seen' = seen,
         put' = put, disturbed' \in {disturbed, disturbed \cup {w}}
  PROVE  Types' /\ \A v \in Writer \ {w} : SameFor(v)
  <1>0. Types /\ troubles' \in 0..MaxTroubles /\ removing' \in 0..troubles'
    BY TroubleCounts DEF IInv
  <1>1. pc' \in [Writer -> Label] /\ sig' \in [Writer -> Sigs] /\ hint' \in [Writer -> Nat]
    BY <1>0 DEF Types
  <1>5. old' \in [Writer -> Object \cup {NoObject}]
    BY <1>0 DEF Types
  <1>2. /\ body' \in [Writer -> Maybe] /\ stage' \in [Writer -> Seq(Block)]
        /\ seen' \in [Writer -> SUBSET Maybe]
    BY <1>0 DEF Types
  <1>3. Types'
    BY <1>0, <1>1, <1>2, <1>5 DEF Types
  <1>4. ASSUME NEW v \in Writer \ {w} PROVE SameFor(v)
    <2>1. pc'[v] = pc[v] /\ sig'[v] = sig[v] /\ hint'[v] = hint[v] /\ old'[v] = old[v]
      BY <1>0 DEF Types
    <2>2. body'[v] = body[v] /\ stage'[v] = stage[v] /\ seen'[v] = seen[v]
      BY <1>0 DEF Types
    <2> QED
      BY <2>1, <2>2 DEF SameFor
  <1> QED
    BY <1>3, <1>4

(* The types of one writer's state. *)
LEMMA WriterTypes ==
  ASSUME Types, NEW w \in Writer
  PROVE  /\ pc[w] \in Label /\ sig[w] \in Sigs /\ hint[w] \in Nat /\ old[w] \in Object \cup {NoObject}
         /\ body[w] \in Maybe /\ stage[w] \in Seq(Block) /\ seen[w] \in SUBSET Maybe
         /\ DataOf(object) \in Maybe /\ object \in Object \cup {NoObject}
         /\ sidecar \in Maybe /\ <<>> \in Seq(Block)
  BY DataType, EmptySeq DEF Types
-----------------------------------------------------------------------------
(* GetSignature keeps the invariant. *)
LEMMA StartKeeps ==
  ASSUME IInv, NEW w \in Writer, Start(w)
  PROVE  IInv'
  <1>0. /\ WriterOK(w) /\ Types
        /\ pc[w] \in Label /\ sig[w] \in Sigs /\ hint[w] \in Nat /\ old[w] \in Object \cup {NoObject}
        /\ body[w] \in Maybe /\ stage[w] \in Seq(Block) /\ {DataOf(object)} \in SUBSET Maybe
    BY WriterTypes DEF IInv
  <1> DEFINE l == IF kind = "s3" THEN "sidecar" ELSE "get"
  <1>1. /\ pc' = [pc EXCEPT ![w] = l] /\ l \in Label
        /\ seen' = [seen EXCEPT ![w] = {DataOf(object)}]
        /\ UNCHANGED <<kind, store, session, troubles, put, disturbed>>
        /\ UNCHANGED <<object, sidecar, removing, sig, hint, old, body, stage>>
    BY DEF Start, Goto, store, session, Label
  <1>2. Types' /\ \A v \in Writer \ {w} : SameFor(v)
    BY <1>0, <1>1, StepTypes, WriterTypes
  <1>3. pc'[w] = l /\ seen'[w] = {DataOf(object)} /\ pc[w] = "idle"
    BY <1>0, <1>1 DEF Types, Start
  <1>4. WriterOK(w)'
    BY <1>0, <1>1, <1>3 DEF WriterOK, Looks, Stages, Undisturbed, Puts, Looking, DataOf
  <1> QED
    BY <1>1, <1>2, <1>4, OwnStep

(* A writer that meets an error, or a change of the object, may give up. *)
LEMMA FailKeeps ==
  ASSUME IInv, NEW w \in Writer, Goto(w, "failed"),
         UNCHANGED <<kind, object, removing, session>>, sidecar' \in Maybe,
         Errs(w) \/ (Smooth /\ w \in disturbed)
  PROVE  IInv'
  <1>0. WriterOK(w) /\ Types /\ "failed" \in Label
    BY DEF IInv, Label, Over
  <1>1. /\ pc' = [pc EXCEPT ![w] = "failed"]
        /\ UNCHANGED <<kind, object, removing, sig, hint, old, body, stage, seen, put>>
        /\ disturbed' \in {disturbed, disturbed \cup {w}}
        /\ Trouble \/ troubles' = troubles
    BY DEF Goto, session, Errs, Smooth, history
  <1>2. w \in disturbed'
    BY DEF Errs, Smooth, history
  <1>3. Types' /\ \A v \in Writer \ {w} : SameFor(v)
    BY <1>0, <1>1, StepTypes, WriterTypes
  <1>4. pc'[w] = "failed"
    BY <1>0, <1>1 DEF Types
  <1>5. Looks(w)'
    BY <1>4 DEF Looks, Looking
  <1>6. Stages(w)'
    BY <1>0, <1>1, <1>4 DEF WriterOK, Stages
  <1>7. Undisturbed(w)' /\ Puts(w)'
    BY <1>2, <1>4 DEF Undisturbed, Puts
  <1> QED
    BY <1>1, <1>3, <1>5, <1>6, <1>7, OwnStep DEF WriterOK

(* A step that takes a writer on through GetSignature, with the result s, the
   expected size h and the body b. *)
LEMMA LookKeeps ==
  ASSUME IInv, NEW w \in Writer, pc[w] \in {"sidecar", "bind", "get", "size", "hash"},
         NEW l \in {"bind", "get", "size", "hash", "plan"},
         pc' = [pc EXCEPT ![w] = l] \/ (pc' = pc /\ l = pc[w]),
         UNCHANGED <<kind, store, old, stage>>,
         NEW s \in Sigs, sig' = [sig EXCEPT ![w] = s] \/ (sig' = sig /\ s = sig[w]),
         NEW h \in Nat, hint' = [hint EXCEPT ![w] = h] \/ (hint' = hint /\ h = hint[w]),
         NEW b \in Maybe, body' = [body EXCEPT ![w] = b] \/ (body' = body /\ b = body[w]),
         Errs(w) \/ Smooth,
         l = "bind" => s \in Content,
         l = "size" => b = DataOf(object) /\ b # NoObject,
         l = "hash" => /\ pc[w] \in {"size", "hash"} /\ b = body[w]
                       /\ s \in Seq(Block) /\ PiecedFrom(s, seen[w])
                       /\ kind = "s3" \/ w \notin disturbed => Begins(s, b)
                       /\ w \notin disturbed => h = Len(object.data),
         l = "plan" => \/ s \in seen[w] /\ (w \notin disturbed => s = DataOf(object))
                       \/ kind = "nfs" /\ s = NoObject /\ Errs(w)
                       \/ kind = "nfs" /\ w \in disturbed /\ PiecedFrom(s, seen[w])
  PROVE  IInv'
  <1>0. WriterOK(w) /\ Types /\ l \in Label
    BY DEF IInv, Label
  <1>1. /\ UNCHANGED <<kind, object, sidecar, removing, old, stage, seen, put>>
        /\ disturbed' \in {disturbed, disturbed \cup {w}}
        /\ Trouble \/ troubles' = troubles
    BY DEF store, Errs, Smooth, history
  <1>2. Types' /\ \A v \in Writer \ {w} : SameFor(v)
    BY <1>0, <1>1, StepTypes, WriterTypes
  <1>3. /\ pc'[w] = l /\ sig'[w] = s /\ hint'[w] = h /\ body'[w] = b
        /\ seen'[w] = seen[w] /\ stage'[w] = stage[w]
    BY <1>0, <1>1 DEF Types
  <1>4. Errs(w) => w \in disturbed'
    BY DEF Errs
  <1>5. w \notin disturbed' => w \notin disturbed
    BY <1>1
  <1>6. DataOf(object) \in seen[w]
    BY <1>0 DEF WriterOK, Looks, Looking
  <1>7. object' = object /\ DataOf(object)' = DataOf(object)
    BY <1>1 DEF DataOf
  <1>8. Looks(w)'
    <2>1. \/ l # "plan" \/ s \in seen[w]
          \/ kind = "nfs" /\ w \in disturbed' /\ (s = NoObject \/ PiecedFrom(s, seen[w]))
      BY <1>1, <1>4
    <2>2. l \in {"size", "hash"} => b \in seen[w] \ {NoObject}
      BY <1>0, <1>6 DEF WriterOK, Looks
    <2>3. PiecedFrom(sig[w], seen[w])' <=> PiecedFrom(s, seen[w])
      BY <1>3 DEF PiecedFrom
    <2>4. Begins(sig[w], body[w])' <=> Begins(s, b)
      BY <1>3 DEF Begins
    <2>5. kind' = kind
      BY <1>1
    <2> HIDE DEF PiecedFrom, Begins
    <2> QED
      BY <2>1, <2>2, <2>3, <2>4, <2>5, <1>3, <1>5, <1>6, <1>7 DEF Looks
  <1>9. Stages(w)'
    BY <1>0, <1>3 DEF WriterOK, Stages
  <1>10. Undisturbed(w)'
    <2>1. b = DataOf(object) /\ b # NoObject => object # NoObject /\ b = object.data
      BY DEF DataOf
    <2>2. w \notin disturbed /\ l = "hash" => /\ object # NoObject /\ b = object.data
                                             /\ h = Len(object.data)
      BY <1>0 DEF WriterOK, Undisturbed
    <2>3. w \notin disturbed' /\ l = "plan" => s = DataOf(object)
      BY <1>4, <1>5
    <2> QED
      BY <2>1, <2>2, <2>3, <1>1, <1>3, <1>5, <1>7 DEF Undisturbed
  <1>11. Puts(w)'
    BY <1>0, <1>1, <1>3 DEF WriterOK, Puts
  <1> QED
    BY <1>1, <1>2, <1>8, <1>9, <1>10, <1>11, OwnStep DEF WriterOK

(* A sidecar is taken for the object's signature only if the object carries the
   digest of what the signature is of. *)
LEMMA SidecarKeeps ==
  ASSUME IInv, NEW w \in Writer, GetSidecar(w) \/ Bind(w)
  PROVE  IInv'
  <1>0. WriterOK(w) /\ Types /\ sig[w] \in Sigs /\ body[w] \in Maybe /\ hint[w] \in Nat
    BY WriterTypes DEF IInv
  <1>1. CASE GetSidecar(w)
    <2>0. /\ pc[w] = "sidecar" /\ UNCHANGED <<kind, store, old, stage>>
          /\ body' = body /\ hint' = hint
      BY <1>1 DEF GetSidecar
    <2>1. CASE /\ sidecar \notin {NoObject, <<>>}
               /\ sig' = [sig EXCEPT ![w] = sidecar] /\ Goto(w, "bind") /\ Smooth
      <3>1. sidecar \in Content /\ sidecar \in Sigs
        BY <1>0, <2>1, ContentFacts DEF Types, Maybe
      <3> QED
        BY <3>1, <1>0, <2>0, <2>1, LookKeeps DEF Goto
    <2>2. CASE Goto(w, "get") /\ (Smooth \/ Errs(w)) /\ UNCHANGED sig
      BY <1>0, <2>0, <2>2, LookKeeps DEF Goto
    <2> QED
      BY <1>1, <2>1, <2>2 DEF GetSidecar
  <1>2. CASE Bind(w)
    <2>0. /\ pc[w] = "bind" /\ UNCHANGED <<kind, store, old, stage>>
          /\ sig' = sig /\ body' = body /\ hint' = hint
      BY <1>2 DEF Bind, session
    <2>1. CASE Bound(w) /\ Goto(w, "plan") /\ Smooth
      <3>1. sig[w] = DataOf(object)
        BY <1>0, <2>0, <2>1, ContentFacts DEF Bound, IInv, TagOK, WriterOK, Looks, DataOf
      <3>2. sig[w] \in seen[w]
        BY <1>0, <2>0, <3>1 DEF WriterOK, Looks, Looking
      <3> QED
        BY <3>1, <3>2, <1>0, <2>0, <2>1, LookKeeps DEF Goto
    <2>2. CASE Goto(w, "get") /\ (Smooth \/ Errs(w))
      BY <1>0, <2>0, <2>2, LookKeeps DEF Goto
    <2> QED
      BY <1>2, <2>1, <2>2 DEF Bind
  <1> QED
    BY <1>1, <1>2

\* Opening the object itself, and its size.
LEMMA ReadKeeps ==
  ASSUME IInv, NEW w \in Writer, GetObject(w) \/ StatObject(w)
  PROVE  IInv'
  <1>0. /\ WriterOK(w) /\ Types /\ sig[w] \in Sigs /\ body[w] \in Maybe /\ hint[w] \in Nat
        /\ DataOf(object) \in Maybe /\ NoObject \in Sigs
        /\ object # NoObject => /\ DataOf(object) = object.data /\ object.data \in Maybe
                                /\ object.data # NoObject /\ Len(object.data) \in Nat
    BY WriterTypes, DataType, ContentFacts, LenProperties DEF IInv, Maybe, Sigs, Types
  <1>1. CASE GetObject(w)
    <2>0. pc[w] = "get" /\ UNCHANGED <<kind, store, old, stage>> /\ hint' = hint
      BY <1>1 DEF GetObject
    <2>1. CASE /\ object # NoObject /\ Smooth
               /\ body' = [body EXCEPT ![w] = object.data] /\ Goto(w, "size")
               /\ UNCHANGED sig
      BY <1>0, <2>0, <2>1, LookKeeps DEF Goto
    <2>2. CASE /\ object = NoObject /\ Smooth
               /\ sig' = [sig EXCEPT ![w] = NoObject] /\ Goto(w, "plan") /\ UNCHANGED body
      <3>1. NoObject \in seen[w] /\ NoObject = DataOf(object)
        BY <1>0, <2>0, <2>2 DEF WriterOK, Looks, Looking, DataOf
      <3> QED
        BY <3>1, <1>0, <2>0, <2>2, LookKeeps DEF Goto
    <2>3. CASE Errs(w) /\ UNCHANGED body /\ Goto(w, "failed") /\ UNCHANGED sig
      <3>1. sidecar' \in Maybe /\ UNCHANGED <<kind, object, removing, session>>
        BY <1>0, <2>0, <2>3 DEF store, session, Types
      <3> QED
        BY <2>3, <3>1, FailKeeps
    <2>4. CASE /\ Errs(w) /\ UNCHANGED body
               /\ kind = "nfs" /\ Goto(w, "plan") /\ sig' = [sig EXCEPT ![w] = NoObject]
      BY <1>0, <2>0, <2>4, LookKeeps DEF Goto
    <2> QED
      BY <1>1, <2>1, <2>2, <2>3, <2>4 DEF GetObject
  <1>2. CASE StatObject(w)
    <2>0. pc[w] = "size" /\ UNCHANGED <<kind, store, old, body, stage>>
      BY <1>2 DEF StatObject
    <2>1. ASSUME Goto(w, "failed"), UNCHANGED <<sig, hint>>, Errs(w) \/ (Smooth /\ w \in disturbed)
          PROVE  IInv'
      <3>1. sidecar' \in Maybe /\ UNCHANGED <<kind, object, removing, session>>
        BY <1>0, <2>0, <2>1 DEF store, session, Types
      <3> QED
        BY <2>1, <3>1, FailKeeps
    <2>2. CASE object = NoObject /\ Goto(w, "failed") /\ Smooth /\ UNCHANGED <<sig, hint>>
      <3>1. w \in disturbed
        BY <1>0, <2>0, <2>2 DEF WriterOK, Undisturbed
      <3> QED
        BY <2>1, <2>2, <3>1
    <2>3. CASE /\ object # NoObject /\ Goto(w, "hash") /\ Smooth
               /\ hint' = [hint EXCEPT ![w] = Len(object.data)]
               /\ sig' = [sig EXCEPT ![w] = <<>>]
      <3>1. /\ <<>> \in Seq(Block) /\ <<>> \in Sigs
            /\ Len(<<>>) = 0 /\ DOMAIN <<>> = {}
        BY EmptySeq DEF Sigs
      <3>2. PiecedFrom(<<>>, seen[w])
        BY <3>1 DEF PiecedFrom
      <3>3. Begins(<<>>, body[w])
        <4>1. body[w] \in Seq(Block)
          BY <1>0, <2>0, ContentFacts DEF WriterOK, Looks, Maybe
        <4> QED
          BY <4>1, <3>1, LenProperties DEF Begins
      <3> HIDE DEF PiecedFrom, Begins
      <3> QED
        BY <3>1, <3>2, <3>3, <1>0, <2>0, <2>3, LookKeeps DEF Goto
    <2> QED
      BY <1>2, <2>1, <2>2, <2>3 DEF StatObject
  <1> QED
    BY <1>1, <1>2

(* One block more.  It is from a content that was at the path, and at its place
   there; read from the same body as all before it, it goes on with that body. *)
LEMMA NextPiece ==
  ASSUME NEW s \in Seq(Block), NEW d \in Seq(Block), NEW C, d \in C, d # NoObject,
         Len(s) < Len(d), PiecedFrom(s, C), NEW one \in BOOLEAN, one => Begins(s, d)
  PROVE  /\ Append(s, d[Len(s) + 1]) \in Seq(Block)
         /\ PiecedFrom(Append(s, d[Len(s) + 1]), C)
         /\ one => Begins(Append(s, d[Len(s) + 1]), d)
  <1> DEFINE x == d[Len(s) + 1]
             t == Append(s, x)
  <1>1. /\ Len(s) \in Nat /\ DOMAIN s = 1..Len(s)
        /\ Len(d) \in Nat /\ DOMAIN d = 1..Len(d)
    BY LenProperties
  <1>2. Len(s) + 1 \in 1..Len(d) /\ x \in Block
    <2>1. Len(s) + 1 \in 1..Len(d)
      BY <1>1
    <2> QED
      BY <2>1, ElementOfSeq
  <1>3. /\ t \in Seq(Block) /\ Len(t) = Len(s) + 1
        /\ \A i \in 1..Len(s) : t[i] = s[i]
        /\ t[Len(s) + 1] = x
    BY <1>2, AppendProperties
  <1>4. DOMAIN t = 1..(Len(s) + 1)
    BY <1>3, LenProperties
  <1>5. \A i \in DOMAIN t : (i \in DOMAIN s /\ t[i] = s[i]) \/ (i = Len(s) + 1 /\ t[i] = x)
    BY <1>1, <1>3, <1>4
  <1> HIDE DEF t, x
  <1>6. PiecedFrom(t, C)
    <2>1. ASSUME NEW i \in DOMAIN t PROVE \E c \in C \ {NoObject} : i \in DOMAIN c /\ t[i] = c[i]
      <3>1. CASE i \in DOMAIN s /\ t[i] = s[i]
        BY <3>1 DEF PiecedFrom
      <3>2. CASE i = Len(s) + 1 /\ t[i] = x
        BY <3>2, <1>1, <1>2 DEF x
      <3> QED
        BY <1>5, <3>1, <3>2
    <2> QED
      BY <2>1 DEF PiecedFrom
  <1>7. one => Begins(t, d)
    <2>1. ASSUME one, NEW i \in DOMAIN t PROVE t[i] = d[i]
      BY <2>1, <1>5 DEF Begins, x
    <2> QED
      BY <2>1, <1>1, <1>3 DEF Begins
  <1> QED
    BY <1>3, <1>6, <1>7 DEF t, x

\* Reading the object block by block.
LEMMA HashKeeps ==
  ASSUME IInv, NEW w \in Writer, HashBlock(w)
  PROVE  IInv'
  <1> DEFINE s == Append(sig[w], body[w][Len(sig[w]) + 1])
             one == kind = "s3" \/ w \notin disturbed
  <1>0. /\ WriterOK(w) /\ Types /\ sig[w] \in Sigs /\ body[w] \in Maybe /\ hint[w] \in Nat
        /\ pc[w] = "hash" /\ UNCHANGED <<kind, store, old, body, stage>> /\ hint' = hint
    BY WriterTypes DEF IInv, HashBlock
  <1>1. /\ sig[w] \in Seq(Block) /\ PiecedFrom(sig[w], seen[w])
        /\ body[w] \in seen[w] /\ body[w] # NoObject /\ body[w] \in Seq(Block)
        /\ one => Begins(sig[w], body[w])
    BY <1>0, ContentFacts DEF WriterOK, Looks, Maybe
  <1>2. w \notin disturbed => /\ object # NoObject /\ body[w] = object.data
                             /\ hint[w] = Len(object.data) /\ DataOf(object) = object.data
    BY <1>0 DEF WriterOK, Undisturbed, DataOf
  <1>3. Len(sig[w]) \in Nat /\ Len(body[w]) \in Nat
    BY <1>1, LenProperties
  <1>4. CASE /\ Len(sig[w]) < Len(body[w]) /\ Smooth /\ pc' = pc
             /\ sig' = [sig EXCEPT ![w] = s]
    <2>1. /\ s \in Seq(Block) /\ PiecedFrom(s, seen[w])
          /\ one => Begins(s, body[w])
      <3>1. one \in BOOLEAN
        OBVIOUS
      <3> HIDE DEF one
      <3> QED
        BY <1>1, <1>4, <3>1, NextPiece
    <2>2. s \in Sigs
      BY <2>1 DEF Sigs
    <2> HIDE DEF s
    <2> QED
      BY <2>1, <2>2, <1>0, <1>2, <1>4, LookKeeps
  <1>5. one /\ ~(Len(sig[w]) < Len(body[w])) => sig[w] = body[w]
    BY <1>1, <1>3, Whole DEF Begins
  <1>6. ASSUME Goto(w, "failed"), UNCHANGED sig, Errs(w) \/ (Smooth /\ w \in disturbed)
        PROVE  IInv'
    <2>1. sidecar' \in Maybe /\ UNCHANGED <<kind, object, removing, session>>
      BY <1>0, <1>6 DEF store, session, Types
    <2> QED
      BY <1>6, <2>1, FailKeeps
  <1>7. CASE /\ Len(sig[w]) >= Len(body[w]) /\ Smooth /\ UNCHANGED sig
             /\ Goto(w, IF hint[w] \in {0, Len(sig[w])} THEN "plan" ELSE "failed")
    <2>0. ~(Len(sig[w]) < Len(body[w]))
      BY <1>3, <1>7
    <2>1. CASE hint[w] \in {0, Len(sig[w])}
      <3>1. \/ sig[w] \in seen[w] /\ (w \notin disturbed => sig[w] = DataOf(object))
            \/ kind = "nfs" /\ w \in disturbed /\ PiecedFrom(sig[w], seen[w])
        BY <1>0, <1>1, <1>2, <1>5, <2>0 DEF Types
      <3>2. Goto(w, "plan")
        BY <1>7, <2>1
      <3> QED
        BY <3>1, <3>2, <1>0, <1>7, LookKeeps DEF Goto
    <2>2. CASE hint[w] \notin {0, Len(sig[w])}
      <3>1. w \in disturbed
        BY <1>2, <1>5, <2>0, <2>2
      <3>2. Goto(w, "failed")
        BY <1>7, <2>2
      <3> QED
        BY <1>6, <1>7, <3>1, <3>2
    <2> QED
      BY <2>1, <2>2
  <1>9. CASE Errs(w) /\ Goto(w, "failed") /\ UNCHANGED sig
    BY <1>6, <1>9
  <1> QED
    BY <1>4, <1>7, <1>9 DEF HashBlock
-----------------------------------------------------------------------------
(* The engine's steps keep the invariant. *)
LEMMA PlanKeeps ==
  ASSUME IInv, NEW w \in Writer, Plan(w)
  PROVE  IInv'
  <1>0. /\ WriterOK(w) /\ Types /\ {} \in SUBSET Maybe /\ NoObject \in Maybe /\ 0 \in Nat /\ sidecar \in Maybe
        /\ sig[w] \in Sigs /\ old[w] \in Object \cup {NoObject} /\ stage[w] \in Seq(Block)
    BY WriterTypes DEF IInv, Maybe
  <1> DEFINE l == IF sig[w] = Wanted[w] THEN "skipped" ELSE "begin"
  <1>1. /\ pc[w] = "plan" /\ pc' = [pc EXCEPT ![w] = l] /\ l \in Label
        /\ seen' = [seen EXCEPT ![w] = {}]
        /\ body' = [body EXCEPT ![w] = NoObject] /\ hint' = [hint EXCEPT ![w] = 0]
        /\ UNCHANGED <<kind, object, sidecar, removing, sig, old, stage>>
        /\ UNCHANGED <<troubles, put, disturbed>>
    BY DEF Plan, Goto, store, Label, Over
  <1> HIDE DEF l
  <1>2. Types' /\ \A v \in Writer \ {w} : SameFor(v)
    BY <1>0, <1>1, StepTypes
  <1> USE DEF l
  <1>3. pc'[w] = l /\ l \in {"skipped", "begin"}
    BY <1>0, <1>1 DEF Types
  <1>4. Looks(w)' /\ Puts(w)'
    BY <1>0, <1>1, <1>3 DEF WriterOK, Looks, Puts, Looking
  <1>5. Stages(w)' /\ Undisturbed(w)'
    BY <1>0, <1>1, <1>3 DEF WriterOK, Stages, Undisturbed, DataOf
  <1> QED
    BY <1>1, <1>2, <1>4, <1>5, OwnStep DEF WriterOK

(* A step of a writer whose plan is made, to label l, with the old file o, the
   body b and the staging file g after it. *)
Writes(w, l, o, b, g) ==
    /\ pc[w] \in {"begin", "open", "send", "reuse"} /\ l \in {"open", "send", "reuse"}
    /\ UNCHANGED <<kind, store, sig, hint>>
    /\ pc' = [pc EXCEPT ![w] = l] \/ (pc' = pc /\ l = pc[w])
    /\ old' = [old EXCEPT ![w] = o] \/ (old' = old /\ o = old[w])
    /\ body' = [body EXCEPT ![w] = b] \/ (body' = body /\ b = body[w])
    /\ stage' = [stage EXCEPT ![w] = g] \/ (stage' = stage /\ g = stage[w])
    /\ Errs(w) \/ Smooth

(* What is asked of the state after it. *)
Sound(w, l, o, b, g) ==
    /\ o \in Object \cup {NoObject} /\ b \in Maybe /\ g \in Seq(Block)
    /\ Len(g) <= Len(Wanted[w]) /\ \A i \in DOMAIN g : g[i] = Wanted[w][i]
    /\ l = "reuse" => /\ g = stage[w] /\ Len(g) < Len(Wanted[w]) /\ o # NoObject
                      /\ NextBlock(w) \in BlocksOf(sig[w])
    /\ w \notin disturbed /\ ~Errs(w) =>
          /\ o = object
          /\ kind = "nfs" /\ l \in {"send", "reuse"} /\ object # NoObject => b = object.data

LEMMA WriteKeeps ==
  ASSUME IInv, NEW w \in Writer, NEW l, NEW o, NEW b, NEW g,
         Writes(w, l, o, b, g), Sound(w, l, o, b, g)
  PROVE  IInv'
  <1>0. /\ WriterOK(w) /\ Types /\ l \in {"open", "send", "reuse"} /\ l \in Label
        /\ pc[w] \in {"begin", "open", "send", "reuse"}
        /\ o \in Object \cup {NoObject} /\ b \in Maybe /\ g \in Seq(Block)
    BY DEF IInv, Label, Writes, Sound
  <1>1. /\ UNCHANGED <<kind, object, sidecar, removing, sig, hint, seen, put>>
        /\ disturbed' \in {disturbed, disturbed \cup {w}}
        /\ Trouble \/ troubles' = troubles
    BY DEF Writes, store, Errs, Smooth, history
  <1>2. Types' /\ \A v \in Writer \ {w} : SameFor(v)
    BY <1>0, <1>1, StepTypes, WriterTypes DEF Writes
  <1>3. pc'[w] = l /\ old'[w] = o /\ body'[w] = b /\ stage'[w] = g /\ sig'[w] = sig[w]
    BY <1>0, <1>1 DEF Types, Writes
  <1>4. w \notin disturbed' => w \notin disturbed /\ ~Errs(w)
    BY <1>1 DEF Errs
  <1>5. Looks(w)' /\ Puts(w)'
    BY <1>0, <1>1, <1>3 DEF WriterOK, Looks, Puts, Looking
  <1>6. Stages(w)'
    <2>1. l = "reuse" => NextBlock(w)' = NextBlock(w)
      BY <1>3 DEF NextBlock, Sound
    <2> QED
      BY <2>1, <1>3 DEF Stages, BlocksOf, Sound
  <1>7. Undisturbed(w)'
    <2>1. object' = object /\ DataOf(object)' = DataOf(object) /\ kind' = kind
      BY <1>1 DEF DataOf
    <2>2. w \notin disturbed => sig[w] = DataOf(object)
      BY <1>0 DEF WriterOK, Undisturbed
    <2> QED
      BY <2>1, <2>2, <1>0, <1>3, <1>4 DEF Undisturbed, Sound
  <1> QED
    BY <1>1, <1>2, <1>5, <1>6, <1>7, OwnStep DEF WriterOK

\* BeginWrite and the opening of the old file.
LEMMA BeginKeeps ==
  ASSUME IInv, NEW w \in Writer, BeginWrite(w) \/ BeginFails(w) \/ OpenOld(w)
  PROVE  IInv'
  <1>0. /\ WriterOK(w) /\ Types /\ sig[w] \in Sigs /\ body[w] \in Maybe /\ NoObject \in Maybe
        /\ old[w] \in Object \cup {NoObject} /\ stage[w] \in Seq(Block) /\ <<>> \in Seq(Block)
        /\ object \in Object \cup {NoObject}
        /\ object # NoObject => object.data \in Maybe
    BY WriterTypes, DataType DEF IInv, Maybe
  <1>1. CASE BeginWrite(w)
    <2>0. pc[w] = "begin" /\ UNCHANGED <<kind, store, sig, hint>> /\ body' = body
      BY <1>1 DEF BeginWrite
    <2>1. PICK o \in {object, NoObject} :
            /\ old' = [old EXCEPT ![w] = o]
            /\ (o = object /\ Smooth) \/ (Errs(w) /\ o = NoObject)
      BY <1>1 DEF BeginWrite
    <2>2. o \in Object \cup {NoObject} /\ old'[w] = o
      BY <1>0, <2>1 DEF Types
    <2> DEFINE l == IF kind = "nfs" /\ o # NoObject THEN "open" ELSE "send"
    <2>3. stage' = [stage EXCEPT ![w] = <<>>] /\ pc' = [pc EXCEPT ![w] = l]
      BY <1>1, <2>2 DEF BeginWrite, Goto
    <2>4. Len(<<>>) = 0 /\ DOMAIN <<>> = {} /\ Len(<<>>) <= Len(Wanted[w])
      BY ContentFacts, LenProperties, EmptySeq
    <2>5. Sound(w, l, o, body[w], <<>>)
      BY <1>0, <2>1, <2>2, <2>4 DEF Sound
    <2>6. Writes(w, l, o, body[w], <<>>)
      BY <2>0, <2>1, <2>3 DEF Writes
    <2> QED
      BY <2>5, <2>6, WriteKeeps
  <1>2. CASE BeginFails(w)
    <2>1. sidecar' \in Maybe /\ UNCHANGED <<kind, object, removing, session>>
      BY <1>0, <1>2 DEF BeginFails, store, Types
    <2> QED
      BY <2>1, <1>2, FailKeeps DEF BeginFails
  <1>3. CASE OpenOld(w)
    <2>0. /\ pc[w] = "open" /\ UNCHANGED <<kind, store, sig, hint>> /\ stage' = stage
          /\ pc' = [pc EXCEPT ![w] = "send"]
      BY <1>3 DEF OpenOld, Goto
    <2>1. w \notin disturbed => old[w] = object
      BY <1>0, <2>0 DEF WriterOK, Undisturbed
    <2>2. Len(stage[w]) <= Len(Wanted[w]) /\ \A i \in DOMAIN stage[w] : stage[w][i] = Wanted[w][i]
      BY <1>0 DEF WriterOK, Stages
    <2>3. CASE /\ object # NoObject /\ Smooth
               /\ body' = [body EXCEPT ![w] = object.data] /\ UNCHANGED old
      <3>1. Writes(w, "send", old[w], object.data, stage[w])
        BY <2>0, <2>3 DEF Writes
      <3>2. Sound(w, "send", old[w], object.data, stage[w])
        BY <1>0, <2>1, <2>2, <2>3 DEF Sound
      <3> QED
        BY <3>1, <3>2, WriteKeeps
    <2>4. CASE /\ object = NoObject /\ Smooth
               /\ old' = [old EXCEPT ![w] = NoObject] /\ UNCHANGED body
      <3>1. Writes(w, "send", NoObject, body[w], stage[w])
        BY <2>0, <2>4 DEF Writes
      <3>2. Sound(w, "send", NoObject, body[w], stage[w])
        BY <1>0, <2>2, <2>4 DEF Sound
      <3> QED
        BY <3>1, <3>2, WriteKeeps
    <2>5. CASE Errs(w) /\ old' = [old EXCEPT ![w] = NoObject] /\ UNCHANGED body
      <3>1. Writes(w, "send", NoObject, body[w], stage[w])
        BY <2>0, <2>5 DEF Writes
      <3>2. Sound(w, "send", NoObject, body[w], stage[w])
        BY <1>0, <2>2, <2>5 DEF Sound
      <3> QED
        BY <3>1, <3>2, WriteKeeps
    <2> QED
      BY <1>3, <2>3, <2>4, <2>5 DEF OpenOld
  <1> QED
    BY <1>1, <1>2, <1>3

(* A step of w from "send" or "reuse" to "failed" without a new error: something
   had disturbed it. *)
LEMMA GivesUp ==
  ASSUME IInv, NEW w \in Writer, UNCHANGED <<kind, store, session>>, Goto(w, "failed"),
         Errs(w) \/ (Smooth /\ w \in disturbed)
  PROVE  IInv'
  <1>1. sidecar' \in Maybe /\ UNCHANGED <<kind, object, removing, session>>
    BY DEF IInv, Types, store
  <1> QED
    BY <1>1, FailKeeps

\* Writing a block from the source, and looking at the old file for another.
LEMMA SendKeeps ==
  ASSUME IInv, NEW w \in Writer, WriteChunk(w) \/ CheckOld(w)
  PROVE  IInv'
  <1>0. /\ WriterOK(w) /\ Types /\ body[w] \in Maybe /\ sig[w] \in Sigs
        /\ old[w] \in Object \cup {NoObject} /\ stage[w] \in Seq(Block)
        /\ Wanted[w] \in Seq(Block)
    BY WriterTypes, ContentFacts DEF IInv
  <1>1. pc[w] = "send" /\ Len(stage[w]) < Len(Wanted[w])
    BY DEF WriteChunk, CheckOld
  <1>2. /\ Len(stage[w]) <= Len(Wanted[w])
        /\ \A i \in DOMAIN stage[w] : stage[w][i] = Wanted[w][i]
    BY <1>0 DEF WriterOK, Stages
  <1>3. w \notin disturbed =>
          /\ old[w] = object /\ sig[w] = DataOf(object)
          /\ kind = "nfs" /\ object # NoObject => body[w] = object.data
    BY <1>0, <1>1 DEF WriterOK, Undisturbed
  <1>4. CASE WriteChunk(w) /\ Smooth /\ pc' = pc /\ Put1(w, NextBlock(w))
    <2>1. /\ Append(stage[w], NextBlock(w)) \in Seq(Block)
          /\ Len(Append(stage[w], NextBlock(w))) <= Len(Wanted[w])
          /\ \A i \in DOMAIN Append(stage[w], NextBlock(w)) :
                Append(stage[w], NextBlock(w))[i] = Wanted[w][i]
      BY <1>0, <1>1, <1>2, AppendTrue DEF NextBlock
    <2>2. stage' = [stage EXCEPT ![w] = Append(stage[w], NextBlock(w))]
      BY <1>4 DEF Put1
    <2>3. UNCHANGED <<kind, store, sig, hint>> /\ old' = old /\ body' = body
      BY <1>4 DEF WriteChunk
    <2>4. Writes(w, "send", old[w], body[w], Append(stage[w], NextBlock(w)))
      BY <1>1, <1>4, <2>2, <2>3 DEF Writes
    <2>5. Sound(w, "send", old[w], body[w], Append(stage[w], NextBlock(w)))
      BY <1>0, <1>3, <2>1 DEF Sound
    <2> QED
      BY <2>4, <2>5, WriteKeeps
  <1>5. CASE WriteChunk(w) /\ Errs(w) /\ Goto(w, "failed") /\ UNCHANGED stage
    <2>1. UNCHANGED <<kind, store, session>>
      BY <1>5 DEF WriteChunk, session
    <2> QED
      BY <1>5, <2>1, GivesUp
  <1>6. CASE CheckOld(w)
    <2>0. UNCHANGED <<kind, store, session>> /\ NextBlock(w) \in BlocksOf(sig[w])
      BY <1>6 DEF CheckOld
    <2>1. CASE OldUnchanged(w) /\ Goto(w, "reuse") /\ Smooth
      <3>1. old[w] # NoObject
        BY <2>1 DEF OldUnchanged
      <3>2. /\ UNCHANGED <<kind, store, sig, hint>> /\ old' = old /\ body' = body /\ stage' = stage
            /\ pc' = [pc EXCEPT ![w] = "reuse"]
        BY <2>0, <2>1 DEF session, Goto
      <3>3. Writes(w, "reuse", old[w], body[w], stage[w])
        BY <1>1, <2>1, <3>2 DEF Writes
      <3>4. Sound(w, "reuse", old[w], body[w], stage[w])
        BY <1>0, <1>1, <1>2, <1>3, <2>0, <3>1 DEF Sound
      <3> QED
        BY <3>3, <3>4, WriteKeeps
    <2>2. CASE ~OldUnchanged(w) /\ Goto(w, "failed") /\ Smooth
      <3>1. w \notin disturbed => OldUnchanged(w)
        <4>1. sig[w] # NoObject
          BY <2>0 DEF BlocksOf
        <4> QED
          BY <4>1, <1>3 DEF OldUnchanged, DataOf
      <3> QED
        BY <2>0, <2>2, <3>1, GivesUp
    <2>3. CASE Errs(w) /\ Goto(w, "failed")
      BY <2>0, <2>3, GivesUp
    <2> QED
      BY <1>6, <2>1, <2>2, <2>3 DEF CheckOld
  <1> QED
    BY <1>4, <1>5, <1>6 DEF WriteChunk

(* Reusing a block: whatever the object has become since the check, what is
   staged is the block that was wanted, or the copy fails. *)
LEMMA ReuseKeeps ==
  ASSUME IInv, NEW w \in Writer, ReuseChunk(w)
  PROVE  IInv'
  <1>0. /\ WriterOK(w) /\ Types /\ body[w] \in Maybe /\ sig[w] \in Sigs
        /\ old[w] \in Object \cup {NoObject} /\ stage[w] \in Seq(Block)
        /\ Wanted[w] \in Seq(Block)
    BY WriterTypes, ContentFacts DEF IInv
  <1>1. /\ pc[w] = "reuse" /\ UNCHANGED <<kind, store, sig, hint>> /\ old' = old /\ body' = body
    BY DEF ReuseChunk
  <1>2. /\ Len(stage[w]) < Len(Wanted[w]) /\ NextBlock(w) \in BlocksOf(sig[w])
        /\ \A i \in DOMAIN stage[w] : stage[w][i] = Wanted[w][i]
    BY <1>0, <1>1 DEF WriterOK, Stages
  <1>3. /\ OldOffset(w) \in 1..Len(sig[w]) /\ sig[w][OldOffset(w)] = NextBlock(w)
        /\ sig[w] # NoObject /\ Len(sig[w]) \in Nat
    BY <1>0, <1>2, OffsetFound, ContentFacts, LenProperties
  <1>4. w \notin disturbed =>
          /\ old[w] = object /\ sig[w] = DataOf(object) /\ object # NoObject
          /\ sig[w] = object.data
          /\ kind = "nfs" => body[w] = object.data
    BY <1>0, <1>1, <1>3 DEF WriterOK, Undisturbed, DataOf
  <1>5. ASSUME UNCHANGED stage, Goto(w, "failed"), Errs(w) \/ (Smooth /\ w \in disturbed)
        PROVE  IInv'
    BY <1>1, <1>5, GivesUp DEF session
  <1>6. ASSUME NEW d, d = IF kind = "s3" THEN object.data ELSE body[w], Smooth,
               IF RightBlock(w, d) THEN Put1(w, d[OldOffset(w)]) /\ Goto(w, "send")
               ELSE Goto(w, "failed") /\ UNCHANGED stage
        PROVE  IInv'
    <2>1. CASE RightBlock(w, d)
      <3>1. /\ stage' = [stage EXCEPT ![w] = Append(stage[w], NextBlock(w))]
            /\ pc' = [pc EXCEPT ![w] = "send"]
        BY <1>6, <2>1 DEF RightBlock, Put1, Goto
      <3>2. /\ Append(stage[w], NextBlock(w)) \in Seq(Block)
            /\ Len(Append(stage[w], NextBlock(w))) <= Len(Wanted[w])
            /\ \A i \in DOMAIN Append(stage[w], NextBlock(w)) :
                  Append(stage[w], NextBlock(w))[i] = Wanted[w][i]
        BY <1>0, <1>2, AppendTrue DEF NextBlock
      <3>3. Writes(w, "send", old[w], body[w], Append(stage[w], NextBlock(w)))
        BY <1>1, <1>6, <3>1 DEF Writes
      <3>4. Sound(w, "send", old[w], body[w], Append(stage[w], NextBlock(w)))
        BY <1>0, <1>4, <3>2 DEF Sound
      <3> QED
        BY <3>3, <3>4, WriteKeeps
    <2>2. CASE ~RightBlock(w, d)
      <3>1. w \notin disturbed => d = sig[w]
        <4>1. w \notin disturbed => d \in {object.data, body[w]} /\ (kind = "s3" => d = object.data)
          BY <1>6
        <4> QED
          BY <4>1, <1>0, <1>4 DEF Types
      <3>2. w \notin disturbed => RightBlock(w, d)
        BY <1>3, <3>1 DEF RightBlock
      <3> QED
        BY <1>5, <1>6, <2>2, <3>2
    <2> QED
      BY <2>1, <2>2
  <1>7. CASE object = NoObject /\ Goto(w, "failed") /\ UNCHANGED stage /\ Smooth
    BY <1>4, <1>5, <1>7
  <1>8. CASE Errs(w) /\ Goto(w, "failed") /\ UNCHANGED stage
    BY <1>5, <1>8
  <1> QED
    BY <1>6, <1>7, <1>8 DEF ReuseChunk
-----------------------------------------------------------------------------
(* A change of the object keeps the part of the invariant of every writer that
   did not make it: it is disturbed, and has seen what is there now. *)
LEMMA ChangeKeeps ==
  ASSUME IInv, NEW o \in Object \cup {NoObject},
         o # NoObject => o.tag \in {NoObject, o.data},
         NEW who \in SUBSET Writer, Becomes(o, who), kind' = kind,
         UNCHANGED <<sig, hint, old, stage>>,
         NEW v \in Writer \ who, pc'[v] = pc[v],
         \/ body'[v] = body[v]
         \/ kind = "nfs" /\ Active(v) /\ o # NoObject /\ body'[v] = DataOf(o)
  PROVE  WriterOK(v)'
  <1>0. WriterOK(v) /\ Types /\ pc[v] \in Label
    BY WriterTypes DEF IInv
  <1>1. /\ sig'[v] = sig[v] /\ hint'[v] = hint[v] /\ old'[v] = old[v] /\ stage'[v] = stage[v]
        /\ seen'[v] = IF seen[v] = {} THEN {} ELSE seen[v] \cup {DataOf(o)}
        /\ DataOf(object)' = DataOf(o)
        /\ v \in put' <=> v \in put
    BY DEF Becomes, DataOf
  <1>2. v \in disturbed' <=> v \in disturbed \/ Active(v)
    BY DEF Becomes
  <1>3. Looks(v)'
    <2>1. DataOf(o) # NoObject \/ o = NoObject
      BY DataType, ContentFacts
    <2>2. PiecedFrom(sig[v], seen[v]) => PiecedFrom(sig[v], seen[v] \cup {DataOf(o)})
      BY DEF PiecedFrom
    <2>3. CASE pc[v] \in Looking
      <3>1. Active(v) /\ v \in disturbed'
        BY <1>0, <1>2, <2>3 DEF Active, Looking, Over
      <3>2. seen'[v] = seen[v] \cup {DataOf(o)} /\ DataOf(object) \in seen[v]
        BY <1>0, <1>1, <2>3 DEF WriterOK, Looks
      <3>3. PiecedFrom(sig[v], seen[v])' <=> PiecedFrom(sig[v], seen[v] \cup {DataOf(o)})
        BY <1>1, <3>2 DEF PiecedFrom
      <3>4. kind = "s3" => (Begins(sig[v], body[v])' <=> Begins(sig[v], body[v]))
        BY <1>1 DEF Begins
      <3> HIDE DEF PiecedFrom, Begins
      <3>5. pc[v] = "hash" => (PiecedFrom(sig[v], seen[v])' /\ (kind = "s3" => Begins(sig[v], body[v])'))
        BY <1>0, <2>2, <3>3, <3>4 DEF WriterOK, Looks
      <3>6. pc[v] \in {"size", "hash"} => body'[v] \in seen'[v] \ {NoObject}
        BY <1>0, <2>1, <3>2 DEF WriterOK, Looks
      <3>7. pc[v] = "plan" => \/ sig[v] \in seen'[v]
                              \/ kind = "nfs" /\ (sig[v] = NoObject \/ PiecedFrom(sig[v], seen[v])')
        BY <1>0, <2>2, <3>2, <3>3 DEF WriterOK, Looks
      <3> QED
        BY <1>0, <1>1, <3>1, <3>2, <3>5, <3>6, <3>7 DEF WriterOK, Looks
    <2>4. CASE pc[v] \notin Looking
      BY <2>4 DEF Looks, Looking
    <2> QED
      BY <2>3, <2>4
  <1>4. Stages(v)'
    BY <1>0, <1>1 DEF WriterOK, Stages, NextBlock, BlocksOf
  <1>5. Undisturbed(v)'
    BY <1>0, <1>2 DEF WriterOK, Undisturbed, Active, Over
  <1>6. Puts(v)'
    BY <1>0, <1>1 DEF WriterOK, Puts
  <1> QED
    BY <1>3, <1>4, <1>5, <1>6 DEF WriterOK

\* The types of what it changes.
LEMMA ChangeTypes ==
  ASSUME Types, NEW o \in Object \cup {NoObject}, NEW who \in SUBSET Writer, Becomes(o, who)
  PROVE  /\ object' \in Object \cup {NoObject} /\ seen' \in [Writer -> SUBSET Maybe]
         /\ put' \subseteq Writer /\ disturbed' \subseteq Writer
  <1>1. DataOf(o) \in Maybe
    BY DataType
  <1>2. \A w \in Writer : seen[w] \in SUBSET Maybe
    BY DEF Types
  <1>3. seen' \in [Writer -> SUBSET Maybe]
    BY <1>1, <1>2 DEF Becomes
  <1> QED
    BY <1>3 DEF Becomes, Types

\* Removals that have nothing left to do but the sidecar's.
LEMMA SidecarGoes ==
  ASSUME IInv, UNCHANGED <<kind, object, pc, sig, hint, old, body, stage, put, disturbed, seen>>,
         sidecar' \in Maybe, troubles' \in 0..MaxTroubles, removing' \in 0..troubles'
  PROVE  IInv'
  <1>1. Types'
    BY DEF IInv, Types
  <1>2. TagOK'
    BY DEF IInv, TagOK
  <1>3. ASSUME NEW v \in Writer PROVE WriterOK(v)'
    <2>1. WriterOK(v)
      BY DEF IInv
    <2>2. Looks(v)' /\ Puts(v)'
      BY <2>1 DEF WriterOK, Looks, Puts, DataOf, PiecedFrom, Begins
    <2>3. Stages(v)' /\ Undisturbed(v)'
      BY <2>1 DEF WriterOK, Stages, Undisturbed, DataOf, NextBlock, BlocksOf
    <2> QED
      BY <2>2, <2>3 DEF WriterOK
  <1> QED
    BY <1>1, <1>2, <1>3 DEF IInv

LEMMA RemoveKeeps ==
  ASSUME IInv, RemoveSidecar \/ RemoveStops
  PROVE  IInv'
  <1>1. /\ UNCHANGED <<kind, object, pc, sig, hint, old, body, stage, troubles, put, disturbed, seen>>
        /\ sidecar' \in {sidecar, NoObject} /\ removing > 0 /\ removing' = removing - 1
    BY DEF RemoveSidecar, RemoveStops, session, history
  <1>2. /\ sidecar' \in Maybe /\ troubles' \in 0..MaxTroubles /\ removing' \in 0..troubles'
    BY <1>1, ContentFacts DEF IInv, Types, Maybe
  <1> QED
    BY <1>1, <1>2, SidecarGoes

\* Another run's --delete, and another program's upload.
LEMMA OthersKeep ==
  ASSUME IInv, Remove \/ Overwrite
  PROVE  IInv'
  <1>0. Types /\ NoObject \in Maybe /\ kind' = kind /\ UNCHANGED <<sidecar, pc, sig, hint, old, stage>>
    BY DEF IInv, Maybe, Remove, Overwrite, session
  <1>1. troubles' \in 0..MaxTroubles /\ removing' \in 0..troubles'
    <2>1. Trouble /\ removing' \in {removing, removing + 1}
      BY DEF Remove, Overwrite
    <2> QED
      BY <1>0, <2>1, ContentFacts DEF Types, Trouble
  <1>2. CASE Remove /\ object = NoObject
    <2>1. UNCHANGED <<object, body, put, disturbed, seen>> /\ sidecar' \in Maybe
      BY <1>0, <1>2 DEF Remove, history, session, Types
    <2> QED
      BY <1>0, <1>1, <2>1, SidecarGoes
  <1>3. ASSUME NEW o \in Object \cup {NoObject}, Becomes(o, {}),
               o # NoObject => o.tag \in {NoObject, o.data},
               body' \in [Writer -> Maybe],
               \A v \in Writer : \/ body'[v] = body[v]
                                 \/ kind = "nfs" /\ Active(v) /\ o # NoObject /\ body'[v] = DataOf(o)
        PROVE  IInv'
    <2>1. {} \in SUBSET Writer
      OBVIOUS
    <2>2. /\ object' \in Object \cup {NoObject} /\ seen' \in [Writer -> SUBSET Maybe]
          /\ put' \subseteq Writer /\ disturbed' \subseteq Writer
      BY <1>0, <1>3, <2>1, ChangeTypes
    <2>3. Types'
      BY <1>0, <1>1, <1>3, <2>2 DEF Types
    <2>4. TagOK'
      BY <1>3 DEF Becomes, TagOK
    <2>5. ASSUME NEW v \in Writer PROVE WriterOK(v)'
      <3>1. v \in Writer \ {} /\ pc'[v] = pc[v]
        BY <1>0
      <3> QED
        BY <1>0, <1>3, <2>1, <3>1, ChangeKeeps
    <2> QED
      BY <2>3, <2>4, <2>5 DEF IInv
  <1>4. CASE Remove /\ object # NoObject
    <2>1. Becomes(NoObject, {}) /\ body' = body
      BY <1>4 DEF Remove, session
    <2>2. body' \in [Writer -> Maybe] /\ NoObject \in Object \cup {NoObject}
      BY <1>0, <2>1 DEF Types
    <2> QED
      BY <1>3, <2>1, <2>2
  <1>5. CASE Overwrite
    <2>0. PICK c \in Content, who \in SUBSET Reading :
            /\ \E o \in Kept(c, NoObject) : Becomes(o, {})
            /\ body' = [v \in Writer |-> IF v \in who THEN c ELSE body[v]]
      BY <1>5 DEF Overwrite
    <2>1. PICK o \in Kept(c, NoObject) : Becomes(o, {})
      BY <2>0
    <2>2. o \in Object /\ o # NoObject /\ o.tag = NoObject /\ DataOf(o) = c /\ c \in Maybe
      BY KeptObject, <1>0 DEF Maybe
    <2>3. body' \in [Writer -> Maybe]
      BY <1>0, <2>0, <2>2 DEF Types
    <2>4. ASSUME NEW v \in Writer
          PROVE  \/ body'[v] = body[v]
                 \/ kind = "nfs" /\ Active(v) /\ o # NoObject /\ body'[v] = DataOf(o)
      <3>1. v \in Reading => kind = "nfs" /\ Active(v)
        BY DEF Reading, Active, Over
      <3> QED
        BY <2>0, <2>2, <3>1
    <2> QED
      BY <1>3, <2>1, <2>2, <2>3, <2>4
  <1> QED
    BY <1>2, <1>4, <1>5

(* Commit installs what was wanted: what is staged is never anything else, so
   comparing the digests never fails. *)
LEMMA StagedWhole ==
  ASSUME IInv, NEW w \in Writer, Complete(w)
  PROVE  stage[w] = Wanted[w]
  <1>1. stage[w] \in Seq(Block) /\ Wanted[w] \in Seq(Block) /\ Len(stage[w]) = Len(Wanted[w])
    BY WriterTypes, ContentFacts DEF IInv, Complete
  <1>2. \A i \in DOMAIN stage[w] : stage[w][i] = Wanted[w][i]
    BY DEF IInv, WriterOK, Stages
  <1> QED
    BY <1>1, <1>2, Whole

LEMMA PromoteKeeps ==
  ASSUME IInv, NEW w \in Writer, Promote(w)
  PROVE  IInv'
  <1>0. Types /\ WriterOK(w) /\ "answer" \in Label /\ NoObject \in Maybe
        /\ Wanted[w] \in Content /\ Wanted[w] \in Maybe
    BY ContentFacts DEF IInv, Label, Maybe
  <1>1. Complete(w) /\ stage[w] = Wanted[w] /\ pc[w] = "send"
    BY StagedWhole DEF Promote, Complete
  <1>2. PICK o \in Promoted(w) : Becomes(o, {w})
    BY <1>1 DEF Promote
  <1>3. /\ pc' = [pc EXCEPT ![w] = "answer"]
        /\ UNCHANGED <<kind, sidecar, removing, sig, hint, old, body, stage, troubles>>
        /\ UNCHANGED session
    BY <1>1 DEF Promote, Goto, session
  <1>4. o \in Object \cup {NoObject} /\ o.tag \in {NoObject, o.data}
    BY <1>0, <1>1, <1>2, KeptObject DEF Promoted
  <1>5. Types'
    <2>1. {w} \in SUBSET Writer
      OBVIOUS
    <2>2. /\ object' \in Object \cup {NoObject} /\ seen' \in [Writer -> SUBSET Maybe]
          /\ put' \subseteq Writer /\ disturbed' \subseteq Writer
      BY <1>0, <1>2, <1>4, <2>1, ChangeTypes
    <2>3. pc' \in [Writer -> Label]
      BY <1>0, <1>3 DEF Types
    <2> QED
      BY <1>0, <1>3, <2>2, <2>3 DEF Types
  <1>6. TagOK'
    BY <1>2, <1>4 DEF Becomes, TagOK
  <1>7. ASSUME NEW v \in Writer \ {w} PROVE WriterOK(v)'
    <2>1. {w} \in SUBSET Writer /\ pc'[v] = pc[v]
      BY <1>0, <1>3 DEF Types
    <2> QED
      BY <1>2, <1>3, <1>4, <2>1, ChangeKeeps
  <1>8. WriterOK(w)'
    <2>1. pc'[w] = "answer" /\ w \in put' /\ stage'[w] = stage[w]
      BY <1>0, <1>2, <1>3 DEF Types, Becomes
    <2>2. Looks(w)' /\ Puts(w)' /\ Undisturbed(w)'
      BY <2>1 DEF Looks, Looking, Puts, Undisturbed
    <2>3. Stages(w)'
      BY <1>0, <2>1 DEF WriterOK, Stages
    <2> QED
      BY <2>2, <2>3 DEF WriterOK
  <1> QED
    BY <1>5, <1>6, <1>7, <1>8 DEF IInv

(* A writer whose version is at the path goes on, or dies. *)
LEMMA EndKeeps ==
  ASSUME IInv, NEW w \in Writer, NEW l \in {"putSig", "ok", "crashed"}, Goto(w, l),
         UNCHANGED <<kind, object, removing, session>>, sidecar' \in Maybe,
         put' = put, disturbed' = disturbed,
         seen' = seen \/ seen' = [seen EXCEPT ![w] = {}],
         Trouble \/ troubles' = troubles,
         l # "crashed" => w \in put
  PROVE  IInv'
  <1>0. WriterOK(w) /\ Types /\ l \in Label /\ {} \in SUBSET Maybe
    BY DEF IInv, Label, Over
  <1>1. pc' = [pc EXCEPT ![w] = l] /\ UNCHANGED <<sig, hint, old, body, stage>>
    BY DEF Goto, session
  <1>2. Types' /\ \A v \in Writer \ {w} : SameFor(v)
    BY <1>0, <1>1, StepTypes, WriterTypes
  <1>3. pc'[w] = l
    BY <1>0, <1>1 DEF Types
  <1>4. Looks(w)' /\ Puts(w)' /\ Undisturbed(w)'
    BY <1>3 DEF Looks, Looking, Puts, Undisturbed
  <1>5. Stages(w)'
    BY <1>0, <1>1, <1>3 DEF WriterOK, Stages
  <1> QED
    BY <1>2, <1>4, <1>5, OwnStep DEF WriterOK

\* The rest of Commit, and a crash.
LEMMA CommitKeeps ==
  ASSUME IInv, NEW w \in Writer,
         PromoteFails(w) \/ PutAnswered(w) \/ PutSidecar(w) \/ Crash(w)
  PROVE  IInv'
  <1>0. /\ Types
        /\ pc[w] \in {"answer", "putSig"} => w \in put
        /\ sidecar \in Maybe /\ Wanted[w] \in Maybe
    BY ContentFacts DEF IInv, WriterOK, Puts, Types, Maybe
  <1>1. CASE PromoteFails(w)
    BY <1>1, GivesUp DEF PromoteFails, OnPutError
  <1>2. CASE PutAnswered(w)
    <2>1. PICK l \in {"putSig", "ok"} : Goto(w, l)
      BY <1>2 DEF PutAnswered
    <2>2. /\ UNCHANGED <<kind, object, removing, session>> /\ sidecar' = sidecar
          /\ UNCHANGED <<put, disturbed, seen, troubles>>
      BY <1>2 DEF PutAnswered, store, history
    <2>3. w \in put
      BY <1>0, <1>2 DEF PutAnswered
    <2> QED
      BY <1>0, <2>1, <2>2, <2>3, EndKeeps
  <1>3. CASE PutSidecar(w)
    <2>1. UNCHANGED <<kind, object, removing, session>> /\ w \in put
      BY <1>0, <1>3 DEF PutSidecar
    <2>2. CASE sidecar' = Wanted[w] /\ Goto(w, "ok") /\ Smooth
      <3>1. UNCHANGED <<put, disturbed, seen, troubles>>
        BY <2>2 DEF Smooth, history
      <3> QED
        BY <1>0, <2>1, <2>2, <3>1, EndKeeps
    <2>3. CASE Errs(w) /\ sidecar' \in {sidecar, Wanted[w]} /\ Goto(w, "failed")
      BY <1>0, <2>1, <2>3, FailKeeps
    <2> QED
      BY <1>3, <2>2, <2>3 DEF PutSidecar
  <1>4. CASE Crash(w)
    <2>1. /\ UNCHANGED <<kind, object, removing, session>> /\ sidecar' = sidecar
          /\ UNCHANGED <<put, disturbed>> /\ Trouble
          /\ Goto(w, "crashed") /\ seen' = [seen EXCEPT ![w] = {}]
      BY <1>4 DEF Crash, store
    <2> QED
      BY <1>0, <2>1, EndKeeps
  <1> QED
    BY <1>1, <1>2, <1>3, <1>4
-----------------------------------------------------------------------------
\* The initial states satisfy the invariant.
LEMMA InitInv == Init => IInv
  <1> SUFFICES ASSUME Init PROVE IInv
    OBVIOUS
  <1>1. object \in Object \cup {NoObject} /\ TagOK
    <2>1. CASE object = NoObject
      BY <2>1 DEF TagOK
    <2>2. ASSUME NEW c \in Content, object \in Kept(c, NoObject) \cup Kept(c, c)
          PROVE  object \in Object \cup {NoObject} /\ TagOK
      BY <2>2, KeptObject DEF TagOK, Maybe
    <2>3. \/ object = NoObject
          \/ object \in UNION {Kept(c, NoObject) : c \in Content}
          \/ object \in UNION {Kept(c, c) : c \in Content}
      BY DEF Init
    <2>4. \/ object = NoObject
          \/ \E c \in Content : object \in Kept(c, NoObject) \cup Kept(c, c)
      BY <2>3
    <2> QED
      BY <2>1, <2>2, <2>4
  <1>2. Types
    <2>0. sidecar \in Maybe /\ kind \in {"s3", "nfs"}
      BY DEF Init, Maybe
    <2>1. troubles \in 0..MaxTroubles /\ removing \in 0..troubles
      <3>1. troubles = 0 /\ MaxTroubles \in Nat
        BY ContentFacts DEF Init
      <3> QED
        BY <3>1 DEF Init
    <2>4. put \subseteq Writer /\ disturbed \subseteq Writer
      BY DEF Init
    <2>2. /\ pc \in [Writer -> Label] /\ sig \in [Writer -> Sigs] /\ body \in [Writer -> Maybe]
          /\ hint \in [Writer -> Nat]
      BY DEF Init, Label, Maybe, Sigs
    <2>3. /\ old \in [Writer -> Object \cup {NoObject}] /\ stage \in [Writer -> Seq(Block)]
          /\ seen \in [Writer -> SUBSET Maybe]
      BY EmptySeq DEF Init
    <2> QED
      BY <1>1, <2>0, <2>1, <2>2, <2>3, <2>4 DEF Types
  <1>3. ASSUME NEW w \in Writer PROVE WriterOK(w)
    <2>1. pc[w] = "idle" /\ stage[w] = <<>> /\ w \notin put
      BY DEF Init
    <2>2. Len(<<>>) = 0 /\ DOMAIN <<>> = {} /\ Len(<<>>) <= Len(Wanted[w])
      BY ContentFacts, LenProperties, EmptySeq
    <2> QED
      BY <2>1, <2>2 DEF WriterOK, Looks, Looking, Stages, Undisturbed, Puts
  <1> QED
    BY <1>1, <1>2, <1>3 DEF IInv

\* And so does every step from a state that does.
LEMMA StepInv == IInv /\ [Next]_vars => IInv'
  <1> SUFFICES ASSUME IInv, [Next]_vars PROVE IInv'
    OBVIOUS
  <1>1. CASE UNCHANGED vars
    <2>1. UNCHANGED <<kind, object, sidecar, removing, pc, sig, hint, old, body, stage, troubles,
                      put, disturbed, seen>>
      BY <1>1 DEF vars, store, session, history
    <2>2. Types' /\ TagOK'
      BY <2>1 DEF IInv, Types, TagOK
    <2>3. ASSUME NEW v \in Writer PROVE WriterOK(v)'
      <3>1. WriterOK(v)
        BY DEF IInv
      <3>2. Looks(v)' /\ Puts(v)'
        BY <2>1, <3>1 DEF WriterOK, Looks, Puts, DataOf
      <3>3. Stages(v)' /\ Undisturbed(v)'
        BY <2>1, <3>1 DEF WriterOK, Stages, Undisturbed, DataOf, NextBlock, BlocksOf
      <3> QED
        BY <3>2, <3>3 DEF WriterOK
    <2> QED
      BY <2>2, <2>3 DEF IInv
  <1> QED
    BY <1>1, StartKeeps, SidecarKeeps, ReadKeeps, HashKeeps, PlanKeeps, BeginKeeps, SendKeeps, ReuseKeeps,
       PromoteKeeps, CommitKeeps, OthersKeep, RemoveKeeps DEF Next

LEMMA Inductive == Spec => []IInv
  BY InitInv, StepInv, PTL DEF Spec

(* For any writers, contents, clock and bound on what happens to them, the state
   has the types of the variables, and no block is reused from an unknown file. *)
THEOREM TypeCorrect == Spec => []TypeOK
  BY Inductive, InvImplies, PTL

(* GetSignature returns the signature of a content that the path had while it
   ran, whatever sidecars earlier runs and others left; on NFS, if the object was
   changed meanwhile, one of blocks that such contents had in their places. *)
THEOREM SignaturesAreTrue == Spec => []SignatureIsTrue
  BY Inductive, InvImplies, PTL

(* What is staged is what was wanted, block by block, whenever and however often
   the object is replaced. *)
THEOREM StagedBlocksAreTrue == Spec => []StagedBlocksTrue
  BY Inductive, InvImplies, PTL

(* A copy that meets no error, and whose object nobody else changes, does not fail. *)
THEOREM FailuresHaveCauses == Spec => []FailureHasCause
  BY Inductive, InvImplies, PTL
-----------------------------------------------------------------------------
(* The mapping to StagedWrite.  A step of w that leaves the object alone maps by
   what w's caller learns from it. *)
CallerStep(w, from, to) == \/ Caller(from) = Caller(to)
                           \/ Caller(from) \in {"idle", "open"} /\ Caller(to) = "failed"
                           \/ Caller(from) = "idle" /\ Caller(to) = "open"
                           \/ Caller(from) = "open" /\ Caller(to) = "ok" /\ w \in put

LEMMA CallerMaps ==
  ASSUME pc \in [Writer -> Label], NEW w \in Writer, NEW l,
         pc' = [pc EXCEPT ![w] = l] \/ (pc' = pc /\ l = pc[w]),
         object' = object, put' = put, CallerStep(w, pc[w], l)
  PROVE  Staged!Next \/ UNCHANGED Staged!vars
  <1> DEFINE before == [v \in Writer |-> Caller(pc[v])]
             after  == [v \in Writer |-> Caller(pc'[v])]
  <1>1. after = [before EXCEPT ![w] = Caller(l)]
    <2>1. \A v \in Writer : after[v] = IF v = w THEN Caller(l) ELSE before[v]
      OBVIOUS
    <2> QED
      BY <2>1
  <1>2. before[w] = Caller(pc[w])
    OBVIOUS
  <1>3. Caller(pc[w]) = Caller(l) => after = before
    BY <1>1, <1>2
  <1>4. [path |-> DataOf(object)]' = [path |-> DataOf(object)]
    BY DEF DataOf
  <1> HIDE DEF before
  <1>5. CASE Caller(pc[w]) = Caller(l)
    BY <1>3, <1>4, <1>5 DEF Staged!vars, before
  <1>6. CASE Caller(pc[w]) \in {"idle", "open"} /\ Caller(l) = "failed"
    <2>1. Staged!Fail(w)
      BY <1>1, <1>2, <1>4, <1>6 DEF Staged!Fail, before
    <2> QED
      BY <2>1 DEF Staged!Next
  <1>7. CASE Caller(pc[w]) = "idle" /\ Caller(l) = "open"
    <2>1. Staged!Open(w)
      BY <1>1, <1>2, <1>4, <1>7 DEF Staged!Open, before
    <2> QED
      BY <2>1 DEF Staged!Next
  <1>8. CASE Caller(pc[w]) = "open" /\ Caller(l) = "ok" /\ w \in put
    <2>1. Staged!Succeed(w)
      BY <1>1, <1>2, <1>4, <1>8 DEF Staged!Succeed, before
    <2> QED
      BY <2>1 DEF Staged!Next
  <1> QED
    BY <1>5, <1>6, <1>7, <1>8 DEF CallerStep

\* The steps of a writer that leave the object alone.
LEMMA WriterMaps ==
  ASSUME IInv, NEW w \in Writer,
         \/ Start(w) \/ GetSidecar(w) \/ Bind(w) \/ GetObject(w) \/ StatObject(w)
         \/ HashBlock(w) \/ Plan(w) \/ BeginWrite(w) \/ BeginFails(w) \/ OpenOld(w) \/ WriteChunk(w)
         \/ CheckOld(w) \/ ReuseChunk(w) \/ PromoteFails(w)
         \/ PutAnswered(w) \/ PutSidecar(w) \/ Crash(w)
  PROVE  Staged!Next \/ UNCHANGED Staged!vars
  <1>0. pc \in [Writer -> Label]
    BY DEF IInv, Types
  <1>1. object' = object /\ put' = put
    <2>1. CASE Start(w) \/ GetSidecar(w) \/ Bind(w) \/ GetObject(w) \/ StatObject(w) \/ HashBlock(w)
      BY <2>1 DEF Start, GetSidecar, Bind, GetObject, StatObject, HashBlock, store, Smooth, Errs,
                  history
    <2>2. CASE Plan(w) \/ BeginWrite(w) \/ BeginFails(w) \/ OpenOld(w) \/ WriteChunk(w)
      BY <2>2 DEF Plan, BeginWrite, BeginFails, OpenOld, WriteChunk, store, Smooth, Errs, history
    <2>3. CASE CheckOld(w) \/ ReuseChunk(w) \/ PromoteFails(w)
      BY <2>3 DEF CheckOld, ReuseChunk, PromoteFails, store, Smooth, Errs, history
    <2>4. CASE PutAnswered(w) \/ PutSidecar(w) \/ Crash(w)
      BY <2>4 DEF PutAnswered, PutSidecar, Crash, store, Smooth, Errs, history
    <2> QED
      BY <2>1, <2>2, <2>3, <2>4
  <1> SUFFICES \E l \in Label : /\ pc' = [pc EXCEPT ![w] = l] \/ (pc' = pc /\ l = pc[w])
                                /\ CallerStep(w, pc[w], l)
    BY <1>0, <1>1, CallerMaps
  <1> USE DEF Goto, Label, Over
  <1>2. CASE \/ Start(w) \/ GetSidecar(w) \/ Bind(w) \/ GetObject(w) \/ StatObject(w)
             \/ HashBlock(w) \/ Plan(w)
    <2>1. PICK l \in {"sidecar", "bind", "get", "size", "hash", "plan", "failed", "skipped", "begin"} :
            pc' = [pc EXCEPT ![w] = l] \/ (pc' = pc /\ l = pc[w])
      BY <1>2 DEF Start, GetSidecar, Bind, GetObject, StatObject, HashBlock, Plan
    <2>2. pc[w] \in {"idle", "sidecar", "bind", "get", "size", "hash", "plan"}
      BY <1>2 DEF Start, GetSidecar, Bind, GetObject, StatObject, HashBlock, Plan
    <2>3. CallerStep(w, pc[w], l)
      BY <2>1, <2>2 DEF CallerStep, Caller
    <2> QED
      BY <2>1, <2>3
  <1>3. CASE BeginWrite(w) \/ BeginFails(w) \/ OpenOld(w) \/ CheckOld(w) \/ ReuseChunk(w)
    <2>1. PICK l \in {"open", "send", "reuse", "failed"} : pc' = [pc EXCEPT ![w] = l]
      BY <1>3 DEF BeginWrite, BeginFails, OpenOld, CheckOld, ReuseChunk
    <2>2. pc[w] \in {"begin", "open", "send", "reuse"}
      BY <1>3 DEF BeginWrite, BeginFails, OpenOld, CheckOld, ReuseChunk
    <2>3. CallerStep(w, pc[w], l)
      BY <2>1, <2>2 DEF CallerStep, Caller
    <2> QED
      BY <2>1, <2>3
  <1>4. CASE WriteChunk(w)
    <2>1. PICK l \in {"send", "failed"} : pc' = [pc EXCEPT ![w] = l] \/ (pc' = pc /\ l = pc[w])
      BY <1>4 DEF WriteChunk
    <2>2. CallerStep(w, pc[w], l)
      BY <1>4, <2>1 DEF WriteChunk, CallerStep, Caller
    <2> QED
      BY <2>1, <2>2
  <1>5. CASE PromoteFails(w)
    <2>1. CallerStep(w, pc[w], "failed") /\ pc' = [pc EXCEPT ![w] = "failed"]
      BY <1>5 DEF PromoteFails, Complete, OnPutError, CallerStep, Caller
    <2> QED
      BY <2>1
  <1>6. CASE PutAnswered(w) \/ PutSidecar(w)
    <2>1. PICK l \in {"putSig", "ok", "failed"} : pc' = [pc EXCEPT ![w] = l]
      BY <1>6 DEF PutAnswered, PutSidecar
    <2>2. pc[w] \in {"answer", "putSig"} /\ w \in put
      BY <1>6 DEF PutAnswered, PutSidecar, IInv, WriterOK, Puts
    <2>3. CallerStep(w, pc[w], l)
      BY <2>1, <2>2 DEF CallerStep, Caller
    <2> QED
      BY <2>1, <2>3
  <1>7. CASE Crash(w)
    <2>1. pc' = [pc EXCEPT ![w] = "crashed"] /\ pc[w] \in Label \ {"ok", "skipped", "failed", "crashed"}
      BY <1>0, <1>7 DEF Crash, Active
    <2>2. Caller(pc[w]) \in {"idle", "open"} /\ Caller("crashed") = "failed"
      BY <2>1 DEF Caller
    <2> QED
      BY <2>1, <2>2 DEF CallerStep
  <1> QED
    BY <1>2, <1>3, <1>4, <1>5, <1>6, <1>7

\* The steps that change the object.
LEMMA ChangeMaps ==
  ASSUME IInv, Remove \/ Overwrite \/ \E w \in Writer : Promote(w)
  PROVE  Staged!Next \/ UNCHANGED Staged!vars
  <1> DEFINE abs == [path |-> DataOf(object)]
  <1>1. ASSUME NEW c \in Maybe, DataOf(object)' = c, pc' = pc, put' = put
        PROVE  Staged!Next
    <2>1. abs' = [abs EXCEPT !["path"] = c]
      BY <1>1
    <2>2. Staged!Replace("path")
      BY <1>1, <2>1 DEF Staged!Replace, Maybe
    <2> QED
      BY <2>2 DEF Staged!Next
  <1>2. CASE Remove \/ Overwrite
    <2>0. CASE object' = object /\ pc' = pc /\ put' = put
      BY <2>0 DEF Staged!vars, DataOf
    <2>1. CASE \E o \in Object \cup {NoObject} : Becomes(o, {})
      <3>1. PICK o \in Object \cup {NoObject} : Becomes(o, {})
        BY <2>1
      <3>2. DataOf(object)' = DataOf(o) /\ put' = put /\ pc' = pc /\ DataOf(o) \in Maybe
        BY <1>2, <3>1, DataType DEF Becomes, Remove, Overwrite, DataOf
      <3> QED
        BY <1>1, <3>2
    <2>2. \/ object' = object /\ pc' = pc /\ put' = put
          \/ \E o \in Object \cup {NoObject} : Becomes(o, {})
      <3>1. CASE Remove
        BY <3>1 DEF Remove, history
      <3>2. CASE Overwrite
        BY <3>2, KeptObject DEF Overwrite, Maybe
      <3> QED
        BY <1>2, <3>1, <3>2
    <2> QED
      BY <2>0, <2>1, <2>2
  <1>3. ASSUME NEW w \in Writer, Promote(w) PROVE Staged!Next
    <2>0. pc \in [Writer -> Label] /\ w \notin put /\ Wanted[w] \in Content /\ Wanted[w] \in Maybe
      BY <1>3, ContentFacts DEF IInv, Types, WriterOK, Puts, Promote, Complete, Maybe
    <2>1. Complete(w) /\ stage[w] = Wanted[w] /\ pc[w] = "send"
      BY <1>3, StagedWhole DEF Promote, Complete
    <2>2. PICK o \in Promoted(w) : Becomes(o, {w})
      BY <1>3, <2>1 DEF Promote
    <2>3. DataOf(o) = Wanted[w]
      BY <2>0, <2>1, <2>2, KeptObject DEF Promoted, Maybe
    <2>4. /\ DataOf(object)' = Wanted[w] /\ put' = put \cup {w}
          /\ pc' = [pc EXCEPT ![w] = "answer"]
      BY <1>3, <2>1, <2>2, <2>3 DEF Becomes, Promote, Goto, DataOf
    <2>5. Caller("answer") = "open" /\ Caller("send") = "open"
      BY DEF Caller
    <2>6. [v \in Writer |-> Caller(pc'[v])] = [v \in Writer |-> Caller(pc[v])]
      BY <2>0, <2>1, <2>4, <2>5
    <2>7. abs' = [abs EXCEPT !["path"] = Wanted[w]]
      BY <2>4
    <2>8. Staged!Install(w)
      BY <2>0, <2>1, <2>4, <2>5, <2>6, <2>7 DEF Staged!Install
    <2> QED
      BY <2>8 DEF Staged!Next
  <1> QED
    BY <1>2, <1>3

LEMMA StepMaps == IInv /\ [Next]_vars => [Staged!Next]_(Staged!vars)
  <1> SUFFICES ASSUME IInv, [Next]_vars PROVE Staged!Next \/ UNCHANGED Staged!vars
    OBVIOUS
  <1>1. CASE UNCHANGED vars \/ RemoveSidecar \/ RemoveStops
    <2>1. UNCHANGED <<object, pc, put>>
      BY <1>1 DEF vars, RemoveSidecar, RemoveStops, store, history
    <2> QED
      BY <2>1 DEF Staged!vars, DataOf
  <1> QED
    BY <1>1, WriterMaps, ChangeMaps DEF Next

\* An initial state is one of StagedWrite's.
LEMMA InitMaps == Init => Staged!Init
  BY DEF Init, Staged!Init, Caller

(* Both stores keep the promise of a write session: the object is replaced in one
   step and by the whole content that was wanted, at most once for each session,
   and whoever reports success has done so. *)
THEOREM Refinement == Spec => ImplementsStagedWrite
  BY InitMaps, StepMaps, Inductive, PTL DEF Spec, ImplementsStagedWrite, Staged!Spec
=============================================================================
