----------------------------- MODULE Relay_proofs -----------------------------
(***************************************************************************)
(* Proofs about Relay, for any source, receivers and destinations, any     *)
(* number of sends, and any number of disturbances.                        *)
(***************************************************************************)
EXTENDS Relay, SequenceTheorems, TLAPS

\* A manifest lists files in the order of Walk, so it names no path twice.
Ordered(m) == Len(m) <= Len(Order) /\ \A i \in 1..Len(m) : m[i].path = Order[i]

(* The inductive invariant, part by part.  What a send has read so far is up,
   unless gc was at work meanwhile. *)
SendOK ==
    /\ spc = "idle" => files = <<>> /\ cur = <<>> /\ uploaded = {}
    /\ spc # "idle" => tree \in Trees
    /\ Ordered(files) /\ Len(cur) <= MaxLen
    /\ ChunksOf(files) \subseteq uploaded /\ \A k \in 1..Len(cur) : cur[k] \in uploaded
    /\ ~gcdSend => uploaded \subseteq objects
    /\ spc = "manifest" /\ ~gcdSend => lease = "live"
    /\ spc = "notify" /\ ~gcdSend => manifest # NoManifest

JobOK == /\ manifest \in published \cup {NoManifest}
         /\ \A m \in published : Ordered(m)

\* A receiver stages, and promotes, a published manifest.
RecvOK(r) ==
    /\ rpc[r] = "idle" => failed[r] = FALSE
    /\ rpc[r] \in {"idle", "wait", "lease", "manifest"} => buf[r] = <<>>
    /\ rpc[r] = "stage" => /\ man[r] \in published /\ at[r] \in 1..Len(man[r])
                           /\ Len(buf[r]) <= Len(FileOf(r).chunks)
                           /\ \A k \in 1..Len(buf[r]) : buf[r][k] = FileOf(r).chunks[k]
    /\ Promoting(r) => man[r] \in published /\ at[r] \in 1..(Len(man[r]) + 1)
    /\ rpc[r] \in {"put", "unstage"} => at[r] <= Len(man[r])
    /\ rpc[r] = "put" => buf[r] = FileOf(r).chunks

InPlace(r, i) == staging[DestOf[r]][man[r][i].path] = man[r][i].chunks

(* A receiver that nothing has disturbed finds the store as it may count on, has
   its destination to itself, and has staged what comes before the file it is at;
   when it promotes, what comes after. *)
Ready(r) ==
    /\ rpc[r] \in {"lease", "manifest"} => manifest # NoManifest
    /\ rpc[r] = "stage" \/ Promoting(r) => ChunksOf(man[r]) \subseteq objects \ poisoned
    /\ rpc[r] = "stage" => old[r] = StagedAt(r) /\ \A i \in 1..(at[r] - 1) : InPlace(r, i)
    /\ Promoting(r) => \A i \in at[r]..Len(man[r]) : InPlace(r, i)
CalmOK(r) ==
    Active(r) /\ ~cause[r] => Sound /\ Peers(r) = {} /\ failed[r] = FALSE /\ Ready(r)

\* The types, by whose variables they are.
StoreTypes == /\ lease \in {"none", "live", "expired"} /\ manifest \in Seq(File) \cup {NoManifest}
              /\ notify \in BOOLEAN /\ ack \in BOOLEAN
              /\ objects \subseteq Chunk /\ poisoned \subseteq objects
SendTypes  == /\ tree \in Trees \cup {Nothing} /\ sends \in 0..MaxSends
              /\ spc \in {"idle", "lease", "walk", "read", "refresh", "manifest", "notify"}
              /\ walked \in [Path -> 0..MaxLen] /\ files \in Seq(File) /\ cur \in Seq(Chunk)
              /\ uploaded \subseteq Chunk
Stages     == {"idle", "wait", "lease", "manifest", "stage", "promote", "put", "unstage",
               "cleanup"}
Held       == Seq(Chunk) \cup {Nothing}
RecvTypes  == /\ rpc \in [Receiver -> Stages]
              /\ man \in [Receiver -> Seq(File) \cup {NoManifest}]
              /\ at \in [Receiver -> Nat] /\ buf \in [Receiver -> Seq(Chunk)]
              /\ old \in [Receiver -> Held]
              /\ failed \in [Receiver -> BOOLEAN] /\ cause \in [Receiver -> BOOLEAN]
              /\ staging \in [Dest -> [Path -> Held]] /\ dest \in [Dest -> [Path -> Held]]
GcTypes    == /\ gpc \in {"idle", "lease", "read", "objects", "manifest", "notify", "ack"}
              /\ doomed \subseteq Chunk /\ consent \in {"none", "forced", "acked", "expired"}
              /\ gcdSend \in BOOLEAN /\ gcdJob \in BOOLEAN
PastTypes  == /\ upsets \in 0..MaxUpsets
              /\ published \subseteq Seq(File) /\ received \subseteq Seq(File)
Types == StoreTypes /\ SendTypes /\ RecvTypes /\ GcTypes /\ PastTypes

IInv == /\ Types /\ SendOK /\ JobOK /\ ManifestIsBacked
        /\ \A r \in Receiver : RecvOK(r) /\ CalmOK(r)
-----------------------------------------------------------------------------
(* What the assumptions on the constants say. *)
LEMMA Facts ==
  /\ Trees \subseteq [Path -> Content \cup {Directory}]
  /\ Order \in Seq(Path) /\ \A i, j \in DOMAIN Order : Order[i] = Order[j] => i = j
  /\ \A r \in Receiver : DestOf[r] \in Dest
  /\ MaxLen \in Nat /\ MaxSends \in Nat /\ MaxUpsets \in Nat /\ LeaseRefreshEvery \in Nat \ {0}
  /\ Directory \notin Content /\ Nothing \notin Content /\ NoManifest \notin Seq(File)
  BY TreesAssumption, OrderAssumption, DestAssumption, BoundAssumption, NullAssumption

(* A content is a sequence of chunks that is not too long. *)
LEMMA ContentIsSeq ==
  \A s : s \in Content <=> s \in Seq(Chunk) /\ Len(s) <= MaxLen
  <1>1. ASSUME NEW s \in Content PROVE s \in Seq(Chunk) /\ Len(s) <= MaxLen
    <2>1. PICK n \in 0..MaxLen : s \in [1..n -> Chunk]
      BY DEF Content
    <2>2. n \in Nat /\ n <= MaxLen
      BY <2>1, Facts
    <2>3. s \in Seq(Chunk)
      BY <2>1, <2>2, SeqDef
    <2>4. Len(s) \in Nat /\ DOMAIN s = 1..Len(s) /\ DOMAIN s = 1..n
      BY <2>1, <2>3, LenProperties
    <2>5. Len(s) = n
      <3>1. 1..Len(s) = 1..n
        BY <2>4
      <3>2. ~(Len(s) < n)
        <4>1. n \in 1..n => n \in 1..Len(s)
          BY <3>1
        <4> QED
          BY <2>2, <2>4, <4>1
      <3>3. ~(n < Len(s))
        <4>1. Len(s) \in 1..Len(s) => Len(s) \in 1..n
          BY <3>1
        <4> QED
          BY <2>2, <2>4, <4>1
      <3>4. Len(s) \in Nat
        BY <2>4
      <3> QED
        BY <2>2, <3>2, <3>3, <3>4
    <2> QED
      BY <2>2, <2>3, <2>5
  <1>2. ASSUME NEW s, s \in Seq(Chunk), Len(s) <= MaxLen PROVE s \in Content
    <2>1. Len(s) \in Nat /\ s \in [1..Len(s) -> Chunk]
      BY <1>2, LenProperties
    <2>2. Len(s) \in 0..MaxLen
      BY <1>2, <2>1, Facts
    <2> QED
      BY <2>1, <2>2 DEF Content
  <1> QED
    BY <1>1, <1>2

(* The files of a manifest, and the chunks they name. *)
LEMMA FileFacts ==
  ASSUME NEW m \in Seq(File), NEW i \in 1..Len(m)
  PROVE  /\ m[i] \in File /\ m[i].path \in Path /\ m[i].size \in 0..MaxLen
         /\ m[i].chunks \in Seq(Chunk) /\ Len(m[i].chunks) \in Nat
         /\ Len(m[i].chunks) <= MaxLen
         /\ \A k \in 1..Len(m[i].chunks) :
               m[i].chunks[k] \in Chunk /\ m[i].chunks[k] \in ChunksOf(m)
  <1>1. m[i] \in File
    BY ElementOfSeq
  <1>2. m[i].path \in Path /\ m[i].size \in 0..MaxLen /\ m[i].chunks \in Content
    BY <1>1 DEF File
  <1>3. m[i].chunks \in Seq(Chunk) /\ Len(m[i].chunks) \in Nat /\ Len(m[i].chunks) <= MaxLen
    BY <1>2, ContentIsSeq, LenProperties
  <1>4. ASSUME NEW k \in 1..Len(m[i].chunks)
        PROVE  m[i].chunks[k] \in Chunk /\ m[i].chunks[k] \in ChunksOf(m)
    BY <1>3, ElementOfSeq DEF ChunksOf
  <1> QED
    BY <1>1, <1>2, <1>3, <1>4

LEMMA ChunksAreChunks ==
  ASSUME NEW m \in Seq(File)
  PROVE  ChunksOf(m) \subseteq Chunk
  BY FileFacts DEF ChunksOf

(* One file more: its chunks are added, and the order of Walk is kept. *)
LEMMA AddFile ==
  ASSUME NEW m \in Seq(File), NEW f \in File
  PROVE  /\ Append(m, f) \in Seq(File) /\ Len(Append(m, f)) = Len(m) + 1
         /\ ChunksOf(Append(m, f)) \subseteq
               ChunksOf(m) \cup {f.chunks[k] : k \in 1..Len(f.chunks)}
         /\ Ordered(m) /\ Len(m) < Len(Order) /\ f.path = Order[Len(m) + 1] => Ordered(Append(m, f))
  <1> DEFINE a == Append(m, f)
  <1>1. /\ a \in Seq(File) /\ Len(a) = Len(m) + 1 /\ Len(m) \in Nat
        /\ \A i \in 1..Len(m) : a[i] = m[i]
        /\ a[Len(m) + 1] = f
    BY AppendProperties, LenProperties
  <1>2. \A i \in 1..Len(a) : i \in 1..Len(m) \/ i = Len(m) + 1
    BY <1>1
  <1> HIDE DEF a
  <1>3. ASSUME NEW c \in ChunksOf(a)
        PROVE  c \in ChunksOf(m) \cup {f.chunks[k] : k \in 1..Len(f.chunks)}
    <2>0. PICK i \in 1..Len(a) : c \in {a[i].chunks[k] : k \in 1..Len(a[i].chunks)}
      BY DEF ChunksOf
    <2>1. PICK k \in 1..Len(a[i].chunks) : c = a[i].chunks[k]
      BY <2>0
    <2>2. CASE i \in 1..Len(m)
      <3>1. a[i] = m[i]
        BY <1>1, <2>2
      <3>2. k \in 1..Len(m[i].chunks) /\ c = m[i].chunks[k]
        BY <2>1, <3>1
      <3> QED
        BY <2>2, <3>2 DEF ChunksOf
    <2>3. CASE i = Len(m) + 1
      <3>1. a[i] = f
        BY <1>1, <2>3
      <3> QED
        BY <2>1, <3>1
    <2> QED
      BY <1>2, <2>2, <2>3
  <1>4. ASSUME Ordered(m), Len(m) < Len(Order), f.path = Order[Len(m) + 1] PROVE Ordered(a)
    <2>1. Len(Order) \in Nat /\ Len(a) <= Len(Order)
      BY <1>1, <1>4, Facts, LenProperties
    <2>2. \A i \in 1..Len(a) : a[i].path = Order[i]
      BY <1>1, <1>2, <1>4 DEF Ordered
    <2> QED
      BY <2>1, <2>2 DEF Ordered
  <1> QED
    BY <1>1, <1>3, <1>4 DEF a

\* Nothing read yet.
LEMMA NoFiles ==
  /\ <<>> \in Seq(File) /\ <<>> \in Seq(Chunk) /\ Len(<<>>) = 0
  /\ Ordered(<<>>) /\ ChunksOf(<<>>) = {} /\ 0 <= MaxLen
  <1>1. <<>> \in Seq(File) /\ <<>> \in Seq(Chunk) /\ Len(<<>>) = 0
    BY EmptySeq
  <1>2. Len(Order) \in Nat /\ MaxLen \in Nat
    BY Facts, LenProperties
  <1>3. 1..0 = {}
    OBVIOUS
  <1> QED
    BY <1>1, <1>2, <1>3 DEF Ordered, ChunksOf
-----------------------------------------------------------------------------
(* A step of the others leaves a receiver as it is, and undisturbed only if
   nothing it counts on goes away. *)
LEMMA ReceiverFrame ==
  ASSUME IInv, UNCHANGED receiver, published \subseteq published', NEW r \in Receiver,
         Active(r) /\ ~cause'[r] =>
             /\ ~cause[r]
             /\ Sound => Sound'
             /\ manifest # NoManifest => manifest' # NoManifest
             /\ objects \ poisoned \subseteq objects' \ poisoned'
  PROVE  RecvOK(r)' /\ CalmOK(r)'
  <1>1. /\ UNCHANGED <<rpc, man, at, buf, old, failed, staging>>
        /\ RecvOK(r) /\ CalmOK(r)
    BY DEF receiver, IInv
  <1>2. RecvOK(r)'
    BY <1>1 DEF RecvOK, FileOf, Promoting
  <1>3. Active(r)' = Active(r) /\ Peers(r)' = Peers(r)
    BY <1>1 DEF Active, Peers
  <1>4. CalmOK(r)'
    BY <1>1, <1>3 DEF CalmOK, Ready, InPlace, StagedAt, FileOf, Promoting
  <1> QED
    BY <1>2, <1>4

(* A step of the sender, or around it, that takes nothing from the store. *)
LEMMA SenderFrame ==
  ASSUME IInv, UNCHANGED <<manifest, notify, ack, poisoned, receiver, gc, published, received,
                           gcdJob, cause>>,
         lease' \in {lease, "live"}, objects \subseteq objects', objects' \subseteq Chunk,
         upsets' \in 0..MaxUpsets, gcdSend' \in BOOLEAN, SendTypes', SendOK'
  PROVE  IInv'
  <1>1. StoreTypes' /\ GcTypes' /\ PastTypes'
    BY DEF IInv, Types, StoreTypes, GcTypes, PastTypes, gc
  <1>2. RecvTypes'
    BY DEF IInv, Types, RecvTypes, receiver
  <1>3. JobOK' /\ ManifestIsBacked'
    BY DEF IInv, JobOK, ManifestIsBacked
  <1>4. ASSUME NEW r \in Receiver PROVE RecvOK(r)' /\ CalmOK(r)'
    <2>1. Sound => Sound'
      BY DEF Sound
    <2>2. objects \ poisoned \subseteq objects' \ poisoned'
      OBVIOUS
    <2> QED
      BY <2>1, <2>2, ReceiverFrame
  <1> QED
    BY <1>1, <1>2, <1>3, <1>4 DEF IInv, Types

LEMMA UpsetCounts ==
  ASSUME IInv, Upset \/ UNCHANGED upsets
  PROVE  upsets' \in 0..MaxUpsets
  BY Facts DEF IInv, Types, PastTypes, Upset

(* The end of a run of the sender, however it came to it. *)
LEMMA GoneKeeps ==
  ASSUME IInv, SendGone, UNCHANGED sends, lease' = lease, gcdSend' = gcdSend
  PROVE  SendTypes' /\ SendOK'
  <1>1. SendTypes'
    <2>1. walked' \in [Path -> 0..MaxLen]
      <3>1. 0 \in 0..MaxLen
        BY Facts
      <3> QED
        BY <3>1 DEF SendGone
    <2> QED
      BY <2>1, NoFiles DEF IInv, Types, SendTypes, SendGone
  <1>2. /\ spc' = "idle" /\ files' = <<>> /\ cur' = <<>> /\ uploaded' = {}
    BY DEF SendGone
  <1>3. 1..Len(<<>>) = {}
    BY NoFiles
  <1>4. Ordered(files)' /\ ChunksOf(files)' = {}
    BY <1>2, NoFiles DEF Ordered, ChunksOf
  <1>5. SendOK'
    BY <1>2, <1>3, <1>4, NoFiles DEF SendOK
  <1> QED
    BY <1>1, <1>5

\* A run starts with nothing read and nothing up.
LEMMA StartKeeps ==
  ASSUME IInv, StartSend
  PROVE  IInv'
  <1>1. /\ UNCHANGED <<lease, manifest, notify, ack, objects, poisoned, receiver, gc, published,
                       received, gcdJob, cause, upsets, walked, files, cur, uploaded>>
        /\ spc = "idle" /\ spc' = "lease" /\ tree' \in Trees /\ sends' = sends + 1
        /\ sends < MaxSends /\ gcdSend' = FALSE
    BY DEF StartSend, store
  <1>2. sends' \in 0..MaxSends
    BY <1>1, Facts DEF IInv, Types, SendTypes
  <1>3. SendTypes'
    BY <1>1, <1>2 DEF IInv, Types, SendTypes
  <1>4. SendOK'
    <2>1. uploaded = {} /\ Ordered(files) /\ Len(cur) <= MaxLen /\ ChunksOf(files) \subseteq uploaded
          /\ \A k \in 1..Len(cur) : cur[k] \in uploaded
      BY <1>1 DEF IInv, SendOK
    <2>2. Ordered(files)' /\ ChunksOf(files)' = ChunksOf(files)
      BY <1>1, <2>1 DEF Ordered, ChunksOf
    <2> QED
      BY <1>1, <2>1, <2>2 DEF SendOK
  <1>5. objects \subseteq Chunk /\ upsets \in 0..MaxUpsets
    BY DEF IInv, Types, StoreTypes, PastTypes
  <1> QED
    BY <1>1, <1>3, <1>4, <1>5, SenderFrame

\* Extending the lease, walking and editing the source.
LEMMA LeaseKeeps ==
  ASSUME IInv, WriteLease \/ Walk \/ EditSource
  PROVE  IInv'
  <1>1. /\ UNCHANGED <<manifest, notify, ack, objects, poisoned, receiver, gc, published,
                       received, gcdJob, gcdSend, cause, files, cur, uploaded, sends>>
        /\ lease' \in {lease, "live"} /\ spc # "idle"
        /\ Upset \/ UNCHANGED upsets
    BY DEF WriteLease, Walk, EditSource, store
  <1>2. /\ spc' \in {"walk", "read", "manifest", spc}
        /\ tree' \in Trees
        /\ spc' = "manifest" => lease' = "live" \/ (spc = "manifest" /\ lease' = lease)
        /\ spc' = "notify" => spc = "notify"
    BY DEF WriteLease, Walk, EditSource, store, IInv, SendOK
  <1>3. walked' \in [Path -> 0..MaxLen]
    <2>1. CASE Walk
      <3>1. tree \in [Path -> Content \cup {Directory}]
        BY <1>1, Facts DEF IInv, SendOK
      <3>2. ASSUME NEW p \in Path, tree[p] # Directory PROVE Len(tree[p]) \in 0..MaxLen
        <4>1. tree[p] \in Content
          BY <3>1, <3>2
        <4>2. Len(tree[p]) \in Nat /\ Len(tree[p]) <= MaxLen
          BY <4>1, ContentIsSeq, LenProperties
        <4> QED
          BY <4>2, Facts
      <3>3. 0 \in 0..MaxLen
        BY Facts
      <3> QED
        BY <2>1, <3>2, <3>3 DEF Walk
    <2>2. CASE ~Walk
      BY <2>2 DEF WriteLease, EditSource, IInv, Types, SendTypes
    <2> QED
      BY <2>1, <2>2
  <1>4. SendTypes'
    BY <1>1, <1>2, <1>3 DEF IInv, Types, SendTypes
  <1>5. SendOK'
    <2>1. Ordered(files)' /\ ChunksOf(files)' = ChunksOf(files)
      BY <1>1 DEF IInv, SendOK, Ordered, ChunksOf
    <2>2. spc' # "idle"
      BY <1>1, <1>2
    <2> QED
      BY <1>1, <1>2, <2>1, <2>2 DEF IInv, SendOK
  <1>6. objects \subseteq Chunk /\ upsets' \in 0..MaxUpsets /\ gcdSend \in BOOLEAN
    BY <1>1, UpsetCounts DEF IInv, Types, StoreTypes, GcTypes
  <1> QED
    BY <1>1, <1>4, <1>5, <1>6, SenderFrame

(* While a send reads, it is at a path of the source, of its kind. *)
LEMMA AtCurrent ==
  ASSUME IInv, Reading
  PROVE  /\ Len(files) \in Nat /\ Len(files) < Len(Order)
         /\ Current \in Path /\ tree \in Trees
         /\ tree[Current] # Directory =>
               /\ tree[Current] \in Seq(Chunk) /\ Len(tree[Current]) \in Nat
               /\ Len(tree[Current]) <= MaxLen
         /\ Len(cur) \in Nat /\ cur \in Seq(Chunk)
  <1>1. Len(files) \in Nat /\ Len(Order) \in Nat /\ Len(files) < Len(Order)
    <2>1. Len(files) \in Nat /\ Len(Order) \in Nat
      BY Facts, LenProperties DEF IInv, Types, SendTypes
    <2>2. Len(files) <= Len(Order) /\ Len(files) # Len(Order)
      BY DEF IInv, SendOK, Ordered, Reading, AllRead
    <2> QED
      BY <2>1, <2>2
  <1>2. Current \in Path
    <2>1. Len(files) + 1 \in 1..Len(Order)
      BY <1>1
    <2> QED
      BY <2>1, Facts, ElementOfSeq DEF Current
  <1>3. tree \in Trees /\ tree \in [Path -> Content \cup {Directory}]
    BY Facts DEF IInv, SendOK, Reading
  <1>4. tree[Current] # Directory =>
               /\ tree[Current] \in Seq(Chunk) /\ Len(tree[Current]) \in Nat
               /\ Len(tree[Current]) <= MaxLen
    <2> SUFFICES ASSUME tree[Current] # Directory
                 PROVE  /\ tree[Current] \in Seq(Chunk) /\ Len(tree[Current]) \in Nat
                        /\ Len(tree[Current]) <= MaxLen
      OBVIOUS
    <2>1. tree[Current] \in Content
      BY <1>2, <1>3
    <2> QED
      BY <2>1, ContentIsSeq, LenProperties
  <1>5. Len(cur) \in Nat /\ cur \in Seq(Chunk)
    BY LenProperties DEF IInv, Types, SendTypes
  <1> QED
    BY <1>1, <1>2, <1>3, <1>4, <1>5

(* A chunk that the send counts as up is in the store, unless gc took it. *)
LEMMA UploadKeeps ==
  ASSUME IInv, UploadChunk
  PROVE  IInv'
  <1> DEFINE c == tree[Current][Len(cur) + 1]
  <1>1. /\ UNCHANGED <<lease, manifest, notify, ack, poisoned, receiver, gc, upsets, published,
                       received, gcdSend, gcdJob, cause>>
        /\ UNCHANGED <<tree, sends, spc, walked, files>>
        /\ objects' = (IF c \in uploaded THEN objects ELSE objects \cup {c})
        /\ uploaded' = uploaded \cup {c} /\ cur' = Append(cur, c)
        /\ Reading /\ tree[Current] # Directory /\ Len(cur) < Len(tree[Current])
        /\ spc = "read"
    BY DEF UploadChunk, Reading
  <1>2. c \in Chunk /\ Len(cur) + 1 <= MaxLen /\ Len(cur) \in Nat /\ cur \in Seq(Chunk)
    <2>1. Len(cur) + 1 \in 1..Len(tree[Current]) /\ tree[Current] \in Seq(Chunk)
      BY <1>1, AtCurrent
    <2>2. Len(cur) + 1 <= MaxLen
      BY <1>1, AtCurrent, Facts
    <2> QED
      BY <2>1, <2>2, ElementOfSeq, AtCurrent, <1>1
  <1> HIDE DEF c
  <1>3. /\ cur' \in Seq(Chunk) /\ Len(cur') = Len(cur) + 1
        /\ \A k \in 1..Len(cur) : cur'[k] = cur[k]
        /\ cur'[Len(cur) + 1] = c
    BY <1>1, <1>2, AppendProperties
  <1>4. SendTypes'
    BY <1>1, <1>2, <1>3 DEF IInv, Types, SendTypes
  <1>5. SendOK'
    <2>1. Ordered(files)' /\ ChunksOf(files)' \subseteq uploaded'
      BY <1>1 DEF IInv, SendOK, Ordered, ChunksOf
    <2>2. ASSUME NEW k \in 1..Len(cur') PROVE cur'[k] \in uploaded'
      <3>1. k \in 1..Len(cur) \/ k = Len(cur) + 1
        BY <1>2, <1>3
      <3> QED
        BY <1>1, <1>3, <3>1 DEF IInv, SendOK
    <2>3. ~gcdSend' => uploaded' \subseteq objects'
      BY <1>1 DEF IInv, SendOK
    <2>4. tree' \in Trees /\ Len(cur') <= MaxLen
      BY <1>1, <1>2, <1>3, AtCurrent
    <2> QED
      BY <1>1, <2>1, <2>2, <2>3, <2>4 DEF SendOK
  <1>6. /\ objects \subseteq objects' /\ objects' \subseteq Chunk
        /\ upsets \in 0..MaxUpsets /\ gcdSend \in BOOLEAN
    BY <1>1, <1>2 DEF IInv, Types, StoreTypes, PastTypes, GcTypes
  <1> QED
    BY <1>1, <1>4, <1>5, <1>6, SenderFrame

\* The end of a file: its entry names what was read.
LEMMA FinishKeeps ==
  ASSUME IInv, FinishFile
  PROVE  IInv'
  <1> DEFINE f == [path |-> Current, size |-> walked[Current], chunks |-> cur]
  <1>1. /\ UNCHANGED <<lease, manifest, notify, ack, objects, poisoned, receiver, gc, upsets,
                       published, received, gcdSend, gcdJob, cause>>
        /\ UNCHANGED <<tree, sends, walked, uploaded>>
        /\ Reading /\ tree[Current] # Directory /\ spc = "read"
        /\ files' = Append(files, f) /\ cur' = <<>> /\ spc' \in {"refresh", "read"}
    BY DEF FinishFile, Reading, store
  <1>2. f \in File
    <2>1. cur \in Content
      BY <1>1, AtCurrent, ContentIsSeq DEF IInv, SendOK
    <2>2. walked[Current] \in 0..MaxLen /\ Current \in Path
      BY <1>1, AtCurrent DEF IInv, Types, SendTypes
    <2> QED
      BY <2>1, <2>2 DEF File
  <1>3. files \in Seq(File) /\ Ordered(files) /\ Len(files) < Len(Order)
        /\ f.path = Order[Len(files) + 1] /\ f.chunks = cur
    BY <1>1, AtCurrent DEF IInv, Types, SendTypes, SendOK, Current
  <1> HIDE DEF f
  <1>4. /\ files' \in Seq(File) /\ Ordered(files')
        /\ ChunksOf(files') \subseteq ChunksOf(files) \cup {f.chunks[k] : k \in 1..Len(f.chunks)}
    BY <1>1, <1>2, <1>3, AddFile
  <1>5. SendTypes'
    BY <1>1, <1>4, NoFiles DEF IInv, Types, SendTypes
  <1>6. SendOK'
    <2>1. ChunksOf(files') \subseteq uploaded
      BY <1>3, <1>4 DEF IInv, SendOK
    <2>2. Ordered(files)' /\ ChunksOf(files)' \subseteq uploaded'
      BY <1>1, <1>4, <2>1 DEF Ordered, ChunksOf
    <2>3. Len(cur') <= MaxLen /\ 1..Len(cur') = {}
      BY <1>1, NoFiles
    <2>4. tree' \in Trees /\ (~gcdSend' => uploaded' \subseteq objects')
      BY <1>1, AtCurrent DEF IInv, SendOK
    <2> QED
      BY <1>1, <2>2, <2>3, <2>4 DEF SendOK
  <1>7. objects \subseteq Chunk /\ upsets \in 0..MaxUpsets /\ gcdSend \in BOOLEAN
    BY DEF IInv, Types, StoreTypes, PastTypes, GcTypes
  <1> QED
    BY <1>1, <1>5, <1>6, <1>7, SenderFrame

\* A send that gives up, or is stopped.
LEMMA StopKeeps ==
  ASSUME IInv, SendFails \/ SendStops
  PROVE  IInv'
  <1>1. /\ UNCHANGED <<lease, manifest, notify, ack, objects, poisoned, receiver, gc, published,
                       received, gcdJob, gcdSend, cause, sends>>
        /\ SendGone /\ (Upset \/ UNCHANGED upsets)
    BY DEF SendFails, SendStops, store
  <1>2. SendTypes' /\ SendOK'
    BY <1>1, GoneKeeps
  <1>3. objects \subseteq Chunk /\ upsets' \in 0..MaxUpsets /\ gcdSend \in BOOLEAN
    BY <1>1, UpsetCounts DEF IInv, Types, StoreTypes, GcTypes
  <1> QED
    BY <1>1, <1>2, <1>3, SenderFrame

(* Publishing the manifest: its objects are there, and the lease is live, unless
   gc was at work; a receiver that finds it may count on both. *)
LEMMA PublishKeeps ==
  ASSUME IInv, PutManifest
  PROVE  IInv'
  <1> DEFINE calm == Valid(files) /\ ~gcdSend /\ ChunksOf(files) \cap poisoned = {}
  <1>1. /\ UNCHANGED <<lease, notify, ack, objects, poisoned, receiver, gc, upsets, received,
                       gcdSend>>
        /\ UNCHANGED <<tree, sends, walked, files, cur, uploaded>>
        /\ spc = "manifest" /\ spc' = "notify" /\ manifest' = files
        /\ published' = published \cup {files} /\ gcdJob' = gcdSend
        /\ cause' = [r \in Receiver |-> cause[r] \/ r \in (IF calm THEN {} ELSE Receiver)]
    BY DEF PutManifest, Disturb
  <1>2. files \in Seq(File) /\ files # NoManifest
    BY Facts DEF IInv, Types, SendTypes
  <1>3. StoreTypes' /\ SendTypes'
    BY <1>1, <1>2 DEF IInv, Types, StoreTypes, SendTypes
  <1>4. GcTypes' /\ PastTypes'
    BY <1>1, <1>2 DEF IInv, Types, GcTypes, PastTypes, gc
  <1>5. RecvTypes'
    <2>1. cause' \in [Receiver -> BOOLEAN]
      BY <1>1
    <2> QED
      BY <1>1, <2>1 DEF IInv, Types, RecvTypes, receiver
  <1>6. SendOK'
    <2>1. Ordered(files)' /\ ChunksOf(files)' = ChunksOf(files)
      BY <1>1 DEF IInv, SendOK, Ordered, ChunksOf
    <2> QED
      BY <1>1, <1>2, <2>1 DEF IInv, SendOK
  <1>7. JobOK'
    <2>1. Ordered(files)
      BY DEF IInv, SendOK
    <2> QED
      BY <1>1, <2>1 DEF IInv, JobOK
  <1>8. ~gcdSend => ChunksOf(files) \subseteq objects /\ lease = "live"
    BY <1>1 DEF IInv, SendOK
  <1>9. ManifestIsBacked'
    BY <1>1, <1>8 DEF ManifestIsBacked
  <1>10. ASSUME NEW r \in Receiver PROVE RecvOK(r)' /\ CalmOK(r)'
    <2>1. ~cause'[r] => calm /\ ~cause[r]
      BY <1>1
    <2>2. calm => Sound'
      BY <1>1, <1>2, <1>8 DEF Sound
    <2>3. manifest' # NoManifest /\ objects' = objects /\ poisoned' = poisoned
      BY <1>1, <1>2
    <2>4. UNCHANGED receiver /\ published \subseteq published'
      BY <1>1
    <2> QED
      BY <2>1, <2>2, <2>3, <2>4, ReceiverFrame
  <1> QED
    BY <1>3, <1>4, <1>5, <1>6, <1>7, <1>9, <1>10 DEF IInv, Types

\* The notify marker is put where the manifest is.
LEMMA NotifyKeeps ==
  ASSUME IInv, PutNotify
  PROVE  IInv'
  <1>1. /\ UNCHANGED <<lease, manifest, ack, objects, poisoned, receiver, gc, upsets, published,
                       received, gcdSend, gcdJob, sends>>
        /\ spc = "notify" /\ notify' = TRUE /\ SendGone
        /\ cause' = [r \in Receiver |-> cause[r] \/ r \in (IF gcdSend THEN Receiver ELSE {})]
    BY DEF PutNotify, Disturb
  <1>2. SendTypes' /\ SendOK'
    BY <1>1, GoneKeeps
  <1>3. StoreTypes' /\ GcTypes' /\ PastTypes'
    BY <1>1 DEF IInv, Types, StoreTypes, GcTypes, PastTypes, gc
  <1>4. RecvTypes'
    <2>1. cause' \in [Receiver -> BOOLEAN]
      BY <1>1
    <2> QED
      BY <1>1, <2>1 DEF IInv, Types, RecvTypes, receiver
  <1>5. JobOK' /\ ManifestIsBacked'
    BY <1>1 DEF IInv, JobOK, ManifestIsBacked
  <1>6. ~gcdSend => manifest # NoManifest
    BY <1>1 DEF IInv, SendOK
  <1>7. ASSUME NEW r \in Receiver PROVE RecvOK(r)' /\ CalmOK(r)'
    <2>1. ~cause'[r] => ~gcdSend /\ ~cause[r]
      BY <1>1
    <2>2. ~gcdSend /\ Sound => Sound'
      BY <1>1, <1>6 DEF Sound
    <2>3. UNCHANGED receiver /\ published \subseteq published'
      BY <1>1
    <2> QED
      BY <1>1, <2>1, <2>2, <2>3, ReceiverFrame
  <1> QED
    BY <1>2, <1>3, <1>4, <1>5, <1>7 DEF IInv, Types
-----------------------------------------------------------------------------
(* A step that leaves sender, receivers and what was published alone, and disturbs
   every receiver that runs, unless it takes nothing a receiver counts on. *)
LEMMA OutsideFrame ==
  ASSUME IInv, UNCHANGED <<sender, receiver, published, received>>,
         StoreTypes', GcTypes', upsets' \in 0..MaxUpsets,
         manifest' \in {manifest, NoManifest},
         ManifestIsBacked',
         ~gcdSend' => /\ ~gcdSend /\ objects \subseteq objects'
                      /\ spc = "manifest" => lease' = lease
                      /\ manifest' = manifest,
         \/ cause' = [r \in Receiver |-> TRUE]
         \/ /\ cause' = cause
            /\ Sound => Sound'
            /\ UNCHANGED <<manifest, objects, poisoned>>
  PROVE  IInv'
  <1>1. SendTypes' /\ PastTypes'
    BY DEF IInv, Types, SendTypes, PastTypes, sender
  <1>2. RecvTypes'
    <2>1. cause' \in [Receiver -> BOOLEAN]
      BY DEF IInv, Types, RecvTypes
    <2> QED
      BY <2>1 DEF IInv, Types, RecvTypes, receiver
  <1>3. SendOK'
    <2>1. UNCHANGED <<tree, spc, files, cur, uploaded>>
      BY DEF sender
    <2>2. Ordered(files)' /\ ChunksOf(files)' = ChunksOf(files)
      BY <2>1 DEF IInv, SendOK, Ordered, ChunksOf
    <2> QED
      BY <2>1, <2>2 DEF IInv, SendOK
  <1>4. JobOK'
    BY DEF IInv, JobOK
  <1>5. ASSUME NEW r \in Receiver PROVE RecvOK(r)' /\ CalmOK(r)'
    <2>1. CASE cause' = [q \in Receiver |-> TRUE]
      <3>1. cause'[r] = TRUE
        BY <2>1
      <3> QED
        BY <3>1, ReceiverFrame
    <2>2. CASE cause' = cause /\ (Sound => Sound') /\ UNCHANGED <<manifest, objects, poisoned>>
      BY <2>2, ReceiverFrame
    <2> QED
      BY <2>1, <2>2
  <1> QED
    BY <1>1, <1>2, <1>3, <1>4, <1>5 DEF IInv, Types

\* Whoever disturbs all receivers.
LEMMA AllDisturbed ==
  ASSUME Disturb(Receiver)
  PROVE  cause' = [r \in Receiver |-> TRUE]
  BY DEF Disturb

\* gc begins, reads the lease or the manifest, or stops.
LEMMA GcReads ==
  ASSUME IInv, StartGC \/ CheckLease \/ ReadDoomed \/ GcStops
  PROVE  IInv'
  <1>1. /\ UNCHANGED <<sender, receiver, published, received, cause, gcdSend, gcdJob>>
        /\ UNCHANGED <<lease, manifest, notify, ack, objects, poisoned>>
        /\ Upset \/ UNCHANGED upsets
    BY DEF StartGC, CheckLease, ReadDoomed, GcStops, GcOnly, store
  <1>2. /\ gpc' \in {"lease", "read", "objects", "idle"}
        /\ consent' \in {"none", "forced", "acked", "expired"}
    BY DEF StartGC, CheckLease, ReadDoomed, GcStops, IInv, Types, GcTypes
  <1>3. doomed' \subseteq Chunk
    <2>1. manifest # NoManifest => ChunksOf(manifest) \subseteq Chunk
      BY ChunksAreChunks DEF IInv, Types, StoreTypes
    <2> QED
      BY <2>1 DEF StartGC, CheckLease, ReadDoomed, GcStops, IInv, Types, GcTypes
  <1>4. StoreTypes' /\ GcTypes' /\ upsets' \in 0..MaxUpsets
    BY <1>1, <1>2, <1>3, UpsetCounts DEF IInv, Types, StoreTypes, GcTypes
  <1>5. ManifestIsBacked' /\ (Sound => Sound')
    BY <1>1 DEF IInv, ManifestIsBacked, Sound
  <1> QED
    BY <1>1, <1>4, <1>5, OutsideFrame

\* gc removes an object, or the lease, the manifest and the markers, or fails to.
LEMMA GcRemoves ==
  ASSUME IInv, RemoveObject \/ RemoveMeta
  PROVE  IInv'
  <1>1. /\ UNCHANGED <<sender, receiver, published, received>>
        /\ gpc' \in {"objects", "manifest", "notify", "ack", "idle"} /\ consent' = consent
        /\ doomed' \subseteq doomed
        /\ gcdJob' \in BOOLEAN
    BY DEF RemoveObject, RemoveMeta, GcOnly, IInv, Types, GcTypes
  <1>2. CASE Removes
    <2>1. cause' = [r \in Receiver |-> TRUE] /\ gcdSend' = TRUE /\ upsets' = upsets
      BY <1>2, AllDisturbed DEF Removes
    <2>2. /\ lease' \in {lease, "none"} /\ manifest' \in {manifest, NoManifest}
          /\ notify' \in BOOLEAN /\ ack' \in BOOLEAN
          /\ objects' \subseteq objects /\ poisoned' \subseteq objects'
      BY DEF RemoveObject, RemoveMeta, IInv, Types, StoreTypes
    <2>3. StoreTypes' /\ GcTypes' /\ upsets' \in 0..MaxUpsets
      BY <1>1, <2>1, <2>2 DEF IInv, Types, StoreTypes, GcTypes, PastTypes
    <2>4. ManifestIsBacked'
      BY DEF RemoveObject, RemoveMeta, IInv, ManifestIsBacked
    <2> QED
      BY <1>1, <2>1, <2>2, <2>3, <2>4, OutsideFrame
  <1>3. CASE ~Removes
    <2>1. /\ Upset /\ UNCHANGED <<gcdSend, gcdJob, cause>>
          /\ UNCHANGED <<lease, manifest, notify, ack, objects, poisoned>>
      BY <1>3 DEF RemoveObject, RemoveMeta, Misses
    <2>2. StoreTypes' /\ GcTypes' /\ upsets' \in 0..MaxUpsets
      BY <1>1, <2>1, UpsetCounts DEF IInv, Types, StoreTypes, GcTypes
    <2>3. ManifestIsBacked' /\ (Sound => Sound')
      BY <2>1 DEF IInv, ManifestIsBacked, Sound
    <2> QED
      BY <1>1, <2>1, <2>2, <2>3, OutsideFrame
  <1> QED
    BY <1>2, <1>3

\* The lease runs out, or an object is damaged.
LEMMA WearKeeps ==
  ASSUME IInv, Expire \/ Poison
  PROVE  IInv'
  <1>1. /\ UNCHANGED <<sender, receiver, gc, published, received, gcdSend, gcdJob>>
        /\ UNCHANGED <<manifest, notify, ack, objects>>
        /\ Upset \/ UNCHANGED upsets
        /\ lease' \in {lease, "expired"} /\ poisoned' \subseteq objects
    BY DEF Expire, Poison, IInv, Types, StoreTypes
  <1>2. spc = "manifest" => lease' = lease
    BY DEF Expire, Poison
  <1>3. StoreTypes' /\ GcTypes' /\ upsets' \in 0..MaxUpsets
    BY <1>1, UpsetCounts DEF IInv, Types, StoreTypes, GcTypes, gc
  <1>4. ManifestIsBacked'
    BY <1>1 DEF IInv, ManifestIsBacked
  <1>5. \/ cause' = [r \in Receiver |-> TRUE]
        \/ /\ cause' = cause
           /\ Sound => Sound'
           /\ UNCHANGED <<manifest, objects, poisoned>>
    <2>1. CASE Poison
      BY <2>1, AllDisturbed DEF Poison
    <2>2. CASE Expire /\ (notify \/ manifest # NoManifest)
      <3>1. Disturb(Receiver)
        BY <2>2 DEF Expire
      <3> QED
        BY <3>1, AllDisturbed
    <2>3. CASE Expire /\ ~(notify \/ manifest # NoManifest)
      <3>1. cause' = [r \in Receiver |-> cause[r] \/ r \in {}]
        BY <2>3 DEF Expire, Disturb
      <3>2. cause \in [Receiver -> BOOLEAN]
        BY DEF IInv, Types, RecvTypes
      <3>3. cause' = cause
        BY <3>1, <3>2
      <3>4. Sound' /\ poisoned' = poisoned
        BY <1>1, <2>3 DEF Sound, Expire
      <3> QED
        BY <1>1, <3>3, <3>4
    <2> QED
      BY <2>1, <2>2, <2>3
  <1> QED
    BY <1>1, <1>2, <1>3, <1>4, <1>5, OutsideFrame
-----------------------------------------------------------------------------
(* A step of a receiver r.  What it leaves alone of another one, q. *)
Alone(r, q) == /\ rpc'[q] = rpc[q] /\ man'[q] = man[q] /\ at'[q] = at[q]
               /\ buf'[q] = buf[q] /\ old'[q] = old[q] /\ failed'[q] = failed[q]

(* Another receiver keeps its part of the invariant: it is disturbed when r comes
   to its destination, and when r is there its part asks nothing. *)
LEMMA RecvFrame ==
  ASSUME IInv, NEW r \in Receiver, UNCHANGED <<sender, gc, published, gcdSend, gcdJob>>,
         UNCHANGED <<lease, manifest, notify, objects, poisoned>>,
         ack' \in BOOLEAN, received' \subseteq Seq(File), upsets' \in 0..MaxUpsets, RecvTypes',
         \A q \in Receiver \ {r} : Alone(r, q) /\ (~cause'[q] => ~cause[q]),
         \A d \in Dest \ {DestOf[r]} : staging'[d] = staging[d],
         Active(r) \/ (UNCHANGED staging /\ \A q \in Peers(r) : cause'[q]),
         RecvOK(r)', CalmOK(r)'
  PROVE  IInv'
  <1>1. StoreTypes' /\ GcTypes' /\ PastTypes'
    BY DEF IInv, Types, StoreTypes, GcTypes, PastTypes, gc
  <1>2. SendTypes'
    BY DEF IInv, Types, SendTypes, sender
  <1>3. SendOK'
    <2>1. UNCHANGED <<tree, spc, files, cur, uploaded>>
      BY DEF sender
    <2>2. Ordered(files)' /\ ChunksOf(files)' = ChunksOf(files)
      BY <2>1 DEF IInv, SendOK, Ordered, ChunksOf
    <2> QED
      BY <2>1, <2>2 DEF IInv, SendOK
  <1>4. JobOK' /\ ManifestIsBacked'
    BY DEF IInv, JobOK, ManifestIsBacked
  <1>5. ASSUME NEW q \in Receiver \ {r} PROVE RecvOK(q)' /\ CalmOK(q)'
    <2>1. RecvOK(q) /\ CalmOK(q) /\ Alone(r, q) /\ (~cause'[q] => ~cause[q])
      BY DEF IInv
    <2>2. RecvOK(q)'
      BY <2>1 DEF RecvOK, FileOf, Alone, Promoting
    <2>3. Sound' = Sound
      BY DEF Sound
    <2>4. ASSUME Active(q)', ~cause'[q] PROVE Active(q) /\ ~cause[q] /\ Peers(q) = {}
      BY <2>1, <2>4 DEF CalmOK, Active, Alone
    <2>5. ASSUME Active(q)', ~cause'[q], DestOf[q] = DestOf[r], Active(r) PROVE FALSE
      <3>1. r \in Peers(q)
        BY <2>5 DEF Peers
      <3> QED
        BY <2>4, <2>5, <3>1
    <2>6. ASSUME Active(q)', ~cause'[q], DestOf[q] = DestOf[r], ~Active(r)
          PROVE  q \notin Peers(r) /\ FALSE
      <3>1. q \in Peers(r)
        BY <2>4, <2>6 DEF Peers
      <3> QED
        BY <2>6, <3>1
    <2>7. ASSUME Active(q)', ~cause'[q] PROVE DestOf[q] # DestOf[r] /\ staging'[DestOf[q]] = staging[DestOf[q]]
      <3>1. DestOf[q] # DestOf[r]
        BY <2>5, <2>6, <2>7
      <3>2. DestOf[q] \in Dest \ {DestOf[r]}
        BY <3>1, Facts
      <3> QED
        BY <3>1, <3>2
    <2>8. ASSUME Active(q)', ~cause'[q], NEW p \in Peers(q)' PROVE FALSE
      <3>1. p \in Receiver \ {q} /\ DestOf[p] = DestOf[q] /\ Active(p)'
        BY DEF Peers
      <3>2. p # r
        BY <2>7, <2>8, <3>1
      <3>3. Active(p)
        BY <3>1, <3>2 DEF Active, Alone
      <3>4. p \in Peers(q)
        BY <3>1, <3>3 DEF Peers
      <3> QED
        BY <2>4, <2>8, <3>4
    <2>9. CalmOK(q)'
      <3> SUFFICES ASSUME Active(q)', ~cause'[q] PROVE CalmOK(q)'
        BY DEF CalmOK
      <3>1. Peers(q)' = {} /\ staging'[DestOf[q]] = staging[DestOf[q]]
        BY <2>7, <2>8
      <3>2. Active(q) /\ ~cause[q]
        BY <2>4
      <3>3. /\ FileOf(q)' = FileOf(q) /\ StagedAt(q)' = StagedAt(q)
            /\ \A i : InPlace(q, i)' <=> InPlace(q, i)
        BY <2>1, <3>1 DEF Alone, FileOf, StagedAt, InPlace
      <3>4. Sound /\ Peers(q) = {} /\ failed[q] = FALSE /\ Ready(q)
        BY <2>1, <3>2 DEF CalmOK
      <3>5. ChunksOf(man[q])' = ChunksOf(man[q])
        BY <2>1 DEF Alone, ChunksOf
      <3>6. Ready(q)'
        BY <2>1, <3>3, <3>4, <3>5 DEF Ready, Alone, Promoting
      <3> QED
        BY <2>1, <2>3, <3>1, <3>4, <3>6 DEF CalmOK, Alone
    <2> QED
      BY <2>2, <2>9
  <1> QED
    BY <1>1, <1>2, <1>3, <1>4, <1>5 DEF IInv, Types

(* The types, and what is left alone, if r moves to l. *)
LEMMA RecvStepTypes ==
  ASSUME IInv, NEW r \in Receiver, NEW l \in Stages, rpc' = [rpc EXCEPT ![r] = l],
         NEW m \in Seq(File) \cup {NoManifest}, man' = [man EXCEPT ![r] = m] \/ man' = man,
         NEW i \in Nat, at' = [at EXCEPT ![r] = i] \/ at' = at,
         NEW b \in Seq(Chunk), buf' = [buf EXCEPT ![r] = b] \/ buf' = buf,
         NEW o \in Held, old' = [old EXCEPT ![r] = o] \/ old' = old,
         NEW f \in BOOLEAN, failed' = [failed EXCEPT ![r] = f] \/ failed' = failed,
         cause' \in [Receiver -> BOOLEAN],
         staging' \in [Dest -> [Path -> Held]], dest' \in [Dest -> [Path -> Held]]
  PROVE  RecvTypes' /\ \A q \in Receiver \ {r} : Alone(r, q)
  <1>0. RecvTypes
    BY DEF IInv, Types
  <1>1. rpc' \in [Receiver -> Stages] /\ man' \in [Receiver -> Seq(File) \cup {NoManifest}]
    BY <1>0 DEF RecvTypes
  <1>2. at' \in [Receiver -> Nat] /\ buf' \in [Receiver -> Seq(Chunk)]
    BY <1>0 DEF RecvTypes
  <1>3. old' \in [Receiver -> Held] /\ failed' \in [Receiver -> BOOLEAN]
    BY <1>0 DEF RecvTypes
  <1>4. RecvTypes'
    BY <1>1, <1>2, <1>3 DEF RecvTypes
  <1>5. ASSUME NEW q \in Receiver \ {r} PROVE Alone(r, q)
    <2>1. rpc'[q] = rpc[q] /\ man'[q] = man[q] /\ at'[q] = at[q]
      BY <1>0 DEF RecvTypes
    <2>2. buf'[q] = buf[q] /\ old'[q] = old[q] /\ failed'[q] = failed[q]
      BY <1>0 DEF RecvTypes
    <2> QED
      BY <2>1, <2>2 DEF Alone
  <1> QED
    BY <1>4, <1>5

\* The state of one receiver.
LEMMA RecvState ==
  ASSUME IInv, NEW r \in Receiver
  PROVE  /\ RecvTypes /\ RecvOK(r) /\ CalmOK(r)
         /\ rpc[r] \in Stages /\ man[r] \in Seq(File) \cup {NoManifest} /\ at[r] \in Nat
         /\ buf[r] \in Seq(Chunk) /\ old[r] \in Held /\ failed[r] \in BOOLEAN
         /\ cause \in [Receiver -> BOOLEAN] /\ cause[r] \in BOOLEAN
         /\ staging \in [Dest -> [Path -> Held]] /\ dest \in [Dest -> [Path -> Held]]
         /\ DestOf[r] \in Dest /\ ack \in BOOLEAN /\ received \subseteq Seq(File)
         /\ upsets \in 0..MaxUpsets
  BY Facts DEF IInv, Types, RecvTypes, StoreTypes, PastTypes

\* A published manifest names every path once.
LEMMA PathsDiffer ==
  ASSUME IInv, NEW m \in published, NEW i \in 1..Len(m), NEW j \in 1..Len(m), i # j
  PROVE  m \in Seq(File) /\ m[i].path \in Path /\ m[j].path \in Path /\ m[i].path # m[j].path
  <1>1. m \in Seq(File) /\ Ordered(m)
    BY DEF IInv, Types, PastTypes, JobOK
  <1>2. m[i].path = Order[i] /\ m[j].path = Order[j] /\ Len(m) <= Len(Order)
    BY <1>1 DEF Ordered
  <1>3. Len(m) \in Nat /\ Len(Order) \in Nat /\ DOMAIN Order = 1..Len(Order)
    BY <1>1, Facts, LenProperties
  <1>4. i \in DOMAIN Order /\ j \in DOMAIN Order
    BY <1>2, <1>3
  <1> QED
    BY <1>1, <1>2, <1>4, Facts, FileFacts

(* What a receiver that fails knows: something disturbed it. *)
LEMMA FailKeeps ==
  ASSUME IInv, NEW r \in Receiver, Active(r), Fail(r),
         UNCHANGED <<store, sender, gc, published, received, gcdSend, gcdJob>>,
         UNCHANGED <<man, at, buf, old, staging, dest>>,
         Upset \/ UNCHANGED upsets,
         (cause[r] /\ UNCHANGED cause) \/ Disturb({r})
  PROVE  IInv'
  <1>0. "cleanup" \in Stages /\ TRUE \in BOOLEAN /\ rpc' = [rpc EXCEPT ![r] = "cleanup"]
        /\ failed' = [failed EXCEPT ![r] = TRUE]
    BY DEF Stages, Fail
  <1>1. /\ cause' \in [Receiver -> BOOLEAN] /\ cause'[r] = TRUE
        /\ \A q \in Receiver \ {r} : cause'[q] = cause[q]
    <2>1. cause \in [Receiver -> BOOLEAN]
      BY RecvState
    <2>2. CASE cause[r] /\ UNCHANGED cause
      BY <2>1, <2>2
    <2>3. CASE Disturb({r})
      BY <2>1, <2>3 DEF Disturb
    <2> QED
      BY <2>2, <2>3
  <1>2. RecvTypes' /\ \A q \in Receiver \ {r} : Alone(r, q)
    BY <1>0, <1>1, RecvStepTypes, RecvState
  <1>3. rpc'[r] = "cleanup"
    BY <1>0, RecvState DEF RecvTypes
  <1>4. RecvOK(r)' /\ CalmOK(r)'
    BY <1>1, <1>3 DEF RecvOK, CalmOK, Promoting
  <1>5. UNCHANGED <<lease, manifest, notify, objects, poisoned, ack>>
    BY DEF store
  <1>6. /\ ack' \in BOOLEAN /\ received' \subseteq Seq(File) /\ upsets' \in 0..MaxUpsets
    BY <1>5, RecvState, UpsetCounts
  <1> QED
    BY <1>1, <1>2, <1>4, <1>5, <1>6, RecvFrame

\* A receiver that is not disturbed counts on the store and on its destination.
LEMMA StartRecvKeeps ==
  ASSUME IInv, NEW r \in Receiver, StartRecv(r)
  PROVE  IInv'
  <1>0. /\ rpc' = [rpc EXCEPT ![r] = "wait"] /\ failed' = failed /\ "wait" \in Stages /\ ~Active(r)
        /\ UNCHANGED <<lease, manifest, notify, ack, objects, poisoned>>
        /\ UNCHANGED <<man, at, buf, old, staging, dest, received>>
        /\ UNCHANGED <<sender, gc, upsets, published, gcdSend, gcdJob>>
    BY DEF StartRecv, Goto, RecvOnly, store, Stages
  <1>1. cause' = [q \in Receiver |-> \/ cause[q]
                                     \/ q \in Peers(r)
                                     \/ q \in IF Sound /\ Peers(r) = {} THEN {} ELSE {r}]
    BY DEF StartRecv, Disturb
  <1>2. /\ cause' \in [Receiver -> BOOLEAN]
        /\ ~cause'[r] => Sound /\ Peers(r) = {}
        /\ \A q \in Receiver : ~cause'[q] => ~cause[q]
    BY <1>1
  <1>3. \A q \in Peers(r) : cause'[q]
    BY <1>1 DEF Peers
  <1>4. RecvTypes' /\ \A q \in Receiver \ {r} : Alone(r, q)
    BY <1>0, <1>2, RecvStepTypes, RecvState
  <1>5. rpc'[r] = "wait"
    BY <1>0, RecvState DEF RecvTypes
  <1>6. buf[r] = <<>> /\ failed[r] = FALSE
    BY <1>0, RecvState DEF RecvOK, Active
  <1>7. RecvOK(r)'
    BY <1>0, <1>5, <1>6 DEF RecvOK, Promoting
  <1>8. Peers(r)' = Peers(r)
    BY <1>4 DEF Peers, Active, Alone
  <1>9. Sound' = Sound
    BY <1>0 DEF Sound
  <1>10. CalmOK(r)'
    BY <1>0, <1>2, <1>5, <1>6, <1>8, <1>9 DEF CalmOK, Ready, Promoting
  <1> QED
    BY <1>0, <1>2, <1>3, <1>4, <1>7, <1>10, RecvState, RecvFrame

(* A step of r, active before and after it, that disturbs nobody: to label l, with
   manifest m, at file i, with b read and o to reuse. *)
Moves(r, l, m, i, b, o) ==
    /\ l \in Stages /\ rpc' = [rpc EXCEPT ![r] = l] /\ UNCHANGED <<failed, cause>>
    /\ m \in Seq(File) \cup {NoManifest} /\ man' = [man EXCEPT ![r] = m]
    /\ i \in Nat /\ at' = [at EXCEPT ![r] = i]
    /\ b \in Seq(Chunk) /\ buf' = [buf EXCEPT ![r] = b]
    /\ o \in Held /\ old' = [old EXCEPT ![r] = o]
    /\ UNCHANGED <<sender, gc, published, gcdSend, gcdJob>> /\ (Upset \/ UNCHANGED upsets)
    /\ UNCHANGED <<lease, manifest, notify, objects, poisoned>>

\* A variable that a step leaves alone, as one that is set to what it was.
LEMMA Same ==
  ASSUME IInv, NEW r \in Receiver
  PROVE  /\ man = [man EXCEPT ![r] = man[r]] /\ at = [at EXCEPT ![r] = at[r]]
         /\ buf = [buf EXCEPT ![r] = buf[r]] /\ old = [old EXCEPT ![r] = old[r]]
  BY RecvState DEF RecvTypes

LEMMA MovesTo ==
  ASSUME IInv, NEW r \in Receiver, NEW l, NEW m, NEW i, NEW b, NEW o, Moves(r, l, m, i, b, o)
  PROVE  rpc'[r] = l /\ man'[r] = m /\ at'[r] = i /\ buf'[r] = b /\ old'[r] = o
  BY RecvState DEF Moves, RecvTypes

LEMMA RecvStep ==
  ASSUME IInv, NEW r \in Receiver, Active(r),
         NEW l, NEW m, NEW i, NEW b, NEW o, Moves(r, l, m, i, b, o),
         ack' \in BOOLEAN, received' \subseteq Seq(File),
         staging' \in [Dest -> [Path -> Held]], dest' \in [Dest -> [Path -> Held]],
         \A d \in Dest \ {DestOf[r]} : staging'[d] = staging[d],
         RecvOK(r)', ~cause[r] => Ready(r)'
  PROVE  IInv'
  <1>1. cause' \in [Receiver -> BOOLEAN] /\ FALSE \in BOOLEAN /\ cause' = cause /\ failed' = failed
    BY RecvState DEF Moves
  <1>2. RecvTypes' /\ \A q \in Receiver \ {r} : Alone(r, q)
    BY <1>1, RecvStepTypes DEF Moves
  <1>3. Peers(r)' = Peers(r) /\ Sound' = Sound
    BY <1>2 DEF Peers, Active, Alone, Sound, Moves
  <1>4. CalmOK(r)'
    <2>1. CASE cause[r]
      BY <1>1, <2>1 DEF CalmOK
    <2>2. CASE ~cause[r]
      <3>1. Sound /\ Peers(r) = {} /\ failed[r] = FALSE
        BY <2>2, RecvState DEF CalmOK
      <3> QED
        BY <1>1, <1>3, <2>2, <3>1 DEF CalmOK
    <2> QED
      BY <2>1, <2>2
  <1>5. upsets' \in 0..MaxUpsets
    BY UpsetCounts DEF Moves
  <1>6. /\ UNCHANGED <<sender, gc, published, gcdSend, gcdJob>>
        /\ UNCHANGED <<lease, manifest, notify, objects, poisoned>>
    BY DEF Moves
  <1> QED
    BY <1>1, <1>2, <1>4, <1>5, <1>6, RecvFrame

\* What a receiver in the middle of its run leaves alone.
LEMMA LeavesAlone ==
  ASSUME RecvOnly, UNCHANGED store, UNCHANGED received
  PROVE  /\ UNCHANGED <<sender, gc, upsets, published, gcdSend, gcdJob>>
         /\ UNCHANGED <<lease, manifest, notify, objects, poisoned, ack, received>>
  BY DEF RecvOnly, store

(* It polls and reads the lease: undisturbed, it finds a manifest and a live lease. *)
LEMMA PollKeeps ==
  ASSUME IInv, NEW r \in Receiver, Poll(r) \/ ReadLease(r)
  PROVE  IInv'
  <1>0. /\ UNCHANGED <<store, man, at, buf, old, staging, dest, received, cause>> /\ RecvOnly
        /\ rpc[r] \in {"wait", "lease"} /\ Active(r)
    BY DEF Poll, ReadLease, Active
  <1>1. /\ ~cause[r] => Sound
        /\ ~cause[r] /\ rpc[r] = "lease" => manifest # NoManifest
        /\ buf[r] = <<>>
    BY <1>0, RecvState DEF CalmOK, Ready, RecvOK
  <1>2. ASSUME NEW l \in {"lease", "manifest"}, Goto(r, l), ~cause[r] => manifest # NoManifest
        PROVE  IInv'
    <2>1. Moves(r, l, man[r], at[r], buf[r], old[r])
      BY <1>0, <1>2, RecvState, Same, LeavesAlone DEF Moves, Goto, Stages
    <2>2. rpc'[r] = l /\ buf'[r] = buf[r]
      BY <2>1, MovesTo
    <2>3. RecvOK(r)' /\ (~cause[r] => Ready(r)')
      BY <1>0, <1>1, <1>2, <2>2, LeavesAlone DEF RecvOK, Ready, Promoting
    <2>4. /\ ack' \in BOOLEAN /\ received' \subseteq Seq(File) /\ staging' = staging
          /\ staging' \in [Dest -> [Path -> Held]] /\ dest' \in [Dest -> [Path -> Held]]
      BY <1>0, RecvState, LeavesAlone
    <2> QED
      BY <1>0, <2>1, <2>3, <2>4, RecvStep
  <1>3. CASE Poll(r)
    <2>1. Goto(r, "lease") /\ (notify \/ manifest # NoManifest)
      BY <1>3 DEF Poll
    <2>2. ~cause[r] => manifest # NoManifest
      BY <1>1, <2>1 DEF Sound
    <2> QED
      BY <1>2, <2>1, <2>2
  <1>4. CASE ReadLease(r) /\ lease = "live" /\ Goto(r, "manifest")
    BY <1>1, <1>2, <1>4 DEF ReadLease
  <1>5. CASE ReadLease(r) /\ lease # "live" /\ Fail(r)
    <2>1. cause[r]
      BY <1>1, <1>5 DEF Sound, ReadLease
    <2> QED
      BY <1>0, <1>5, <2>1, FailKeeps DEF RecvOnly
  <1> QED
    BY <1>3, <1>4, <1>5 DEF ReadLease

(* On to file i of manifest m: undisturbed, what comes before it is staged, and what
   is staged under its name is what it reuses. *)
LEMMA StageKeeps ==
  ASSUME IInv, NEW r \in Receiver, Active(r), NEW m \in published, NEW i \in 1..(Len(m) + 1),
         Stage(r, m, i), man' = [man EXCEPT ![r] = m], buf' = [buf EXCEPT ![r] = <<>>],
         UNCHANGED <<store, dest, received, cause>>, RecvOnly,
         staging' \in [Dest -> [Path -> Held]],
         \A d \in Dest \ {DestOf[r]} : staging'[d] = staging[d],
         i <= Len(m) => staging'[DestOf[r]][m[i].path] = staging[DestOf[r]][m[i].path],
         ~cause[r] => /\ ChunksOf(m) \subseteq objects \ poisoned
                      /\ \A j \in 1..(i - 1) : staging'[DestOf[r]][m[j].path] = m[j].chunks
  PROVE  IInv'
  <1> DEFINE more == i <= Len(m)
             l == IF more THEN "stage" ELSE "promote"
             n == IF more THEN i ELSE 1
             o == IF more THEN staging[DestOf[r]][m[i].path] ELSE Nothing
  <1>1. m \in Seq(File) /\ Len(m) \in Nat /\ i \in Nat
    <2>1. m \in Seq(File)
      BY DEF IInv, Types, PastTypes
    <2> QED
      BY <2>1, LenProperties
  <1>2. o \in Held /\ n \in Nat /\ l \in Stages
    <2>1. CASE more
      <3>1. i \in 1..Len(m)
        BY <1>1, <2>1
      <3>2. m[i].path \in Path
        BY <1>1, <3>1, FileFacts
      <3> QED
        BY <1>1, <2>1, <3>2, RecvState DEF Stages
    <2>2. CASE ~more
      BY <2>2 DEF Held, Stages
    <2> QED
      BY <2>1, <2>2
  <1>3. Moves(r, l, m, n, <<>>, o)
    <2>1. /\ rpc' = [rpc EXCEPT ![r] = l] /\ failed' = failed
          /\ at' = [at EXCEPT ![r] = n] /\ old' = [old EXCEPT ![r] = o]
      BY DEF Stage, Goto
    <2> QED
      BY <1>1, <1>2, <2>1, NoFiles, LeavesAlone DEF Moves
  <1>4. rpc'[r] = l /\ man'[r] = m /\ at'[r] = n /\ buf'[r] = <<>> /\ old'[r] = o
    BY <1>3, MovesTo
  <1>5. UNCHANGED <<published, objects, poisoned, received, ack>>
    BY LeavesAlone
  <1>6. ChunksOf(man[r])' = ChunksOf(m)
    BY <1>4 DEF ChunksOf
  <1>7. RecvOK(r)' /\ (~cause[r] => Ready(r)')
    <2>1. CASE more
      <3>1. /\ rpc'[r] = "stage" /\ at'[r] = i /\ i \in 1..Len(m)
            /\ old'[r] = staging[DestOf[r]][m[i].path]
        BY <1>1, <1>4, <2>1
      <3>2. FileOf(r)' = m[i] /\ Len(m[i].chunks) \in Nat
        BY <1>1, <1>4, <3>1, FileFacts DEF FileOf
      <3>3. Len(<<>>) = 0 /\ 1..0 = {}
        BY NoFiles
      <3>4. RecvOK(r)'
        BY <1>4, <1>5, <3>1, <3>2, <3>3 DEF RecvOK, Promoting
      <3>5. StagedAt(r)' = old'[r]
        BY <2>1, <3>1, <3>2 DEF StagedAt
      <3>6. ASSUME ~cause[r], NEW j \in 1..(i - 1) PROVE InPlace(r, j)'
        BY <1>4, <3>6 DEF InPlace
      <3>7. ~cause[r] => Ready(r)'
        BY <1>5, <1>6, <3>1, <3>5, <3>6 DEF Ready, Promoting
      <3> QED
        BY <3>4, <3>7
    <2>2. CASE ~more
      <3>1. rpc'[r] = "promote" /\ at'[r] = 1 /\ 1 \in 1..(Len(m) + 1) /\ i - 1 = Len(m)
        BY <1>1, <1>4, <2>2
      <3>2. RecvOK(r)'
        BY <1>4, <1>5, <3>1 DEF RecvOK, Promoting
      <3>3. ASSUME ~cause[r], NEW j \in 1..Len(m) PROVE InPlace(r, j)'
        BY <1>4, <3>1, <3>3 DEF InPlace
      <3>4. ~cause[r] => Ready(r)'
        BY <1>4, <1>5, <1>6, <3>1, <3>3 DEF Ready, Promoting
      <3> QED
        BY <3>2, <3>4
    <2> QED
      BY <2>1, <2>2
  <1>8. ack' \in BOOLEAN /\ received' \subseteq Seq(File) /\ dest' \in [Dest -> [Path -> Held]]
    BY <1>5, RecvState
  <1> HIDE DEF l, n, o
  <1> QED
    BY <1>3, <1>7, <1>8, RecvStep

(* It reads the manifest: undisturbed, it finds a valid one, of which the store holds
   every object. *)
LEMMA ReadKeeps ==
  ASSUME IInv, NEW r \in Receiver, ReadManifest(r)
  PROVE  IInv'
  <1>0. /\ UNCHANGED <<store, buf, staging, dest, received, cause>> /\ RecvOnly
        /\ rpc[r] = "manifest" /\ Active(r)
    BY DEF ReadManifest, Active
  <1>1. ~cause[r] => /\ manifest # NoManifest /\ Valid(manifest)
                     /\ ChunksOf(manifest) \subseteq objects \ poisoned
    BY <1>0, RecvState DEF CalmOK, Ready, Sound
  <1>2. CASE manifest # NoManifest /\ Valid(manifest)
    <2>1. man' = [man EXCEPT ![r] = manifest] /\ Stage(r, manifest, 1)
      BY <1>2 DEF ReadManifest
    <2>2. manifest \in published /\ Len(manifest) \in Nat
      BY <1>2, LenProperties DEF IInv, JobOK, Types, StoreTypes
    <2>3. buf[r] = <<>>
      BY <1>0, RecvState DEF RecvOK
    <2>4. buf' = [buf EXCEPT ![r] = <<>>]
      BY <1>0, <2>3, Same
    <2>5. 1 \in 1..(Len(manifest) + 1) /\ 1..(1 - 1) = {}
      BY <2>2
    <2>6. staging' = staging /\ staging \in [Dest -> [Path -> Held]]
      BY <1>0, RecvState
    <2> QED
      BY <1>0, <1>1, <2>1, <2>2, <2>4, <2>5, <2>6, StageKeeps
  <1>3. CASE ~(manifest # NoManifest /\ Valid(manifest))
    <2>1. Fail(r) /\ UNCHANGED <<man, at, old>> /\ cause[r]
      BY <1>1, <1>3 DEF ReadManifest
    <2> QED
      BY <1>0, <2>1, FailKeeps DEF RecvOnly
  <1> QED
    BY <1>2, <1>3

\* A receiver that stages or promotes is at a file of its manifest.
LEMMA AtFile ==
  ASSUME IInv, NEW r \in Receiver,
         rpc[r] = "stage" \/ (Promoting(r) /\ at[r] <= Len(man[r]))
  PROVE  /\ Active(r) /\ man[r] \in published /\ man[r] \in Seq(File)
         /\ Len(man[r]) \in Nat /\ at[r] \in Nat /\ at[r] \in 1..Len(man[r])
         /\ FileOf(r) = man[r][at[r]]
         /\ FileOf(r).path \in Path /\ FileOf(r).chunks \in Seq(Chunk)
         /\ Len(FileOf(r).chunks) \in Nat
         /\ \A k \in 1..Len(FileOf(r).chunks) :
               FileOf(r).chunks[k] \in Chunk /\ FileOf(r).chunks[k] \in ChunksOf(man[r])
  <1>1. man[r] \in published /\ Active(r)
    BY RecvState DEF RecvOK, Active, Promoting
  <1>2. man[r] \in Seq(File)
    BY <1>1 DEF IInv, Types, PastTypes
  <1>3. Len(man[r]) \in Nat /\ at[r] \in Nat
    BY <1>2, RecvState, LenProperties
  <1>4. at[r] \in 1..Len(man[r])
    <2>1. CASE rpc[r] = "stage"
      BY <2>1, RecvState DEF RecvOK
    <2>2. CASE Promoting(r) /\ at[r] <= Len(man[r])
      <3>1. at[r] \in 1..(Len(man[r]) + 1)
        BY <2>2, RecvState DEF RecvOK
      <3> QED
        BY <1>3, <2>2, <3>1
    <2> QED
      BY <2>1, <2>2
  <1> QED
    BY <1>1, <1>2, <1>3, <1>4, FileFacts DEF FileOf

\* The next chunk is staged; one that is neither in the store nor reusable has a cause.
LEMMA ChunkKeeps ==
  ASSUME IInv, NEW r \in Receiver, StageChunk(r)
  PROVE  IInv'
  <1> DEFINE c == FileOf(r).chunks[Len(buf[r]) + 1]
             available == \/ c \in ReusableOld(r) /\ StagedAt(r) = old[r]
                          \/ c \notin ReusableOld(r) /\ c \in objects \ poisoned
  <1>0. /\ UNCHANGED <<store, man, at, old, staging, dest, received, cause>> /\ RecvOnly
        /\ rpc[r] = "stage" /\ Len(buf[r]) < Len(FileOf(r).chunks)
        /\ \/ available /\ buf' = [buf EXCEPT ![r] = Append(@, c)] /\ Goto(r, "stage")
           \/ ~available /\ Fail(r) /\ UNCHANGED buf
    BY DEF StageChunk
  <1>2. /\ Len(FileOf(r).chunks) \in Nat /\ Active(r)
        /\ \A k \in 1..Len(FileOf(r).chunks) :
               FileOf(r).chunks[k] \in Chunk /\ FileOf(r).chunks[k] \in ChunksOf(man[r])
    BY <1>0, AtFile
  <1>3. buf[r] \in Seq(Chunk) /\ Len(buf[r]) \in Nat
    BY RecvState, LenProperties
  <1>4. Len(buf[r]) + 1 \in 1..Len(FileOf(r).chunks) /\ c \in Chunk /\ c \in ChunksOf(man[r])
    <2>1. Len(buf[r]) + 1 \in 1..Len(FileOf(r).chunks)
      BY <1>0, <1>2, <1>3
    <2> QED
      BY <1>2, <2>1
  <1>5. ~cause[r] => available
    BY <1>0, <1>2, <1>4, RecvState DEF CalmOK, Ready
  <1> HIDE DEF available
  <1>6. CASE available
    <2> DEFINE b == Append(buf[r], c)
    <2>1. buf' = [buf EXCEPT ![r] = b] /\ Goto(r, "stage")
      BY <1>0, <1>6
    <2>2. /\ b \in Seq(Chunk) /\ Len(b) = Len(buf[r]) + 1 /\ b[Len(buf[r]) + 1] = c
          /\ \A k \in 1..Len(buf[r]) : b[k] = buf[r][k]
      BY <1>3, <1>4, AppendProperties
    <2> HIDE DEF b
    <2>3. Moves(r, "stage", man[r], at[r], b, old[r])
      <3>1. "stage" \in Stages /\ rpc' = [rpc EXCEPT ![r] = "stage"] /\ UNCHANGED <<failed, cause>>
        BY <1>0, <2>1 DEF Goto, Stages
      <3>2. /\ man' = [man EXCEPT ![r] = man[r]] /\ at' = [at EXCEPT ![r] = at[r]]
            /\ old' = [old EXCEPT ![r] = old[r]]
        BY <1>0, Same
      <3> QED
        BY <1>0, <2>1, <2>2, <3>1, <3>2, RecvState, LeavesAlone DEF Moves
    <2>4. rpc'[r] = "stage" /\ buf'[r] = b
      BY <2>3, MovesTo
    <2>5. UNCHANGED <<published, objects, poisoned, ack, man, at, old, staging, received, dest>>
      BY <1>0, LeavesAlone
    <2>6. /\ FileOf(r)' = FileOf(r) /\ StagedAt(r)' = StagedAt(r)
          /\ \A j : InPlace(r, j)' <=> InPlace(r, j)
      BY <2>5 DEF FileOf, StagedAt, InPlace
    <2>7. RecvOK(r)'
      <3>1. ASSUME NEW k \in 1..Len(b) PROVE b[k] = FileOf(r).chunks[k]
        <4>1. k \in 1..Len(buf[r]) \/ k = Len(buf[r]) + 1
          BY <1>3, <2>2
        <4>2. \A j \in 1..Len(buf[r]) : buf[r][j] = FileOf(r).chunks[j]
          BY <1>0, RecvState DEF RecvOK
        <4> QED
          BY <2>2, <4>1, <4>2
      <3>2. Len(b) <= Len(FileOf(r).chunks)
        BY <1>0, <1>2, <1>3, <2>2
      <3>3. man[r] \in published /\ at[r] \in 1..Len(man[r])
        BY <1>0, RecvState DEF RecvOK
      <3> QED
        BY <2>4, <2>5, <2>6, <3>1, <3>2, <3>3 DEF RecvOK, Promoting
    <2>8. ~cause[r] => Ready(r)'
      <3> SUFFICES ASSUME ~cause[r] PROVE Ready(r)'
        OBVIOUS
      <3>1. Ready(r)
        BY <1>2, RecvState DEF CalmOK
      <3>2. ChunksOf(man[r])' = ChunksOf(man[r])
        BY <2>5 DEF ChunksOf
      <3> QED
        BY <1>0, <2>4, <2>5, <2>6, <3>1, <3>2 DEF Ready, Promoting
    <2>9. /\ ack' \in BOOLEAN /\ received' \subseteq Seq(File) /\ staging' = staging
          /\ staging' \in [Dest -> [Path -> Held]] /\ dest' \in [Dest -> [Path -> Held]]
      BY <2>5, RecvState
    <2> QED
      BY <1>2, <2>3, <2>7, <2>8, <2>9, RecvStep
  <1>7. CASE ~available
    <2>1. Fail(r) /\ UNCHANGED buf /\ cause[r]
      BY <1>0, <1>5, <1>7
    <2> QED
      BY <1>0, <1>2, <2>1, FailKeeps DEF RecvOnly
  <1> QED
    BY <1>6, <1>7

\* A staged file is whole, and the ones staged before it are other files.
LEMMA CommitKeeps ==
  ASSUME IInv, NEW r \in Receiver, CommitStaged(r)
  PROVE  IInv'
  <1> DEFINE d == DestOf[r]
             p == FileOf(r).path
  <1>0. /\ UNCHANGED <<store, man, dest, received, cause>> /\ RecvOnly
        /\ rpc[r] = "stage" /\ Len(buf[r]) = Len(FileOf(r).chunks)
        /\ staging' = [staging EXCEPT ![d][p] = buf[r]]
        /\ buf' = [buf EXCEPT ![r] = <<>>] /\ Stage(r, man[r], at[r] + 1)
    BY DEF CommitStaged
  <1>1. /\ Active(r) /\ man[r] \in published /\ p \in Path /\ FileOf(r) = man[r][at[r]]
        /\ Len(man[r]) \in Nat /\ at[r] \in Nat /\ at[r] \in 1..Len(man[r])
        /\ FileOf(r).chunks \in Seq(Chunk)
    BY <1>0, AtFile
  <1>2. d \in Dest /\ staging \in [Dest -> [Path -> Held]] /\ buf[r] \in Held
        /\ buf[r] \in Seq(Chunk)
    BY RecvState DEF Held
  <1> HIDE DEF d, p
  <1>3. buf[r] = FileOf(r).chunks
    <2>1. \A k \in 1..Len(buf[r]) : buf[r][k] = FileOf(r).chunks[k]
      BY <1>0, RecvState DEF RecvOK
    <2> QED
      BY <1>0, <1>1, <1>2, <2>1, SeqEqual
  <1>4. /\ staging' \in [Dest -> [Path -> Held]]
        /\ \A e \in Dest \ {d} : staging'[e] = staging[e]
        /\ staging'[d][p] = buf[r]
        /\ \A q \in Path : q # p => staging'[d][q] = staging[d][q]
    BY <1>0, <1>1, <1>2
  <1>5. at[r] + 1 \in 1..(Len(man[r]) + 1) /\ (at[r] + 1) - 1 = at[r]
    BY <1>1
  <1>6. ASSUME NEW j \in 1..Len(man[r]), j # at[r]
        PROVE  staging'[d][man[r][j].path] = staging[d][man[r][j].path]
    <2>1. man[r][j].path \in Path /\ man[r][j].path # p
      BY <1>1, <1>6, PathsDiffer DEF p
    <2> QED
      BY <1>4, <2>1
  <1>7. at[r] + 1 <= Len(man[r]) =>
            staging'[d][man[r][at[r] + 1].path] = staging[d][man[r][at[r] + 1].path]
    <2> SUFFICES ASSUME at[r] + 1 <= Len(man[r])
                 PROVE  staging'[d][man[r][at[r] + 1].path] = staging[d][man[r][at[r] + 1].path]
      OBVIOUS
    <2>1. at[r] + 1 \in 1..Len(man[r]) /\ at[r] + 1 # at[r]
      BY <1>1
    <2> QED
      BY <1>6, <2>1
  <1>8. ~cause[r] => /\ ChunksOf(man[r]) \subseteq objects \ poisoned
                     /\ \A j \in 1..at[r] : staging'[d][man[r][j].path] = man[r][j].chunks
    <2> SUFFICES ASSUME ~cause[r]
                 PROVE  /\ ChunksOf(man[r]) \subseteq objects \ poisoned
                        /\ \A j \in 1..at[r] : staging'[d][man[r][j].path] = man[r][j].chunks
      OBVIOUS
    <2>1. /\ ChunksOf(man[r]) \subseteq objects \ poisoned
          /\ \A j \in 1..(at[r] - 1) : InPlace(r, j)
      BY <1>0, <1>1, RecvState DEF CalmOK, Ready
    <2>2. ASSUME NEW j \in 1..at[r] PROVE staging'[d][man[r][j].path] = man[r][j].chunks
      <3>1. CASE j = at[r]
        BY <1>1, <1>3, <1>4, <3>1 DEF p
      <3>2. CASE j # at[r]
        <4>1. j \in 1..Len(man[r]) /\ j \in 1..(at[r] - 1)
          BY <1>1, <3>2
        <4> QED
          BY <1>6, <2>1, <3>2, <4>1 DEF InPlace, d
      <3> QED
        BY <3>1, <3>2
    <2> QED
      BY <2>1, <2>2
  <1>9. man' = [man EXCEPT ![r] = man[r]]
    BY <1>0, Same
  <1>10. UNCHANGED <<store, dest, received, cause>> /\ RecvOnly
    BY <1>0
  <1> DEFINE n == at[r] + 1
  <1>11. /\ n \in 1..(Len(man[r]) + 1) /\ Stage(r, man[r], n)
         /\ n <= Len(man[r]) => staging'[d][man[r][n].path] = staging[d][man[r][n].path]
    BY <1>0, <1>5, <1>7
  <1>12. ~cause[r] => /\ ChunksOf(man[r]) \subseteq objects \ poisoned
                      /\ \A j \in 1..(n - 1) : staging'[d][man[r][j].path] = man[r][j].chunks
    BY <1>5, <1>8
  <1> HIDE DEF n
  <1> QED
    BY <1>0, <1>1, <1>4, <1>9, <1>10, <1>11, <1>12, StageKeeps DEF d

(* What has been read back from the staging is the manifest's file; if it is not,
   that has a cause. *)
LEMMA ReadBackKeeps ==
  ASSUME IInv, NEW r \in Receiver, ReadStaged(r)
  PROVE  IInv'
  <1>0. /\ UNCHANGED <<store, man, at, old, staging, dest, received, cause>> /\ RecvOnly
        /\ rpc[r] = "promote" /\ at[r] <= Len(man[r]) /\ Promoting(r)
    BY DEF ReadStaged, Promoting
  <1>1. /\ Active(r) /\ man[r] \in published
        /\ Len(man[r]) \in Nat /\ at[r] \in Nat /\ at[r] \in 1..Len(man[r])
        /\ FileOf(r) = man[r][at[r]] /\ FileOf(r).chunks \in Seq(Chunk)
    BY <1>0, AtFile
  <1>2. UNCHANGED <<published, objects, poisoned, ack, man, at, old, staging, received, dest>>
    BY <1>0, LeavesAlone
  <1>3. CASE Promotable(r) /\ buf' = [buf EXCEPT ![r] = StagedAt(r)] /\ Goto(r, "put")
    <2>1. StagedAt(r) = FileOf(r).chunks
      BY <1>3 DEF Promotable
    <2>2. Moves(r, "put", man[r], at[r], FileOf(r).chunks, old[r])
      <3>1. "put" \in Stages /\ rpc' = [rpc EXCEPT ![r] = "put"] /\ UNCHANGED <<failed, cause>>
        BY <1>0, <1>3 DEF Goto, Stages
      <3>2. /\ man' = [man EXCEPT ![r] = man[r]] /\ at' = [at EXCEPT ![r] = at[r]]
            /\ old' = [old EXCEPT ![r] = old[r]] /\ buf' = [buf EXCEPT ![r] = FileOf(r).chunks]
        BY <1>0, <1>3, <2>1, Same
      <3> QED
        BY <1>0, <1>1, <3>1, <3>2, RecvState, LeavesAlone DEF Moves
    <2>3. rpc'[r] = "put" /\ buf'[r] = FileOf(r).chunks
      BY <2>2, MovesTo
    <2>4. FileOf(r)' = FileOf(r) /\ \A j : InPlace(r, j)' <=> InPlace(r, j)
      BY <1>2 DEF FileOf, InPlace
    <2>5. RecvOK(r)'
      <3>1. at[r] \in 1..(Len(man[r]) + 1)
        BY <1>1
      <3> QED
        BY <1>0, <1>1, <1>2, <2>3, <2>4, <3>1 DEF RecvOK, Promoting
    <2>6. ~cause[r] => Ready(r)'
      <3> SUFFICES ASSUME ~cause[r] PROVE Ready(r)'
        OBVIOUS
      <3>1. Ready(r)
        BY <1>1, RecvState DEF CalmOK
      <3>2. ChunksOf(man[r])' = ChunksOf(man[r])
        BY <1>2 DEF ChunksOf
      <3> QED
        BY <1>0, <1>2, <2>3, <2>4, <3>1, <3>2 DEF Ready, Promoting
    <2>7. /\ ack' \in BOOLEAN /\ received' \subseteq Seq(File) /\ staging' = staging
          /\ staging' \in [Dest -> [Path -> Held]] /\ dest' \in [Dest -> [Path -> Held]]
      BY <1>2, RecvState
    <2> QED
      BY <1>1, <2>2, <2>5, <2>6, <2>7, RecvStep
  <1>4. CASE ~Promotable(r) /\ Fail(r) /\ UNCHANGED buf
    <2>1. at[r] \in at[r]..Len(man[r])
      BY <1>1
    <2>2. cause[r]
      BY <1>0, <1>1, <1>4, <2>1, RecvState
         DEF CalmOK, Ready, InPlace, Promotable, StagedAt, FileOf
    <2> QED
      BY <1>0, <1>1, <1>4, <2>2, FailKeeps DEF RecvOnly
  <1> QED
    BY <1>3, <1>4 DEF ReadStaged

\* Writing a file at the destination leaves what is staged alone.
LEMMA PutKeeps ==
  ASSUME IInv, NEW r \in Receiver, CommitFile(r)
  PROVE  IInv'
  <1> DEFINE d == DestOf[r]
             p == FileOf(r).path
  <1>0. /\ UNCHANGED <<store, man, at, old, staging, received, cause>> /\ RecvOnly
        /\ rpc[r] = "put" /\ Promoting(r)
        /\ dest' = [dest EXCEPT ![d][p] = buf[r]]
        /\ buf' = [buf EXCEPT ![r] = <<>>] /\ Goto(r, "unstage")
    BY DEF CommitFile, Promoting
  <1>1. at[r] <= Len(man[r])
    BY <1>0, RecvState DEF RecvOK
  <1>2. /\ Active(r) /\ man[r] \in published /\ p \in Path
        /\ Len(man[r]) \in Nat /\ at[r] \in Nat /\ at[r] \in 1..Len(man[r])
    BY <1>0, <1>1, AtFile
  <1>3. UNCHANGED <<published, objects, poisoned, ack, man, at, old, staging, received>>
    BY <1>0, LeavesAlone
  <1>4. /\ d \in Dest /\ dest \in [Dest -> [Path -> Held]] /\ buf[r] \in Held
    BY RecvState DEF Held
  <1> HIDE DEF d, p
  <1>5. dest' \in [Dest -> [Path -> Held]]
    BY <1>0, <1>2, <1>4
  <1>6. Moves(r, "unstage", man[r], at[r], <<>>, old[r])
    <2>1. "unstage" \in Stages /\ rpc' = [rpc EXCEPT ![r] = "unstage"] /\ UNCHANGED <<failed, cause>>
      BY <1>0 DEF Goto, Stages
    <2>2. /\ man' = [man EXCEPT ![r] = man[r]] /\ at' = [at EXCEPT ![r] = at[r]]
          /\ old' = [old EXCEPT ![r] = old[r]]
      BY <1>0, Same
    <2> QED
      BY <1>0, <2>1, <2>2, NoFiles, RecvState, LeavesAlone DEF Moves
  <1>7. rpc'[r] = "unstage"
    BY <1>6, MovesTo
  <1>8. RecvOK(r)'
    <2>1. at[r] \in 1..(Len(man[r]) + 1)
      BY <1>2
    <2> QED
      BY <1>1, <1>2, <1>3, <1>7, <2>1 DEF RecvOK, Promoting
  <1>9. ~cause[r] => Ready(r)'
    <2> SUFFICES ASSUME ~cause[r] PROVE Ready(r)'
      OBVIOUS
    <2>1. Ready(r)
      BY <1>2, RecvState DEF CalmOK
    <2>2. ChunksOf(man[r])' = ChunksOf(man[r]) /\ \A j : InPlace(r, j)' <=> InPlace(r, j)
      BY <1>3 DEF ChunksOf, InPlace
    <2> QED
      BY <1>0, <1>3, <1>7, <2>1, <2>2 DEF Ready, Promoting
  <1>10. /\ ack' \in BOOLEAN /\ received' \subseteq Seq(File) /\ staging' = staging
         /\ staging' \in [Dest -> [Path -> Held]]
    BY <1>3, RecvState
  <1> QED
    BY <1>2, <1>5, <1>6, <1>8, <1>9, <1>10, RecvStep

\* A staged file that is taken away, or left: the ones that follow have other names.
LEMMA UnstageKeeps ==
  ASSUME IInv, NEW r \in Receiver, Unstage(r)
  PROVE  IInv'
  <1> DEFINE d == DestOf[r]
             p == FileOf(r).path
  <1>0. /\ UNCHANGED <<store, sender, man, buf, old, dest, gc, published, received, gcdSend,
                       gcdJob, cause>>
        /\ Upset \/ UNCHANGED upsets
        /\ rpc[r] = "unstage" /\ Promoting(r)
        /\ staging' = [staging EXCEPT ![d][p] = Nothing] \/ staging' = staging
        /\ at' = [at EXCEPT ![r] = at[r] + 1] /\ Goto(r, "promote")
    BY DEF Unstage, Promoting
  <1>1. at[r] <= Len(man[r])
    BY <1>0, RecvState DEF RecvOK
  <1>2. /\ Active(r) /\ man[r] \in published /\ p \in Path /\ FileOf(r) = man[r][at[r]]
        /\ Len(man[r]) \in Nat /\ at[r] \in Nat /\ at[r] \in 1..Len(man[r])
    BY <1>0, <1>1, AtFile
  <1>3. /\ d \in Dest /\ staging \in [Dest -> [Path -> Held]] /\ Nothing \in Held
    BY RecvState DEF Held
  <1>4. UNCHANGED <<lease, manifest, notify, objects, poisoned, ack>>
    BY <1>0 DEF store
  <1> HIDE DEF d, p
  <1>5. Moves(r, "promote", man[r], at[r] + 1, buf[r], old[r])
    <2>1. "promote" \in Stages /\ rpc' = [rpc EXCEPT ![r] = "promote"] /\ UNCHANGED <<failed, cause>>
      BY <1>0 DEF Goto, Stages
    <2>2. /\ man' = [man EXCEPT ![r] = man[r]] /\ buf' = [buf EXCEPT ![r] = buf[r]]
          /\ old' = [old EXCEPT ![r] = old[r]] /\ at' = [at EXCEPT ![r] = at[r] + 1]
      BY <1>0, Same
    <2>3. at[r] + 1 \in Nat
      BY <1>2
    <2> QED
      BY <1>0, <1>4, <2>1, <2>2, <2>3, RecvState DEF Moves
  <1>6. rpc'[r] = "promote" /\ at'[r] = at[r] + 1
    BY <1>5, MovesTo
  <1>7. /\ staging' \in [Dest -> [Path -> Held]]
        /\ \A e \in Dest \ {d} : staging'[e] = staging[e]
        /\ \A q \in Path : q # p => staging'[d][q] = staging[d][q]
    <2>1. CASE staging' = staging
      BY <1>3, <2>1
    <2>2. CASE staging' = [staging EXCEPT ![d][p] = Nothing]
      BY <1>2, <1>3, <2>2
    <2> QED
      BY <1>0, <2>1, <2>2
  <1>8. RecvOK(r)'
    <2>1. at[r] + 1 \in 1..(Len(man[r]) + 1)
      BY <1>2
    <2> QED
      BY <1>0, <1>2, <1>6, <2>1 DEF RecvOK, Promoting
  <1>9. ~cause[r] => Ready(r)'
    <2> SUFFICES ASSUME ~cause[r] PROVE Ready(r)'
      OBVIOUS
    <2>1. /\ ChunksOf(man[r]) \subseteq objects \ poisoned
          /\ \A i \in at[r]..Len(man[r]) : InPlace(r, i)
      BY <1>0, <1>2, RecvState DEF CalmOK, Ready
    <2>2. ASSUME NEW i \in (at[r] + 1)..Len(man[r]) PROVE InPlace(r, i)'
      <3>1. i \in at[r]..Len(man[r]) /\ i \in 1..Len(man[r]) /\ i # at[r]
        BY <1>2
      <3>2. man[r][i].path \in Path /\ man[r][i].path # p
        BY <1>2, <3>1, PathsDiffer DEF p
      <3>3. staging'[d][man[r][i].path] = staging[d][man[r][i].path]
        BY <1>7, <3>2
      <3> QED
        BY <1>0, <2>1, <3>1, <3>3 DEF InPlace, d
    <2>3. (ChunksOf(man[r]) \subseteq objects \ poisoned)'
      BY <1>0, <1>4, <2>1 DEF ChunksOf
    <2>4. \A i \in at'[r]..Len(man'[r]) : InPlace(r, i)'
      BY <1>0, <1>6, <2>2
    <2> QED
      BY <1>6, <2>3, <2>4 DEF Ready, Promoting
  <1>10. /\ ack' \in BOOLEAN /\ received' \subseteq Seq(File)
         /\ dest' \in [Dest -> [Path -> Held]]
    BY <1>0, <1>4, RecvState
  <1> QED
    BY <1>2, <1>5, <1>7, <1>8, <1>9, <1>10, RecvStep DEF d

\* The ack is for a manifest that was published.
LEMMA AckKeeps ==
  ASSUME IInv, NEW r \in Receiver, PutAck(r)
  PROVE  IInv'
  <1>0. /\ UNCHANGED <<lease, manifest, notify, objects, poisoned, man, at, buf, old, staging,
                       dest, cause>> /\ RecvOnly
        /\ rpc[r] = "promote" /\ ack' = TRUE /\ received' = received \cup {man[r]}
        /\ Goto(r, "cleanup")
    BY DEF PutAck
  <1>1. Active(r) /\ man[r] \in published
    BY <1>0, RecvState DEF RecvOK, Active, Promoting
  <1>2. received' \subseteq Seq(File)
    BY <1>0, <1>1, RecvState DEF IInv, Types, PastTypes
  <1>3. Moves(r, "cleanup", man[r], at[r], buf[r], old[r])
    <2>1. "cleanup" \in Stages /\ rpc' = [rpc EXCEPT ![r] = "cleanup"] /\ UNCHANGED <<failed, cause>>
      BY <1>0 DEF Goto, Stages
    <2> QED
      BY <1>0, <2>1, RecvState, Same DEF Moves, RecvOnly
  <1>4. rpc'[r] = "cleanup"
    BY <1>3, MovesTo
  <1>5. RecvOK(r)' /\ Ready(r)'
    BY <1>4 DEF RecvOK, Ready, Promoting
  <1>6. /\ staging' \in [Dest -> [Path -> Held]] /\ dest' \in [Dest -> [Path -> Held]]
        /\ staging' = staging
    BY <1>0, RecvState
  <1> QED
    BY <1>0, <1>1, <1>2, <1>3, <1>5, <1>6, RecvStep

\* The end of a run of a receiver: clean or killed.
LEMMA EndKeeps ==
  ASSUME IInv, NEW r \in Receiver, CleanUp(r) \/ RecvCrash(r)
  PROVE  IInv'
  <1>0. /\ UNCHANGED <<lease, manifest, notify, objects, poisoned, ack, dest, received>>
        /\ UNCHANGED <<sender, gc, published, gcdSend, gcdJob>>
        /\ Upset \/ UNCHANGED upsets
        /\ RecvGone(r) /\ Active(r)
    BY DEF CleanUp, RecvCrash, store, RecvOnly, Active
  <1>1. /\ staging' \in [Dest -> [Path -> Held]]
        /\ \A e \in Dest \ {DestOf[r]} : staging'[e] = staging[e]
    <2>1. CASE RecvCrash(r)
      BY <2>1, RecvState DEF RecvCrash
    <2>2. CASE CleanUp(r)
      <3> DEFINE paths == IF man[r] = NoManifest THEN {} ELSE {man[r][i].path : i \in 1..Len(man[r])}
                 left == [p \in Path |-> IF p \in paths THEN Nothing ELSE staging[DestOf[r]][p]]
      <3>1. staging' = [staging EXCEPT ![DestOf[r]] = left]
        BY <2>2 DEF CleanUp
      <3>2. left \in [Path -> Held]
        BY RecvState DEF Held
      <3> HIDE DEF left
      <3> QED
        BY <3>1, <3>2, RecvState
    <2> QED
      BY <2>1, <2>2
  <1>2. /\ rpc' = [rpc EXCEPT ![r] = "idle"] /\ failed' = [failed EXCEPT ![r] = FALSE]
        /\ man' = [man EXCEPT ![r] = NoManifest] /\ at' = [at EXCEPT ![r] = 0]
        /\ buf' = [buf EXCEPT ![r] = <<>>] /\ old' = [old EXCEPT ![r] = Nothing]
        /\ cause' = [cause EXCEPT ![r] = FALSE]
    BY <1>0 DEF RecvGone
  <1>3. cause' \in [Receiver -> BOOLEAN] /\ \A q \in Receiver \ {r} : ~cause'[q] => ~cause[q]
    BY <1>2, RecvState
  <1>4. RecvTypes' /\ \A q \in Receiver \ {r} : Alone(r, q)
    <2>1. "idle" \in Stages /\ FALSE \in BOOLEAN /\ NoManifest \in Seq(File) \cup {NoManifest}
          /\ 0 \in Nat /\ <<>> \in Seq(Chunk) /\ Nothing \in Held
      BY NoFiles DEF Stages, Held
    <2>2. dest' \in [Dest -> [Path -> Held]]
      BY <1>0, RecvState
    <2> QED
      BY <1>1, <1>2, <1>3, <2>1, <2>2, RecvStepTypes
  <1>5. rpc'[r] = "idle" /\ failed'[r] = FALSE /\ buf'[r] = <<>>
    BY <1>2, RecvState DEF RecvTypes
  <1>6. RecvOK(r)' /\ CalmOK(r)'
    BY <1>5 DEF RecvOK, CalmOK, Active, Promoting
  <1>7. ack' \in BOOLEAN /\ received' \subseteq Seq(File) /\ upsets' \in 0..MaxUpsets
    BY <1>0, RecvState, UpsetCounts
  <1> QED
    BY <1>0, <1>1, <1>3, <1>4, <1>6, <1>7, RecvFrame
-----------------------------------------------------------------------------
(* The invariant is inductive. *)
LEMMA InitInv == Init => IInv
  <1> SUFFICES ASSUME Init PROVE IInv
    OBVIOUS
  <1>1. StoreTypes /\ GcTypes
    BY DEF Init, StoreTypes, GcTypes
  <1>2. SendTypes /\ PastTypes
    <2>1. 0 \in 0..MaxLen /\ 0 \in 0..MaxSends /\ 0 \in 0..MaxUpsets
      BY Facts
    <2>2. walked \in [Path -> 0..MaxLen]
      BY <2>1 DEF Init
    <2> QED
      BY <2>1, <2>2, NoFiles DEF Init, SendTypes, PastTypes
  <1>3. RecvTypes
    <2>1. /\ rpc \in [Receiver -> Stages] /\ failed \in [Receiver -> BOOLEAN]
          /\ cause \in [Receiver -> BOOLEAN] /\ at \in [Receiver -> Nat]
      BY DEF Init, Stages
    <2>2. /\ man \in [Receiver -> Seq(File) \cup {NoManifest}] /\ old \in [Receiver -> Held]
      BY DEF Init, Held
    <2>3. buf \in [Receiver -> Seq(Chunk)]
      BY NoFiles DEF Init
    <2>4. staging \in [Dest -> [Path -> Held]] /\ dest \in [Dest -> [Path -> Held]]
      BY DEF Init, Held
    <2> QED
      BY <2>1, <2>2, <2>3, <2>4 DEF RecvTypes
  <1>4. SendOK
    <2>1. 1..Len(<<>>) = {}
      BY NoFiles
    <2> QED
      BY <2>1, NoFiles DEF Init, SendOK
  <1>5. JobOK /\ ManifestIsBacked
    BY DEF Init, JobOK, ManifestIsBacked
  <1>6. ASSUME NEW r \in Receiver PROVE RecvOK(r) /\ CalmOK(r)
    BY DEF Init, RecvOK, CalmOK, Active, Promoting
  <1> QED
    BY <1>1, <1>2, <1>3, <1>4, <1>5, <1>6 DEF IInv, Types

LEMMA StepInv == IInv /\ [Next]_vars => IInv'
  <1> SUFFICES ASSUME IInv, [Next]_vars PROVE IInv'
    OBVIOUS
  <1>1. CASE Send
    BY <1>1, StartKeeps, LeaseKeeps, UploadKeeps, FinishKeeps, StopKeeps, PublishKeeps, NotifyKeeps
       DEF Send
  <1>2. ASSUME NEW r \in Receiver, Recv(r) PROVE IInv'
    BY <1>2, StartRecvKeeps, PollKeeps, ReadKeeps, ChunkKeeps, CommitKeeps, ReadBackKeeps,
       PutKeeps, UnstageKeeps, AckKeeps, EndKeeps DEF Recv
  <1>3. CASE GC
    BY <1>3, GcReads, GcRemoves DEF GC
  <1>4. CASE Environment
    <2>1. ASSUME NEW r \in Receiver, RecvError(r) PROVE IInv'
      <3>1. /\ Active(r) /\ Upset /\ Fail(r) /\ Disturb({r})
            /\ UNCHANGED <<store, sender, gc, published, received, gcdSend, gcdJob>>
            /\ UNCHANGED <<man, at, buf, old, staging, dest>>
        BY <2>1 DEF RecvError
      <3> QED
        BY <3>1, FailKeeps
    <2> QED
      BY <1>4, <2>1, StopKeeps, GcReads, WearKeeps, LeaseKeeps, EndKeeps DEF Environment
  <1>5. CASE UNCHANGED vars
    <2>1. /\ UNCHANGED <<sender, receiver, published, received>>
          /\ UNCHANGED <<lease, manifest, notify, ack, objects, poisoned, upsets, cause>>
          /\ UNCHANGED <<gcdSend, gcdJob, gc>>
      BY <1>5 DEF vars, store
    <2>2. StoreTypes' /\ GcTypes' /\ upsets' \in 0..MaxUpsets
      BY <2>1 DEF IInv, Types, StoreTypes, GcTypes, PastTypes, gc
    <2>3. ManifestIsBacked' /\ (Sound => Sound')
      BY <2>1 DEF IInv, ManifestIsBacked, Sound
    <2> QED
      BY <2>1, <2>2, <2>3, OutsideFrame
  <1> QED
    BY <1>1, <1>2, <1>3, <1>4, <1>5 DEF Next

THEOREM Inductive == Spec => []IInv
  BY InitInv, StepInv, PTL DEF Spec

LEMMA Implied == IInv => TypeOK /\ ManifestIsBacked /\ RecvFailureHasCause
  <1> SUFFICES ASSUME IInv PROVE TypeOK /\ ManifestIsBacked /\ RecvFailureHasCause
    OBVIOUS
  <1>1. TypeOK
    BY DEF IInv, Types, StoreTypes, SendTypes, RecvTypes, GcTypes, PastTypes, Stages, Held, TypeOK
  <1>2. RecvFailureHasCause
    BY RecvState DEF RecvFailureHasCause, CalmOK, Active
  <1> QED
    BY <1>1, <1>2 DEF IInv

\* The type invariant of the relay.
THEOREM TypeCorrect == Spec => []TypeOK
  BY Inductive, Implied, PTL

(* The store holds every object that its manifest names, whatever was sent before,
   unless gc took objects while that job was sent or after. *)
THEOREM ManifestsAreBacked == Spec => []ManifestIsBacked
  BY Inductive, Implied, PTL

\* A receiver fails only for something that happened to it.
THEOREM FailuresHaveCauses == Spec => []RecvFailureHasCause
  BY Inductive, Implied, PTL
-----------------------------------------------------------------------------
(* The promise of Delivery.  What a receiver works on, and how far it is, in
   Delivery's terms. *)
Chosen == [r \in Receiver |-> IF Promoting(r) THEN man[r] ELSE NoManifest]
Done   == [r \in Receiver |-> Promoted(r)]

\* A receiver that promotes a file is at a file of a published manifest.
LEMMA PromoteState ==
  ASSUME IInv, NEW r \in Receiver
  PROVE  /\ Chosen[r] = IF Promoting(r) THEN man[r] ELSE NoManifest
         /\ Done[r] = Promoted(r) /\ (~Promoting(r) => Done[r] = 0)
         /\ rpc[r] \in {"promote", "put"} => Done[r] = at[r] - 1
         /\ rpc[r] = "unstage" => Done[r] = at[r]
         /\ Promoting(r) => /\ man[r] \in published /\ Len(man[r]) \in Nat
                            /\ man[r] # NoManifest /\ at[r] \in Nat
                            /\ at[r] \in 1..(Len(man[r]) + 1)
  <1>1. Promoting(r) => man[r] \in published /\ at[r] \in 1..(Len(man[r]) + 1)
    BY RecvState DEF RecvOK
  <1>2. man[r] \in published => man[r] \in Seq(File)
    BY DEF IInv, Types, PastTypes
  <1>3. man[r] \in Seq(File) => Len(man[r]) \in Nat /\ man[r] # NoManifest
    BY Facts, LenProperties
  <1>4. Chosen[r] = IF Promoting(r) THEN man[r] ELSE NoManifest
    BY DEF Chosen
  <1>5. /\ Done[r] = Promoted(r) /\ (~Promoting(r) => Done[r] = 0)
        /\ rpc[r] \in {"promote", "put"} => Done[r] = at[r] - 1
        /\ rpc[r] = "unstage" => Done[r] = at[r]
    BY DEF Done, Promoted, Promoting
  <1> QED
    BY <1>1, <1>2, <1>3, <1>4, <1>5, RecvState

\* A step of receiver r is one for it alone in Delivery's terms.
Own(r) == /\ Chosen' = [Chosen EXCEPT ![r] = IF Promoting(r)' THEN man'[r] ELSE NoManifest]
          /\ Done' = [Done EXCEPT ![r] = Promoted(r)']

LEMMA OwnStep ==
  ASSUME IInv, NEW r \in Receiver, Recv(r) \/ RecvError(r) \/ RecvCrash(r)
  PROVE  Own(r)
  <1>0. /\ rpc \in [Receiver -> Stages] /\ at \in [Receiver -> Nat]
        /\ man \in [Receiver -> Seq(File) \cup {NoManifest}]
    BY RecvState DEF RecvTypes
  <1>1. \E l : rpc' = [rpc EXCEPT ![r] = l]
    BY DEF Recv, StartRecv, Poll, ReadLease, ReadManifest, StageChunk, CommitStaged, ReadStaged,
           CommitFile, Unstage, PutAck, CleanUp, RecvError, RecvCrash, Goto, Fail, Stage, RecvGone
  <1>2. man' = man \/ \E m : man' = [man EXCEPT ![r] = m]
    BY DEF Recv, StartRecv, Poll, ReadLease, ReadManifest, StageChunk, CommitStaged, ReadStaged,
           CommitFile, Unstage, PutAck, CleanUp, RecvError, RecvCrash, RecvGone
  <1>3. at' = at \/ \E i : at' = [at EXCEPT ![r] = i]
    BY DEF Recv, StartRecv, Poll, ReadLease, ReadManifest, StageChunk, CommitStaged, ReadStaged,
           CommitFile, Unstage, PutAck, CleanUp, RecvError, RecvCrash, Stage, RecvGone
  <1>4. \A q \in Receiver : q # r => rpc'[q] = rpc[q] /\ man'[q] = man[q] /\ at'[q] = at[q]
    BY <1>0, <1>1, <1>2, <1>3
  <1>5. \A q \in Receiver : q # r => Promoted(q)' = Promoted(q) /\ Promoting(q)' = Promoting(q)
    BY <1>4 DEF Promoted, Promoting
  <1>6. Done' = [Done EXCEPT ![r] = Promoted(r)']
    BY <1>5 DEF Done
  <1>7. Chosen' = [Chosen EXCEPT ![r] = IF Promoting(r)' THEN man'[r] ELSE NoManifest]
    BY <1>4, <1>5 DEF Chosen
  <1> QED
    BY <1>6, <1>7 DEF Own

(* Delivery's actions, in terms of Chosen and Done. *)
LEMMA Abstractly ==
  ASSUME NEW r \in Receiver
  PROVE  /\ /\ published' = published /\ dest' = dest /\ received' = received
            /\ Chosen' = [Chosen EXCEPT ![r] = NoManifest] /\ Done' = [Done EXCEPT ![r] = 0]
            => Promise!Next
         /\ /\ published' = published /\ dest' = dest /\ received' = received
            /\ Chosen[r] = NoManifest /\ Done' = Done
            /\ \E m \in published : Chosen' = [Chosen EXCEPT ![r] = m]
            => Promise!Next
         /\ /\ published' = published /\ received' = received
            /\ Chosen[r] # NoManifest /\ Done[r] < Len(Chosen[r])
            /\ dest' = [dest EXCEPT ![DestOf[r]][Chosen[r][Done[r] + 1].path] =
                           Chosen[r][Done[r] + 1].chunks]
            /\ Chosen' = Chosen /\ Done' = [Done EXCEPT ![r] = Done[r] + 1]
            => Promise!Next
         /\ /\ published' = published /\ dest' = dest
            /\ Chosen[r] # NoManifest /\ Done[r] = Len(Chosen[r])
            /\ received' = received \cup {Chosen[r]}
            /\ Chosen' = [Chosen EXCEPT ![r] = NoManifest] /\ Done' = [Done EXCEPT ![r] = 0]
            => Promise!Next
  <1>1. ASSUME published' = published /\ dest' = dest /\ received' = received,
               Chosen' = [Chosen EXCEPT ![r] = NoManifest] /\ Done' = [Done EXCEPT ![r] = 0]
        PROVE  Promise!Next
    <2>1. Promise!GiveUp(r)
      BY <1>1 DEF Promise!GiveUp, Promise!Release, Chosen, Done
    <2> QED
      BY <2>1 DEF Promise!Next
  <1>2. ASSUME published' = published /\ dest' = dest /\ received' = received,
               Chosen[r] = NoManifest /\ Done' = Done,
               NEW m \in published, Chosen' = [Chosen EXCEPT ![r] = m]
        PROVE  Promise!Next
    <2>1. Promise!Choose(r)
      BY <1>2 DEF Promise!Choose, Chosen, Done
    <2> QED
      BY <2>1 DEF Promise!Next
  <1>3. ASSUME published' = published /\ received' = received,
               Chosen[r] # NoManifest /\ Done[r] < Len(Chosen[r]),
               dest' = [dest EXCEPT ![DestOf[r]][Chosen[r][Done[r] + 1].path] =
                           Chosen[r][Done[r] + 1].chunks],
               Chosen' = Chosen /\ Done' = [Done EXCEPT ![r] = Done[r] + 1]
        PROVE  Promise!Next
    <2>1. Promise!Put(r)
      BY <1>3 DEF Promise!Put, Chosen, Done
    <2> QED
      BY <2>1 DEF Promise!Next
  <1>4. ASSUME published' = published /\ dest' = dest,
               Chosen[r] # NoManifest /\ Done[r] = Len(Chosen[r]),
               received' = received \cup {Chosen[r]},
               Chosen' = [Chosen EXCEPT ![r] = NoManifest] /\ Done' = [Done EXCEPT ![r] = 0]
        PROVE  Promise!Next
    <2>1. Promise!Confirm(r)
      BY <1>4 DEF Promise!Confirm, Promise!Release, Chosen, Done
    <2> QED
      BY <2>1 DEF Promise!Next
  <1> QED
    BY <1>1, <1>2, <1>3, <1>4

(* Each step of a receiver takes one step of Delivery's, or none: a run that does
   not promote has chosen nothing. *)
LEMMA ReceiverMaps ==
  ASSUME IInv, NEW r \in Receiver, Recv(r) \/ RecvError(r) \/ RecvCrash(r)
  PROVE  Promise!Next \/ UNCHANGED Promise!vars
  <1>0. /\ Own(r) /\ published' = published
        /\ rpc \in [Receiver -> Stages] /\ at \in [Receiver -> Nat]
        /\ man \in [Receiver -> Seq(File) \cup {NoManifest}]
    <2>1. published' = published
      BY DEF Recv, StartRecv, Poll, ReadLease, ReadManifest, StageChunk, CommitStaged, ReadStaged,
             CommitFile, Unstage, PutAck, CleanUp, RecvError, RecvCrash, RecvOnly
    <2> QED
      BY <2>1, OwnStep, RecvState DEF RecvTypes
  <1>1. ASSUME ~Promoting(r)', dest' = dest, received' = received PROVE Promise!Next
    <2>1. Promoted(r)' = 0
      BY <1>1 DEF Promoted, Promoting
    <2> QED
      BY <1>0, <1>1, <2>1, Abstractly DEF Own
  <1>2. CASE StartRecv(r) \/ Poll(r) \/ ReadLease(r) \/ StageChunk(r) \/ CleanUp(r)
             \/ RecvError(r) \/ RecvCrash(r)
    <2>1. dest' = dest /\ received' = received
      BY <1>2 DEF StartRecv, Poll, ReadLease, StageChunk, CleanUp, RecvError, RecvCrash
    <2>2. \E l \in Stages \ {"promote", "put", "unstage"} : rpc' = [rpc EXCEPT ![r] = l]
      BY <1>2 DEF StartRecv, Poll, ReadLease, StageChunk, CleanUp, RecvError, RecvCrash, Goto, Fail,
                  RecvGone, Stages
    <2>3. ~Promoting(r)'
      BY <1>0, <2>2 DEF Promoting
    <2> QED
      BY <1>1, <2>1, <2>3
  <1>3. ASSUME NEW m \in published, NEW i, Stage(r, m, i), man' = [man EXCEPT ![r] = m],
               dest' = dest, received' = received, ~Promoting(r)
        PROVE  Promise!Next
    <2>1. CASE i <= Len(m)
      <3>1. ~Promoting(r)'
        BY <1>0, <1>3, <2>1 DEF Stage, Goto, Promoting
      <3> QED
        BY <1>1, <1>3, <3>1
    <2>2. CASE ~(i <= Len(m))
      <3>1. rpc'[r] = "promote" /\ at'[r] = 1 /\ man'[r] = m
        BY <1>0, <1>3, <2>2 DEF Stage, Goto
      <3>2. Promoting(r)' /\ Promoted(r)' = 0
        BY <3>1 DEF Promoting, Promoted
      <3>3. Chosen' = [Chosen EXCEPT ![r] = m] /\ Done' = [Done EXCEPT ![r] = 0]
        BY <1>0, <3>1, <3>2 DEF Own
      <3>4. Chosen[r] = NoManifest /\ Done[r] = 0
        BY <1>3, PromoteState
      <3>5. Done' = Done
        BY <3>3, <3>4 DEF Done
      <3> QED
        BY <1>0, <1>3, <3>3, <3>4, <3>5, Abstractly
    <2> QED
      BY <2>1, <2>2
  <1>4. CASE ReadManifest(r)
    <2>1. dest' = dest /\ received' = received /\ ~Promoting(r)
      BY <1>4 DEF ReadManifest, Promoting
    <2>2. CASE manifest # NoManifest /\ Valid(manifest)
      <3>1. manifest \in published
        BY <2>2 DEF IInv, JobOK
      <3>2. man' = [man EXCEPT ![r] = manifest] /\ Stage(r, manifest, 1)
        BY <1>4, <2>2 DEF ReadManifest
      <3> QED
        BY <1>3, <2>1, <3>1, <3>2
    <2>3. CASE ~(manifest # NoManifest /\ Valid(manifest))
      <3>1. ~Promoting(r)'
        BY <1>0, <1>4, <2>3 DEF ReadManifest, Fail, Promoting
      <3> QED
        BY <1>1, <2>1, <3>1
    <2> QED
      BY <2>2, <2>3
  <1>5. CASE CommitStaged(r)
    <2>1. /\ dest' = dest /\ received' = received /\ rpc[r] = "stage" /\ man' = man
          /\ Stage(r, man[r], at[r] + 1)
      BY <1>5 DEF CommitStaged
    <2>2. man[r] \in published /\ man' = [man EXCEPT ![r] = man[r]] /\ ~Promoting(r)
      BY <2>1, RecvState, Same DEF RecvOK, Promoting
    <2> QED
      BY <1>3, <2>1, <2>2
  <1>6. ASSUME Promoting(r), Promoting(r)', man' = man, Promoted(r)' = Promoted(r),
               dest' = dest, received' = received
        PROVE  UNCHANGED Promise!vars
    <2>1. Chosen' = [Chosen EXCEPT ![r] = Chosen[r]] /\ Done' = [Done EXCEPT ![r] = Done[r]]
      BY <1>0, <1>6, PromoteState DEF Own
    <2>2. Chosen' = Chosen /\ Done' = Done
      BY <2>1 DEF Chosen, Done
    <2> QED
      BY <1>0, <1>6, <2>2 DEF Promise!vars, Chosen, Done
  <1>7. CASE ReadStaged(r)
    <2>1. /\ received' = received /\ dest' = dest /\ man' = man /\ at' = at
          /\ rpc[r] = "promote" /\ (Goto(r, "put") \/ Fail(r))
      BY <1>7 DEF ReadStaged
    <2>2. CASE Goto(r, "put")
      <3>1. rpc'[r] = "put"
        BY <1>0, <2>2 DEF Goto
      <3>2. Promoting(r) /\ Promoting(r)' /\ Promoted(r)' = Promoted(r)
        BY <2>1, <3>1 DEF Promoting, Promoted
      <3> QED
        BY <1>6, <2>1, <3>2
    <2>3. CASE Fail(r)
      <3>1. ~Promoting(r)'
        BY <1>0, <2>3 DEF Fail, Promoting
      <3> QED
        BY <1>1, <2>1, <3>1
    <2> QED
      BY <2>1, <2>2, <2>3
  <1>8. CASE CommitFile(r)
    <2>1. /\ received' = received /\ man' = man /\ at' = at /\ rpc[r] = "put" /\ Promoting(r)
          /\ dest' = [dest EXCEPT ![DestOf[r]][FileOf(r).path] = buf[r]] /\ Goto(r, "unstage")
      BY <1>8 DEF CommitFile, Promoting
    <2>2. /\ Chosen[r] = man[r] /\ Done[r] = at[r] - 1 /\ man[r] # NoManifest
          /\ Len(man[r]) \in Nat /\ at[r] \in Nat
      BY <2>1, PromoteState
    <2>3. at[r] <= Len(man[r]) /\ buf[r] = FileOf(r).chunks
      BY <2>1, RecvState DEF RecvOK
    <2>4. rpc'[r] = "unstage"
      BY <1>0, <2>1 DEF Goto
    <2>5. Promoting(r)' /\ Promoted(r)' = at[r] /\ man'[r] = man[r]
      BY <2>1, <2>4 DEF Promoting, Promoted
    <2>6. Done[r] + 1 = at[r] /\ Done[r] < Len(Chosen[r])
      BY <2>2, <2>3
    <2>7. Done' = [Done EXCEPT ![r] = Done[r] + 1]
      BY <1>0, <2>5, <2>6 DEF Own
    <2>8. Chosen' = [Chosen EXCEPT ![r] = Chosen[r]]
      BY <1>0, <2>2, <2>5 DEF Own
    <2>9. Chosen' = Chosen
      BY <2>8 DEF Chosen
    <2>10. dest' = [dest EXCEPT ![DestOf[r]][Chosen[r][Done[r] + 1].path] =
                        Chosen[r][Done[r] + 1].chunks]
      BY <2>1, <2>2, <2>3, <2>6 DEF FileOf
    <2> QED
      BY <1>0, <2>1, <2>2, <2>6, <2>7, <2>9, <2>10, Abstractly
  <1>9. CASE Unstage(r)
    <2>1. /\ received' = received /\ dest' = dest /\ man' = man /\ at' = [at EXCEPT ![r] = @ + 1]
          /\ rpc[r] = "unstage" /\ Goto(r, "promote")
      BY <1>9 DEF Unstage
    <2>2. rpc'[r] = "promote" /\ at'[r] = at[r] + 1 /\ at[r] \in Nat
      BY <1>0, <2>1 DEF Goto
    <2>3. Promoting(r) /\ Promoting(r)' /\ Promoted(r) = at[r] /\ Promoted(r)' = at'[r] - 1
      BY <2>1, <2>2 DEF Promoting, Promoted
    <2>4. Promoted(r)' = Promoted(r)
      BY <2>2, <2>3
    <2> QED
      BY <1>6, <2>1, <2>3, <2>4
  <1>10. CASE PutAck(r)
    <2>1. /\ rpc[r] = "promote" /\ at[r] > Len(man[r]) /\ received' = received \cup {man[r]}
          /\ Goto(r, "cleanup") /\ dest' = dest /\ Promoting(r)
      BY <1>10 DEF PutAck, Promoting
    <2>2. Chosen[r] = man[r] /\ Done[r] = at[r] - 1 /\ man[r] # NoManifest /\ Len(man[r]) \in Nat
          /\ at[r] \in 1..(Len(man[r]) + 1)
      BY <2>1, PromoteState
    <2>3. Done[r] = Len(Chosen[r])
      BY <2>1, <2>2
    <2>4. rpc'[r] = "cleanup"
      BY <1>0, <2>1 DEF Goto
    <2>5. ~Promoting(r)' /\ Promoted(r)' = 0
      BY <2>4 DEF Promoting, Promoted
    <2>6. Chosen' = [Chosen EXCEPT ![r] = NoManifest] /\ Done' = [Done EXCEPT ![r] = 0]
      BY <1>0, <2>5 DEF Own
    <2> QED
      BY <1>0, <2>1, <2>2, <2>3, <2>6, Abstractly
  <1> QED
    BY <1>2, <1>4, <1>5, <1>7, <1>8, <1>9, <1>10 DEF Recv

\* The others never touch what a receiver works on; a manifest is published once.
LEMMA OthersMap ==
  ASSUME IInv, Send \/ GC \/ SendStops \/ GcStops \/ Expire \/ Poison \/ EditSource
               \/ UNCHANGED vars
  PROVE  Promise!Next \/ UNCHANGED Promise!vars
  <1>1. UNCHANGED <<rpc, man, at, dest, received>>
    BY DEF Send, StartSend, WriteLease, Walk, UploadChunk, FinishFile, SendFails, PutManifest,
           PutNotify, GC, StartGC, CheckLease, ReadDoomed, RemoveObject, RemoveMeta, GcOnly, SendStops, GcStops,
           Expire, Poison, EditSource, vars, receiver
  <1>2. published' = published \/ published' = published \cup {files}
    BY DEF Send, StartSend, WriteLease, Walk, UploadChunk, FinishFile, SendFails, PutManifest,
           PutNotify, GC, StartGC, CheckLease, ReadDoomed, RemoveObject, RemoveMeta, GcOnly, SendStops, GcStops,
           Expire, Poison, EditSource, vars
  <1>3. Chosen' = Chosen /\ Done' = Done
    BY <1>1 DEF Chosen, Done, Promoted, Promoting
  <1>4. CASE published' = published
    BY <1>1, <1>3, <1>4 DEF Promise!vars, Chosen, Done
  <1>5. CASE published' = published \cup {files}
    <2>1. Promise!Publish
      BY <1>1, <1>3, <1>5 DEF Promise!Publish, Chosen, Done
    <2> QED
      BY <2>1 DEF Promise!Next
  <1> QED
    BY <1>2, <1>4, <1>5

LEMMA StepMaps == IInv /\ [Next]_vars => [Promise!Next]_(Promise!vars)
  BY ReceiverMaps, OthersMap DEF Next, Environment

\* An initial state is one of Delivery's.
LEMMA InitMaps == Init => Promise!Init
  BY DEF Init, Promise!Init, Promoted, Promoting

(* Recv keeps the relay's promise: what it puts in place, file by file, is one
   published manifest, and it acks only when all of it is in place. *)
THEOREM Refinement == Spec => ImplementsDelivery
  BY InitMaps, StepMaps, Inductive, PTL DEF Spec, ImplementsDelivery, Promise!Spec
=============================================================================
