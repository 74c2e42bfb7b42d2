-------------------------- MODULE LocalWrite_proofs --------------------------
(***************************************************************************)
(* Proofs about LocalWrite, for any writers, contents and versions.        *)
(***************************************************************************)
EXTENDS LocalWrite, SequenceTheorems, WellFoundedInduction, TLAPS

(* A version is a content: whatever a writer wants can be in a file. *)
LEMMA VersionIsData == Version \subseteq Data
  BY VersionAssumption DEF Data

(* A fresh staging file, all blank, is a content. *)
LEMMA BlankIsData == \A n \in Nat : [i \in 1..n |-> Blank] \in Data
  BY DEF Data

(* Writing a block into a staging file leaves a content. *)
LEMMA PutIsData ==
  ASSUME NEW d \in Data, NEW i \in Nat, NEW b \in Block \cup {Blank}
  PROVE  [d EXCEPT ![i] = b] \in Data
  <1>1. CASE i \in 1..Len(d)
    BY <1>1, ExceptSeq DEF Data
  <1>2. CASE i \notin 1..Len(d)
    <2>1. d = [j \in 1..Len(d) |-> d[j]]
      BY DEF Data
    <2>2. [d EXCEPT ![i] = b] = d
      BY <1>2, <2>1
    <2> QED
      BY <2>2
  <1> QED
    BY <1>1, <1>2

(* So does writing one at, or past, the end of a file. *)
LEMMA WriteAtIsData ==
  ASSUME NEW d \in Data, NEW i \in Nat \ {0}, NEW b \in Block \cup {Blank}
  PROVE  WriteAt(d, i, b) \in Data
  BY DEF Data, WriteAt

(* An element of a content is a block or a blank. *)
LEMMA BlockOfData ==
  ASSUME NEW d \in Data, NEW i \in 1..Len(d)
  PROVE  d[i] \in Block \cup {Blank}
  BY DEF Data
-----------------------------------------------------------------------------
(* The inductive invariant.  Of a session: it is after a version; what it has
   verified is that version, and synced, until it is installed; a file it still
   copies into exists; and it copies only once a copy was begun. *)
SessionOK(s) ==
    /\ sess[s].st \notin {"idle", "failed"} => sess[s].want \in Version
    /\ sess[s].st \in {"verified", "copying"} => /\ temp[s].data = sess[s].want
                                                 /\ temp[s].synced
    /\ sess[s].out => dst # NoFile
    /\ sess[s].st = "copying" => crossed

(* Of the disk: the dest, and what it may be after a power failure, is a whole
   version, synced, with its mtime or that of the file the writers found. *)
Good == {f \in File : /\ f.data \in Version /\ f.synced
                      /\ f.mtime \in {Now, f.data}}
DiskOK == ~crossed => {dst} \cup durable \subseteq Good \cup {NoFile}

\* Only where the root may be on another file system is a file staged there.
FarOK == \A s \in Session : sess[s].far => CrossDevice

IInv == TypeOK /\ (\A s \in Session : SessionOK(s)) /\ DiskOK /\ FarOK
-----------------------------------------------------------------------------
(* The initial state has the types of TypeOK. *)
LEMMA InitType == Init => TypeOK
  <1> SUFFICES ASSUME Init PROVE TypeOK
    OBVIOUS
  <1>1. <<>> \in Data
    BY DEF Data
  <1>2. Idle \in SessionState
    BY <1>1 DEF Idle, SessionState, States
  <1>3. NoTemp \in TempFile
    BY <1>1 DEF NoTemp, TempFile
  <1>4. dst \in File \cup {NoFile}
    BY VersionIsData DEF Init, File
  <1>5. troubles \in 0..MaxTroubles
    BY VersionAssumption DEF Init
  <1> QED
    BY <1>2, <1>3, <1>4, <1>5 DEF Init, TypeOK

(* What others do to the dest leaves a session one. *)
LEMMA DisturbedType ==
  ASSUME NEW r \in SessionState
  PROVE  /\ Disturbed(r) \in SessionState
         /\ Replaced(r) \in SessionState
         /\ \A d \in Data : Overwritten(r, d) \in SessionState
  <1>1. \A q \in SessionState : Disturbed(q) \in SessionState
    <2>1. ASSUME NEW q \in SessionState PROVE [q EXCEPT !.upset = TRUE] \in SessionState
      BY DEF SessionState
    <2> QED
      BY <2>1 DEF Disturbed
  <1>2. [r EXCEPT !.oldLive = FALSE, !.out = FALSE] \in SessionState
    BY DEF SessionState
  <1>3. Replaced(r) \in SessionState
    BY <1>1, <1>2 DEF Replaced
  <1>4. ASSUME NEW d \in Data
        PROVE  Overwritten(r, d) \in SessionState
    <2>1. [r EXCEPT !.old = d] \in SessionState
      BY DEF SessionState
    <2>2. (IF r.oldLive THEN [r EXCEPT !.old = d] ELSE r) \in SessionState
      BY <2>1
    <2> QED
      BY <1>1, <2>2 DEF Overwritten
  <1> QED
    BY <1>1, <1>3, <1>4

(* What StatOld and CopyOpen make of a session is one. *)
LEMMA UpdatedType ==
  ASSUME NEW r \in SessionState
  PROVE  /\ [r EXCEPT !.st = "copying", !.out = TRUE] \in SessionState
         /\ \A q \in FileStat \cup {NoFile} :
                [r EXCEPT !.st = "open", !.oldStat = q] \in SessionState
  BY DEF SessionState, States

(* A failed or given up session is a session. *)
LEMMA FailType ==
  ASSUME TypeOK, NEW s \in Session, Fail(s)
  PROVE  sess' \in [Session -> SessionState] /\ temp' = temp
  <1>1. <<>> \in Data
    BY DEF Data
  <1>2. [Idle EXCEPT !.st = "failed", !.upset = sess[s].upset] \in SessionState
    BY <1>1 DEF TypeOK, Idle, SessionState, States
  <1> QED
    BY <1>2 DEF Fail, Become, TypeOK

(* A power failure leaves a file or none. *)
LEMMA SurvivorType ==
  ASSUME NEW f \in File \cup {NoFile}
  PROVE  Survivor(f) \in File \cup {NoFile}
  <1>1. CASE f = NoFile
    BY <1>1 DEF Survivor
  <1>2. CASE f # NoFile
    <2>1. Len(f.data) \in Nat
      BY <1>2 DEF File, Data
    <2>2. [i \in 1..Len(f.data) |-> Blank] \in Data
      BY <2>1, BlankIsData
    <2>3. [f EXCEPT !.data = [i \in 1..Len(f.data) |-> Blank], !.synced = TRUE] \in File
      BY <1>2, <2>2 DEF File
    <2> QED
      BY <1>2, <2>3 DEF Survivor
  <1> QED
    BY <1>1, <1>2

(* A file is not the lack of one. *)
LEMMA FileIsThere == NoFile \notin File
  BY NullAssumption

(* Commit puts a good file in place by its rename. *)
LEMMA InstallWrites ==
  ASSUME IInv, NEW s \in Session, Install(s), temp[s].linked
  PROVE  dst' \in Good
  <1>1. dst' = [data |-> temp[s].data, mtime |-> sess[s].want, synced |-> temp[s].synced]
    BY DEF Install
  <1>2. temp[s].data = sess[s].want /\ temp[s].synced /\ sess[s].want \in Version
    BY DEF Install, IInv, SessionOK
  <1> QED
    BY <1>1, <1>2 DEF Good, File, IInv, TypeOK, TempFile

(* copyAcrossDevices leaves a file, of some content, after every block. *)
LEMMA CopyBlockWrites ==
  ASSUME IInv, NEW s \in Session, CopyBlock(s), sess[s].out
  PROVE  LET d == WriteAt(dst.data, Next1(s), temp[s].data[Next1(s)])
         IN d \in Data /\ dst' = [data |-> d, mtime |-> Now, synced |-> FALSE] /\ dst' \in File
  <1> DEFINE d == WriteAt(dst.data, Next1(s), temp[s].data[Next1(s)])
  <1>1. dst \in File
    BY DEF IInv, SessionOK, TypeOK
  <1>2. Next1(s) \in 1..Len(temp[s].data)
    BY DEF CopyBlock, IInv, SessionOK, TypeOK, SessionState, Data, Next1
  <1>3. temp[s].data[Next1(s)] \in Block \cup {Blank}
    BY <1>2, BlockOfData DEF IInv, TypeOK, TempFile
  <1>4. d \in Data
    BY <1>1, <1>2, <1>3, WriteAtIsData DEF File
  <1>5. dst' = [data |-> d, mtime |-> Now, synced |-> FALSE]
    BY DEF CopyBlock
  <1>6. dst' \in File
    BY <1>4, <1>5 DEF File
  <1> QED
    BY <1>4, <1>5, <1>6

(* ... and when it ends. *)
LEMMA CopyEndWrites ==
  ASSUME IInv, NEW s \in Session, CopyEnd(s), dst # NoFile
  PROVE  dst' \in File
  <1>1. sess[s].want \in Version
    BY DEF CopyEnd, IInv, SessionOK
  <1>2. (dst.synced \/ sess[s].out) \in BOOLEAN
    OBVIOUS
  <1> QED
    BY <1>1, <1>2 DEF CopyEnd, IInv, TypeOK, File

(* Every step keeps the types. *)
LEMMA TypeStep == IInv /\ [Next]_vars => TypeOK'
  <1> SUFFICES ASSUME IInv, [Next]_vars
               PROVE  TypeOK'
    OBVIOUS
  <1> USE DEF IInv
  <1>0. TypeOK
    BY DEF IInv
  <1> USE <1>0
  <1>1. <<>> \in Data
    BY DEF Data
  <1>2. Idle \in SessionState /\ NoTemp \in TempFile
    BY <1>1 DEF Idle, SessionState, States, NoTemp, TempFile
  <1>3. ASSUME NEW s \in Session, NEW v \in Version, Plan(s, v)
        PROVE  TypeOK'
    <2>1. [Idle EXCEPT !.st = "planned", !.want = v,
                       !.seen = IF dst = NoFile THEN NoFile ELSE dst.data] \in SessionState
      BY <1>1, VersionIsData DEF TypeOK, Idle, SessionState, States, File
    <2> QED
      BY <1>2, <1>3, <2>1 DEF Plan, Become, TypeOK
  <1>4. ASSUME NEW s \in Session, NEW far \in {FALSE, CrossDevice}, BeginWrite(s, far)
        PROVE  TypeOK'
    <2>1. [NoTemp EXCEPT !.data = [i \in 1..Len(sess[s].want) |-> Blank],
                         !.linked = TRUE] \in TempFile
      <3>1. Len(sess[s].want) \in Nat
        BY DEF TypeOK, SessionState, Data
      <3> QED
        BY <3>1, BlankIsData DEF NoTemp, TempFile
    <2>2. \A t \in Session : Collected(temp[t]) \in TempFile
      BY DEF TypeOK, Collected, TempFile
    <2>3. temp' \in [Session -> TempFile]
      BY <1>4, <2>1, <2>2 DEF BeginWrite
    <2>4. far \in BOOLEAN
      BY VersionAssumption
    <2>5. ASSUME NEW r \in SessionState, NEW st \in States,
                 NEW old \in Data \cup {NoFile}, NEW live \in BOOLEAN, NEW f \in BOOLEAN
          PROVE  [r EXCEPT !.st = st, !.old = old, !.oldLive = live, !.far = f]
                    \in SessionState
      BY DEF SessionState
    <2>6. sess' \in [Session -> SessionState]
      <3>0. {"open", "opening"} \subseteq States
        BY DEF States
      <3>1. CASE dst = NoFile
        <4>1. sess' = [sess EXCEPT ![s].st = "open", ![s].old = NoFile,
                                   ![s].oldLive = FALSE, ![s].far = far]
          BY <1>4, <3>1 DEF BeginWrite
        <4> QED
          BY <2>4, <2>5, <3>0, <4>1 DEF TypeOK
      <3>2. CASE dst # NoFile
        <4>1. dst.data \in Data
          BY <3>2 DEF TypeOK, File
        <4>2. sess' = [sess EXCEPT ![s].st = "opening", ![s].old = dst.data,
                                   ![s].oldLive = TRUE, ![s].far = far]
          BY <1>4, <3>2 DEF BeginWrite
        <4> QED
          BY <2>4, <2>5, <3>0, <4>1, <4>2 DEF TypeOK
      <3> QED
        BY <3>1, <3>2
    <2> QED
      BY <1>4, <2>3, <2>6 DEF BeginWrite, TypeOK
  <1>5. ASSUME NEW s \in Session, StatOld(s)
        PROVE  TypeOK'
    <2>1. dst # NoFile => StatOf(dst) \in FileStat
      BY DEF TypeOK, StatOf, FileStat, File, Data
    <2>2. [sess[s] EXCEPT !.st = "open",
                          !.oldStat = IF dst = NoFile THEN NoFile ELSE StatOf(dst)]
             \in SessionState
      <3>1. sess[s] \in SessionState
        BY DEF TypeOK
      <3>2. (IF dst = NoFile THEN NoFile ELSE StatOf(dst)) \in FileStat \cup {NoFile}
        BY <2>1
      <3> QED
        BY <3>1, <3>2, UpdatedType
    <2>3. sess' = [sess EXCEPT ![s] = [sess[s] EXCEPT !.st = "open",
                      !.oldStat = IF dst = NoFile THEN NoFile ELSE StatOf(dst)]]
      BY <1>5 DEF StatOld, TypeOK
    <2>4. sess' \in [Session -> SessionState]
      BY <2>2, <2>3 DEF TypeOK
    <2> QED
      BY <1>5, <2>4 DEF StatOld, TypeOK
  <1>6. ASSUME NEW s \in Session, MayWrite(s), NEW b \in Block \cup {Blank},
               NEW upset \in BOOLEAN, Put(s, b, upset)
        PROVE  /\ temp' \in [Session -> TempFile]
               /\ sess' \in [Session -> SessionState]
    <2>1. sess[s].n + 1 \in Nat
      BY DEF TypeOK, SessionState
    <2>2. [temp[s].data EXCEPT ![Next1(s)] = b] \in Data
      BY <2>1, PutIsData DEF TypeOK, TempFile, Next1
    <2>3. [temp[s] EXCEPT !.data = [temp[s].data EXCEPT ![Next1(s)] = b],
                          !.aged = FALSE] \in TempFile
      BY <2>2 DEF TypeOK, TempFile
    <2>4. temp' \in [Session -> TempFile]
      BY <1>6, <2>3 DEF Put, TypeOK
    <2>5. (sess[s].upset \/ upset) \in BOOLEAN
      OBVIOUS
    <2>6. sess' \in [Session -> SessionState]
      <3>1. ASSUME NEW r \in SessionState, NEW n \in Nat, NEW u \in BOOLEAN
            PROVE  [r EXCEPT !.n = n, !.upset = u] \in SessionState
        BY DEF SessionState
      <3>2. [sess[s] EXCEPT !.n = Next1(s), !.upset = sess[s].upset \/ upset] \in SessionState
        BY <2>1, <2>5, <3>1 DEF TypeOK, Next1
      <3>3. sess' = [sess EXCEPT ![s] = [sess[s] EXCEPT !.n = Next1(s),
                                                        !.upset = sess[s].upset \/ upset]]
        BY <1>6 DEF Put
      <3> QED
        BY <3>2, <3>3 DEF TypeOK
    <2> QED
      BY <2>4, <2>6
  <1>7. ASSUME NEW s \in Session, MayWrite(s)
        PROVE  sess[s].want[Next1(s)] \in Block \cup {Blank}
    <2>1. Next1(s) \in 1..Len(sess[s].want)
      BY <1>7 DEF MayWrite, Next1, TypeOK, SessionState, Data
    <2> QED
      BY <2>1, BlockOfData DEF TypeOK, SessionState
  <1>8. ASSUME NEW s \in Session, WriteChunk(s)
        PROVE  TypeOK'
    <2>1. MayWrite(s) /\ UNCHANGED <<dst, durable, crossed>>
      BY <1>8 DEF WriteChunk
    <2>2. CASE Put(s, sess[s].want[Next1(s)], FALSE) /\ UNCHANGED troubles
      BY <2>1, <2>2, <1>6, <1>7 DEF TypeOK
    <2>3. CASE Put(s, Blank, TRUE) /\ Trouble
      <3>1. troubles' \in 0..MaxTroubles
        BY <2>3, VersionAssumption DEF Trouble, TypeOK
      <3> QED
        BY <2>1, <2>3, <3>1, <1>6 DEF TypeOK
    <2> QED
      BY <1>8, <2>2, <2>3 DEF WriteChunk
  <1>9. ASSUME NEW s \in Session, ReuseChunk(s)
        PROVE  TypeOK'
    <2>1. MayWrite(s) /\ UNCHANGED <<dst, durable, crossed, troubles>>
      BY <1>9 DEF ReuseChunk
    <2>2. CASE CanReuse(s) /\ Put(s, sess[s].old[OldOffset(s)], FALSE)
      <3>1. sess[s].old[OldOffset(s)] = sess[s].want[Next1(s)]
        BY <2>2 DEF CanReuse, OldBlockGood
      <3> QED
        BY <2>1, <2>2, <3>1, <1>6, <1>7 DEF TypeOK
    <2>3. CASE Fail(s)
      BY <2>1, <2>3, FailType DEF TypeOK
    <2> QED
      BY <1>9, <2>2, <2>3 DEF ReuseChunk
  <1>10. ASSUME NEW s \in Session, Verify(s)
         PROVE  TypeOK'
    <2>1. UNCHANGED <<dst, durable, crossed, troubles>>
      BY <1>10 DEF Verify
    <2>2. CASE Fail(s)
      BY <2>1, <2>2, FailType DEF TypeOK
    <2>3. CASE ~Fail(s)
      <3>1. [Idle EXCEPT !.st = "verified", !.want = sess[s].want,
                         !.far = sess[s].far, !.upset = sess[s].upset] \in SessionState
        BY <1>1 DEF TypeOK, Idle, SessionState, States
      <3>2. sess' \in [Session -> SessionState]
        BY <1>10, <2>3, <3>1 DEF Verify, Become, TypeOK
      <3>3. temp' \in [Session -> TempFile]
        <4>1. temp' = [temp EXCEPT ![s].synced = TRUE]
          BY <1>10, <2>3 DEF Verify
        <4> QED
          BY <4>1 DEF TypeOK, TempFile
      <3> QED
        BY <2>1, <3>2, <3>3 DEF TypeOK
    <2> QED
      BY <2>2, <2>3
  <1>11. ASSUME NEW s \in Session, Install(s)
         PROVE  TypeOK'
    <2>1. UNCHANGED <<crossed, troubles>>
      BY <1>11 DEF Install
    <2>2. CASE temp[s].linked
      <3>1. dst' \in File
        BY <1>11, <2>2, InstallWrites DEF Good
      <3>2. [sess[s] EXCEPT !.st = "installed"] \in SessionState
        BY DEF TypeOK, SessionState, States
      <3>3. sess' \in [Session -> SessionState]
        BY <1>11, <2>2, <3>2, DisturbedType DEF Install, TypeOK
      <3> QED
        BY <1>2, <1>11, <2>1, <2>2, <3>1, <3>3 DEF Install, TypeOK
    <2>3. CASE ~temp[s].linked
      BY <1>11, <2>1, <2>3, FailType DEF Install, TypeOK
    <2> QED
      BY <2>2, <2>3
  <1>12. ASSUME NEW s \in Session, CopyOpen(s)
         PROVE  TypeOK'
    <2>1. CASE temp[s].linked
      <3>1. dst' \in File
        <4>1. dst' = [data |-> <<>>, mtime |-> Now, synced |-> FALSE]
          BY <1>12, <2>1 DEF CopyOpen
        <4> QED
          BY <1>1, <4>1 DEF File
      <3>2. /\ sess \in [Session -> SessionState]
            /\ [sess[s] EXCEPT !.st = "copying", !.out = TRUE] \in SessionState
        BY UpdatedType DEF TypeOK
      <3>3. sess' \in [Session -> SessionState]
        <4>1. \A t \in Session : Overwritten(sess[t], <<>>) \in SessionState
          BY <1>1, <3>2, DisturbedType
        <4>2. sess' = [t \in Session |->
                        IF t = s THEN [sess[s] EXCEPT !.st = "copying", !.out = TRUE]
                                 ELSE Overwritten(sess[t], <<>>)]
          BY <1>12, <2>1 DEF CopyOpen
        <4> QED
          BY <3>2, <4>1, <4>2
      <3>4. troubles' \in 0..MaxTroubles
        BY <1>12, <2>1, VersionAssumption DEF CopyOpen, Trouble, TypeOK
      <3> QED
        BY <1>12, <2>1, <3>1, <3>3, <3>4 DEF CopyOpen, TypeOK
    <2>2. CASE ~temp[s].linked
      BY <1>12, <2>2, FailType DEF CopyOpen, TypeOK
    <2> QED
      BY <2>1, <2>2
  <1>13. ASSUME NEW s \in Session, CopyBlock(s)
         PROVE  TypeOK'
    <2> DEFINE d == WriteAt(dst.data, Next1(s), temp[s].data[Next1(s)])
               own == [sess[s] EXCEPT !.n = Next1(s)]
    <2>1. UNCHANGED <<temp, crossed, troubles>>
      BY <1>13 DEF CopyBlock
    <2>2. own \in SessionState
      BY DEF TypeOK, SessionState, Next1
    <2>3. CASE sess[s].out
      <3>1. d \in Data /\ dst' \in File
        BY <1>13, <2>3, CopyBlockWrites
      <3>2. durable' = {dst'}
        BY <1>13, <2>3 DEF CopyBlock
      <3>4. sess' = [t \in Session |-> IF t = s THEN own ELSE Overwritten(sess[t], d)]
        BY <1>13, <2>3 DEF CopyBlock
      <3>5. sess' \in [Session -> SessionState]
        BY <2>2, <3>1, <3>4, DisturbedType DEF TypeOK
      <3> QED
        BY <2>1, <3>1, <3>2, <3>5 DEF TypeOK
    <2>4. CASE ~sess[s].out
      <3>1. sess' = [sess EXCEPT ![s] = own] /\ UNCHANGED <<dst, durable>>
        BY <1>13, <2>4 DEF CopyBlock, Become
      <3> QED
        BY <2>1, <2>2, <3>1 DEF TypeOK
    <2> QED
      BY <2>3, <2>4
  <1>14. ASSUME NEW s \in Session, CopyEnd(s)
         PROVE  TypeOK'
    <2>1. UNCHANGED <<crossed, troubles>>
      BY <1>14 DEF CopyEnd
    <2>2. CASE dst # NoFile
      <3>3. dst' \in File /\ durable' = {dst'}
        BY <1>14, <2>2, CopyEndWrites DEF CopyEnd
      <3>4. [sess[s] EXCEPT !.st = IF temp[s].linked THEN "installed" ELSE "failed"]
               \in SessionState
        BY DEF TypeOK, SessionState, States
      <3>5. sess' \in [Session -> SessionState]
        BY <1>14, <2>2, <3>4, DisturbedType DEF CopyEnd, TypeOK
      <3>6. temp' \in [Session -> TempFile]
        BY <1>2, <1>14, <2>2 DEF CopyEnd, TypeOK
      <3> QED
        BY <2>1, <3>3, <3>5, <3>6 DEF TypeOK
    <2>3. CASE dst = NoFile
      BY <1>14, <2>1, <2>3, FailType DEF CopyEnd, TypeOK
    <2> QED
      BY <2>2, <2>3
  <1>15. ASSUME NEW s \in Session, Finish(s) \/ Abort(s) \/ Kill(s)
         PROVE  TypeOK'
    <2>1. sess' \in [Session -> SessionState] /\ dst' = dst /\ crossed' = crossed
      BY <1>2, <1>15 DEF Finish, Abort, Kill, Become, TypeOK
    <2>2. durable' \subseteq File \cup {NoFile}
      BY <1>15 DEF Finish, Abort, Kill, TypeOK
    <2>3. temp' \in [Session -> TempFile]
      BY <1>2, <1>15 DEF Finish, Abort, Kill, TypeOK
    <2>4. troubles' \in 0..MaxTroubles
      BY <1>15, VersionAssumption DEF Finish, Abort, Kill, Trouble, TypeOK
    <2> QED
      BY <2>1, <2>2, <2>3, <2>4 DEF TypeOK
  <1>16. ASSUME NEW s \in Session, Age(s)
         PROVE  TypeOK'
    <2>1. temp' \in [Session -> TempFile]
      BY <1>16 DEF Age, TypeOK, TempFile
    <2>2. sess' \in [Session -> SessionState]
      BY <1>16, DisturbedType DEF Age, Become, TypeOK
    <2>3. troubles' \in 0..MaxTroubles
      BY <1>16, VersionAssumption DEF Age, Trouble, TypeOK
    <2> QED
      BY <1>16, <2>1, <2>2, <2>3 DEF Age, TypeOK
  <1>17. CASE Remove
    <2>1. sess' \in [Session -> SessionState]
      BY <1>17, DisturbedType DEF Remove, TypeOK
    <2>2. troubles' \in 0..MaxTroubles
      BY <1>17, VersionAssumption DEF Remove, Trouble, TypeOK
    <2> QED
      BY <1>17, <2>1, <2>2 DEF Remove, TypeOK
  <1>18. CASE PowerFailure
    <2>1. dst' \in File \cup {NoFile}
      BY <1>18, SurvivorType DEF PowerFailure, TypeOK
    <2>2. troubles' \in 0..MaxTroubles
      BY <1>18, VersionAssumption DEF PowerFailure, Trouble, TypeOK
    <2> QED
      BY <1>2, <1>18, <2>1, <2>2 DEF PowerFailure, TypeOK
  <1>19. CASE UNCHANGED vars
    BY <1>19 DEF vars, TypeOK
  <1> QED
    BY <1>3, <1>4, <1>5, <1>8, <1>9, <1>10, <1>11, <1>12, <1>13, <1>14, <1>15, <1>16,
       <1>17, <1>18, <1>19 DEF Next, SessionStep
-----------------------------------------------------------------------------
(* What others do to the dest leaves what a session is after, and where it is;
   a session is not told to copy on. *)
LEMMA DisturbedKeeps ==
  ASSUME NEW r \in SessionState, NEW d \in Data
  PROVE  /\ Disturbed(r).st = r.st /\ Disturbed(r).want = r.want /\ Disturbed(r).out = r.out
         /\ Replaced(r).st = r.st /\ Replaced(r).want = r.want /\ ~Replaced(r).out
         /\ Overwritten(r, d).st = r.st /\ Overwritten(r, d).want = r.want
         /\ Overwritten(r, d).out = r.out
  BY DEF Disturbed, Replaced, Overwritten, SessionState

(* What is said of a session is kept as long as it is where it was, after the
   same version, with the same staging file. *)
LEMMA Untouched ==
  ASSUME NEW t \in Session, SessionOK(t),
         sess'[t].st = sess[t].st, sess'[t].want = sess[t].want,
         temp'[t].data = temp[t].data, temp'[t].synced = temp[t].synced,
         sess'[t].out => dst' # NoFile, crossed => crossed'
  PROVE  SessionOK(t)'
  BY DEF SessionOK

(* A session that fails has nothing to keep, and disturbs no other. *)
LEMMA FailKeeps ==
  ASSUME TypeOK, NEW t \in Session, SessionOK(t), NEW s \in Session, Fail(s),
         UNCHANGED <<dst, crossed>>
  PROVE  SessionOK(t)'
  <1>1. CASE t = s
    BY <1>1 DEF Fail, Become, TypeOK, Idle, SessionOK
  <1>2. CASE t # s
    BY <1>2 DEF Fail, Become, TypeOK, SessionOK
  <1> QED
    BY <1>1, <1>2

(* Every step keeps what is said of each session. *)
LEMMA SessionsKept == IInv /\ [Next]_vars => \A t \in Session : SessionOK(t)'
  <1> SUFFICES ASSUME IInv, [Next]_vars, NEW t \in Session
               PROVE  SessionOK(t)'
    OBVIOUS
  <1>0. TypeOK /\ SessionOK(t)
    BY DEF IInv
  <1>01. <<>> \in Data
    BY DEF Data
  <1>1. ASSUME NEW s \in Session, NEW v \in Version, Plan(s, v)
        PROVE  SessionOK(t)'
    BY <1>0, <1>1 DEF Plan, Become, SessionOK, TypeOK, Idle
  <1>2. ASSUME NEW s \in Session, NEW far \in {FALSE, CrossDevice}, BeginWrite(s, far)
        PROVE  SessionOK(t)'
    BY <1>0, <1>2 DEF BeginWrite, SessionOK, TypeOK, Collected, TempFile, SessionState
  <1>3. ASSUME NEW s \in Session, StatOld(s)
        PROVE  SessionOK(t)'
    BY <1>0, <1>3 DEF StatOld, SessionOK, TypeOK, SessionState
  <1>4. ASSUME NEW s \in Session, WriteChunk(s) \/ ReuseChunk(s)
        PROVE  SessionOK(t)'
    <2>1. UNCHANGED <<dst, crossed>> /\ sess[s].st = "open"
      BY <1>4 DEF WriteChunk, ReuseChunk, MayWrite
    <2>2. ASSUME NEW b, NEW upset, Put(s, b, upset)
          PROVE  SessionOK(t)'
      <3>1. /\ sess'[t].st = sess[t].st /\ sess'[t].want = sess[t].want
            /\ sess'[t].out = sess[t].out
        BY <1>0, <2>2 DEF Put, TypeOK, SessionState
      <3>2. t # s => temp'[t] = temp[t]
        BY <1>0, <2>2 DEF Put, TypeOK
      <3> QED
        BY <1>0, <2>1, <3>1, <3>2 DEF SessionOK
    <2> QED
      BY <1>0, <1>4, <2>1, <2>2, FailKeeps DEF WriteChunk, ReuseChunk
  <1>5. ASSUME NEW s \in Session, Verify(s)
        PROVE  SessionOK(t)'
    <2>1. UNCHANGED <<dst, crossed>> /\ sess[s].st = "open"
      BY <1>5 DEF Verify
    <2>2. CASE ~Fail(s)
      <3>1. /\ DigestMatches(s)
            /\ temp' = [temp EXCEPT ![s].synced = TRUE]
            /\ Become(s, [Idle EXCEPT !.st = "verified", !.want = sess[s].want,
                                      !.far = sess[s].far, !.upset = sess[s].upset])
        BY <1>5, <2>2 DEF Verify
      <3>2. CASE t # s
        BY <1>0, <2>1, <3>1, <3>2 DEF Become, TypeOK, SessionOK
      <3>3. CASE t = s
        <4>1. sess'[s].st = "verified" /\ sess'[s].want = sess[s].want /\ ~sess'[s].out
          BY <1>0, <3>1 DEF Become, TypeOK, Idle
        <4>2. temp'[s].data = sess[s].want /\ temp'[s].synced
          BY <1>0, <3>1 DEF DigestMatches, TypeOK, TempFile
        <4> QED
          BY <1>0, <2>1, <3>3, <4>1, <4>2 DEF SessionOK
      <3> QED
        BY <3>2, <3>3
    <2> QED
      BY <1>0, <2>1, <2>2, FailKeeps
  <1>6. ASSUME NEW s \in Session, Install(s)
        PROVE  SessionOK(t)'
    <2>1. CASE ~temp[s].linked
      BY <1>0, <1>6, <2>1, FailKeeps DEF Install
    <2>2. CASE temp[s].linked
      <3>1. dst' # NoFile /\ crossed' = crossed /\ (t # s => temp'[t] = temp[t])
        BY <1>0, <1>6, <2>2, InstallWrites, FileIsThere DEF Install, TypeOK, Good
      <3>2. CASE t = s
        <4>0. sess'[s] = [sess[s] EXCEPT !.st = "installed"]
          BY <1>6, <2>2 DEF Install
        <4>1. sess'[s].st = "installed" /\ sess'[s].want = sess[s].want
          BY <1>0, <4>0 DEF TypeOK, SessionState
        <4>2. sess[s].want \in Version
          BY <1>0, <1>6, <3>2 DEF Install, SessionOK
        <4> QED
          BY <3>1, <3>2, <4>1, <4>2 DEF SessionOK
      <3>3. CASE t # s
        <4>1. sess'[t] = Replaced(sess[t])
          BY <1>6, <2>2, <3>3 DEF Install
        <4>2. sess'[t].st = sess[t].st /\ sess'[t].want = sess[t].want
          BY <1>0, <1>01, <4>1, DisturbedKeeps DEF TypeOK
        <4> QED
          BY <1>0, <3>1, <3>3, <4>2, Untouched
      <3> QED
        BY <3>2, <3>3
    <2> QED
      BY <2>1, <2>2
  <1>7. ASSUME NEW s \in Session, CopyOpen(s)
        PROVE  SessionOK(t)'
    <2>1. CASE ~temp[s].linked
      BY <1>0, <1>7, <2>1, FailKeeps DEF CopyOpen
    <2>2. CASE temp[s].linked
      <3>1. temp' = temp /\ crossed'
        BY <1>7, <2>2 DEF CopyOpen
      <3>2. dst' # NoFile
        <4>1. dst' = [data |-> <<>>, mtime |-> Now, synced |-> FALSE]
          BY <1>7, <2>2 DEF CopyOpen
        <4>2. dst' \in File
          BY <1>01, <4>1 DEF File
        <4> QED
          BY <4>2, FileIsThere
      <3>3. CASE t = s
        <4>1. sess[s].st = "verified"
          BY <1>7 DEF CopyOpen
        <4>2. sess'[s] = [sess[s] EXCEPT !.st = "copying", !.out = TRUE]
          BY <1>7, <2>2 DEF CopyOpen
        <4>3. sess'[s].st = "copying" /\ sess'[s].want = sess[s].want
          BY <1>0, <4>2 DEF TypeOK, SessionState
        <4> QED
          BY <1>0, <3>1, <3>2, <3>3, <4>1, <4>3 DEF SessionOK
      <3>4. CASE t # s
        <4>1. sess'[t] = Overwritten(sess[t], <<>>)
          BY <1>7, <2>2, <3>4 DEF CopyOpen
        <4>2. sess'[t].st = sess[t].st /\ sess'[t].want = sess[t].want
          BY <1>0, <1>01, <4>1, DisturbedKeeps DEF TypeOK
        <4> QED
          BY <1>0, <3>1, <3>2, <4>2, Untouched
      <3> QED
        BY <3>3, <3>4
    <2> QED
      BY <2>1, <2>2
  <1>8. ASSUME NEW s \in Session, CopyBlock(s)
        PROVE  SessionOK(t)'
    <2> DEFINE d == WriteAt(dst.data, Next1(s), temp[s].data[Next1(s)])
    <2>1. UNCHANGED <<temp, crossed>>
      BY <1>8 DEF CopyBlock
    <2>2. t = s => sess'[t] = [sess[s] EXCEPT !.n = Next1(s)]
      BY <1>0, <1>8 DEF CopyBlock, Become, TypeOK
    <2>3. CASE ~sess[s].out
      <3>1. dst' = dst /\ (t # s => sess'[t] = sess[t])
        BY <1>0, <1>8, <2>3 DEF CopyBlock, Become, TypeOK
      <3> QED
        BY <1>0, <2>1, <2>2, <3>1 DEF SessionOK, TypeOK, SessionState
    <2>4. CASE sess[s].out
      <3>1. dst' # NoFile
        BY <1>8, <2>4, CopyBlockWrites, FileIsThere
      <3>2. t # s => sess'[t] = Overwritten(sess[t], d)
        BY <1>8, <2>4 DEF CopyBlock
      <3>3. sess'[t].st = sess[t].st /\ sess'[t].want = sess[t].want
        BY <1>0, <2>2, <3>2 DEF TypeOK, SessionState, Overwritten, Disturbed
      <3> QED
        BY <1>0, <2>1, <3>1, <3>3, Untouched
    <2> QED
      BY <2>3, <2>4
  <1>9. ASSUME NEW s \in Session, CopyEnd(s)
        PROVE  SessionOK(t)'
    <2>1. CASE dst = NoFile
      BY <1>0, <1>9, <2>1, FailKeeps DEF CopyEnd
    <2>2. CASE dst # NoFile
      <3>1. crossed' = crossed /\ (t # s => temp'[t] = temp[t])
        BY <1>0, <1>9, <2>2 DEF CopyEnd, TypeOK
      <3>2. dst' # NoFile
        BY <1>9, <2>2, CopyEndWrites, FileIsThere
      <3>3. CASE t = s
        <4>1. sess'[s] = [sess[s] EXCEPT !.st = IF temp[s].linked THEN "installed" ELSE "failed"]
          BY <1>9, <2>2 DEF CopyEnd
        <4>2. sess'[s].st \in {"installed", "failed"} /\ sess'[s].want = sess[s].want
          BY <1>0, <4>1 DEF TypeOK, SessionState
        <4>3. sess[s].want \in Version
          BY <1>0, <1>9, <3>3 DEF CopyEnd, SessionOK
        <4> QED
          BY <3>2, <3>3, <4>2, <4>3 DEF SessionOK
      <3>4. CASE t # s
        <4>1. sess'[t] = Disturbed(sess[t])
          BY <1>9, <2>2, <3>4 DEF CopyEnd
        <4>2. sess'[t].st = sess[t].st /\ sess'[t].want = sess[t].want
          BY <1>0, <1>01, <4>1, DisturbedKeeps DEF TypeOK
        <4> QED
          BY <1>0, <3>1, <3>2, <3>4, <4>2, Untouched
      <3> QED
        BY <3>3, <3>4
    <2> QED
      BY <2>1, <2>2
  <1>10. ASSUME NEW s \in Session, Finish(s) \/ Abort(s) \/ Kill(s)
         PROVE  SessionOK(t)'
    <2>1. sess' = [sess EXCEPT ![s] = Idle] /\ UNCHANGED <<dst, crossed>>
      BY <1>10 DEF Finish, Abort, Kill, Become
    <2>2. t # s => temp'[t] = temp[t]
      BY <1>0, <1>10 DEF Finish, Abort, Kill, TypeOK
    <2> QED
      BY <1>0, <2>1, <2>2 DEF SessionOK, TypeOK, Idle
  <1>11. ASSUME NEW s \in Session, Age(s)
         PROVE  SessionOK(t)'
    <2>1. sess' = [sess EXCEPT ![s] = Disturbed(sess[s])] /\ UNCHANGED <<dst, crossed>>
      BY <1>11 DEF Age, Become
    <2>2. temp'[t].data = temp[t].data /\ temp'[t].synced = temp[t].synced
      BY <1>0, <1>11 DEF Age, TypeOK, TempFile
    <2>3. /\ sess'[t].st = sess[t].st /\ sess'[t].want = sess[t].want
          /\ sess'[t].out = sess[t].out
      BY <1>0, <1>01, <2>1, DisturbedKeeps DEF TypeOK
    <2>4. sess'[t].out => dst' # NoFile
      BY <1>0, <2>1, <2>3 DEF SessionOK
    <2> QED
      BY <1>0, <2>1, <2>2, <2>3, <2>4, Untouched
  <1>12. CASE Remove
    <2>1. temp' = temp /\ crossed' = crossed /\ sess'[t] = Replaced(sess[t])
      BY <1>12 DEF Remove
    <2>2. sess'[t].st = sess[t].st /\ sess'[t].want = sess[t].want /\ ~sess'[t].out
      BY <1>0, <1>01, <2>1, DisturbedKeeps DEF TypeOK
    <2> QED
      BY <1>0, <2>1, <2>2, Untouched
  <1>14. CASE PowerFailure
    BY <1>14 DEF PowerFailure, Idle, SessionOK
  <1>13. CASE UNCHANGED vars
    BY <1>0, <1>13 DEF vars, SessionOK
  <1> QED
    BY <1>1, <1>2, <1>3, <1>4, <1>5, <1>6, <1>7, <1>8, <1>9, <1>10, <1>11, <1>12, <1>13,
       <1>14     DEF Next, SessionStep
-----------------------------------------------------------------------------
(* A power failure leaves a good file as it is. *)
LEMMA GoodSurvives == \A f \in Good \cup {NoFile} : Survivor(f) = f
  BY NullAssumption DEF Good, Survivor

(* Every step keeps what is said of the disk. *)
LEMMA DiskKept == IInv /\ [Next]_vars => DiskOK'
  <1> SUFFICES ASSUME IInv, [Next]_vars
               PROVE  DiskOK'
    OBVIOUS
  <1>0. TypeOK /\ DiskOK
    BY DEF IInv
  <1>1. CASE UNCHANGED <<dst, durable, crossed>>
    BY <1>0, <1>1 DEF DiskOK
  <1>2. ASSUME NEW s \in Session, Install(s), temp[s].linked
        PROVE  DiskOK'
    <2>1. durable' = durable \cup {dst'} /\ crossed' = crossed
      BY <1>2 DEF Install
    <2>3. dst' \in Good
      BY <1>2, InstallWrites
    <2> QED
      BY <1>0, <2>1, <2>3 DEF DiskOK
  <1>3. ASSUME NEW s \in Session, CopyOpen(s), temp[s].linked
        PROVE  DiskOK'
    BY <1>3 DEF CopyOpen, DiskOK
  <1>4. ASSUME NEW s \in Session, CopyBlock(s) \/ CopyEnd(s)
        PROVE  DiskOK'
    <2>1. crossed /\ crossed' = crossed
      BY <1>4 DEF CopyBlock, CopyEnd, IInv, SessionOK
    <2> QED
      BY <2>1 DEF DiskOK
  <1>5. ASSUME NEW s \in Session, Finish(s)
        PROVE  DiskOK'
    BY <1>0, <1>5 DEF Finish, DiskOK
  <1>6. CASE Remove
    BY <1>0, <1>6 DEF Remove, DiskOK
  <1>7. CASE PowerFailure
    BY <1>0, <1>7, GoodSurvives DEF PowerFailure, DiskOK
  <1> QED
    <2>1. ASSUME NEW s \in Session,
                 \/ \E v \in Version : Plan(s, v)
                 \/ \E far \in {FALSE, CrossDevice} : BeginWrite(s, far)
                 \/ StatOld(s) \/ WriteChunk(s) \/ ReuseChunk(s) \/ Verify(s)
                 \/ Abort(s) \/ Kill(s) \/ Age(s)
          PROVE  UNCHANGED <<dst, durable, crossed>>
      BY <2>1 DEF Plan, BeginWrite, StatOld, WriteChunk, ReuseChunk, Verify, Abort, Kill, Age
    <2>2. ASSUME NEW s \in Session, Install(s) \/ CopyOpen(s), ~temp[s].linked
          PROVE  UNCHANGED <<dst, durable, crossed>>
      BY <2>2 DEF Install, CopyOpen
    <2> QED
      BY <1>1, <1>2, <1>3, <1>4, <1>5, <1>6, <1>7, <2>1, <2>2 DEF Next, SessionStep, vars
-----------------------------------------------------------------------------
(* Where a session stages its file is decided by BeginWrite alone. *)
LEMMA DisturbedStays ==
  ASSUME NEW r \in SessionState, NEW d \in Data
  PROVE  Disturbed(r).far = r.far /\ Replaced(r).far = r.far /\ Overwritten(r, d).far = r.far
  BY DEF Disturbed, Replaced, Overwritten, SessionState

(* Every step keeps staging on the other file system to where it can be. *)
LEMMA FarKept == IInv /\ [Next]_vars => FarOK'
  <1> SUFFICES ASSUME IInv, [Next]_vars, NEW t \in Session
               PROVE  sess'[t].far => sess[t].far \/ CrossDevice
    BY DEF IInv, FarOK
  <1>0. TypeOK /\ <<>> \in Data
    BY DEF IInv, Data
  <1>1. ASSUME NEW s \in Session, NEW far \in {FALSE, CrossDevice}, BeginWrite(s, far)
        PROVE  sess'[t].far => sess[t].far \/ CrossDevice
    BY <1>0, <1>1 DEF BeginWrite, TypeOK, SessionState
  <1>2. ASSUME NEW s \in Session, NEW v \in Version, Plan(s, v)
        PROVE  sess'[t].far => sess[t].far
    BY <1>0, <1>2 DEF Plan, Become, TypeOK, Idle
  <1>3. ASSUME NEW s \in Session, StatOld(s)
        PROVE  sess'[t].far => sess[t].far
    BY <1>0, <1>3 DEF StatOld, TypeOK, SessionState
  <1>4. ASSUME NEW s \in Session, Fail(s) \/ Finish(s) \/ Abort(s) \/ Kill(s)
        PROVE  sess'[t].far => sess[t].far
    <2>1. \/ sess' = [sess EXCEPT ![s] = [Idle EXCEPT !.st = "failed", !.upset = sess[s].upset]]
          \/ sess' = [sess EXCEPT ![s] = Idle]
      BY <1>4 DEF Fail, Finish, Abort, Kill, Become
    <2>2. ~[Idle EXCEPT !.st = "failed", !.upset = sess[s].upset].far /\ ~Idle.far
      BY DEF Idle
    <2> QED
      BY <1>0, <2>1, <2>2 DEF TypeOK
  <1>5. ASSUME NEW s \in Session, WriteChunk(s) \/ ReuseChunk(s), ~Fail(s)
        PROVE  sess'[t].far => sess[t].far
    <2>1. PICK b, upset : Put(s, b, upset)
      BY <1>5 DEF WriteChunk, ReuseChunk
    <2>2. sess' = [sess EXCEPT ![s].n = Next1(s), ![s].upset = @ \/ upset]
      BY <2>1 DEF Put
    <2>3. sess'[t].far = sess[t].far
      BY <1>0, <2>2 DEF TypeOK, SessionState
    <2> QED
      BY <2>3
  <1>6. ASSUME NEW s \in Session, Verify(s), ~Fail(s)
        PROVE  sess'[t].far => sess[t].far
    <2>1. sess' = [sess EXCEPT ![s] = [Idle EXCEPT !.st = "verified", !.want = sess[s].want,
                                          !.far = sess[s].far, !.upset = sess[s].upset]]
      BY <1>6 DEF Verify, Become
    <2>2. t = s => sess'[t].far = sess[t].far
      BY <1>0, <2>1 DEF TypeOK, Idle
    <2>3. t # s => sess'[t] = sess[t]
      BY <1>0, <2>1 DEF TypeOK
    <2> QED
      BY <2>2, <2>3
  <1>8. ASSUME NEW s \in Session, Install(s), ~Fail(s)
        PROVE  sess'[t].far => sess[t].far
    <2>1. sess' = [u \in Session |-> IF u = s THEN [sess[s] EXCEPT !.st = "installed"]
                                     ELSE Replaced(sess[u])]
      BY <1>8 DEF Install
    <2> QED
      BY <1>0, <2>1, DisturbedStays DEF TypeOK, SessionState
  <1>9. ASSUME NEW s \in Session, CopyOpen(s), ~Fail(s)
        PROVE  sess'[t].far => sess[t].far
    <2>1. sess' = [u \in Session |-> IF u = s THEN [sess[s] EXCEPT !.st = "copying", !.out = TRUE]
                                     ELSE Overwritten(sess[u], <<>>)]
      BY <1>9 DEF CopyOpen
    <2>2. CASE t = s
      BY <1>0, <2>1, <2>2 DEF TypeOK, SessionState
    <2>3. CASE t # s
      BY <1>0, <2>1, <2>3, DisturbedStays DEF TypeOK
    <2> QED
      BY <2>2, <2>3
  <1>10. ASSUME NEW s \in Session, CopyBlock(s)
         PROVE  sess'[t].far => sess[t].far
    <2> DEFINE d == WriteAt(dst.data, Next1(s), temp[s].data[Next1(s)])
    <2>1. t = s => sess'[t] = [sess[s] EXCEPT !.n = Next1(s)]
      BY <1>0, <1>10 DEF CopyBlock, Become, TypeOK
    <2>2. t # s => \/ sess'[t] = sess[t]
                   \/ d \in Data /\ sess'[t] = Overwritten(sess[t], d)
      BY <1>0, <1>10, CopyBlockWrites DEF CopyBlock, Become, TypeOK
    <2> QED
      BY <1>0, <2>1, <2>2, DisturbedStays DEF TypeOK, SessionState
  <1>11. ASSUME NEW s \in Session, CopyEnd(s), ~Fail(s)
         PROVE  sess'[t].far => sess[t].far
    <2>1. sess' = [u \in Session |->
                     IF u = s THEN [sess[s] EXCEPT !.st = IF temp[s].linked THEN "installed"
                                                          ELSE "failed"]
                     ELSE Disturbed(sess[u])]
      BY <1>11 DEF CopyEnd
    <2>2. CASE t = s
      BY <1>0, <2>1, <2>2 DEF TypeOK, SessionState
    <2>3. CASE t # s
      BY <1>0, <2>1, <2>3, DisturbedStays DEF TypeOK
    <2> QED
      BY <2>2, <2>3
  <1>12. ASSUME NEW s \in Session, Age(s)
         PROVE  sess'[t].far => sess[t].far
    <2>1. sess' = [sess EXCEPT ![s] = Disturbed(sess[s])]
      BY <1>12 DEF Age, Become
    <2> QED
      BY <1>0, <2>1, DisturbedStays DEF TypeOK
  <1>13. CASE Remove
    <2>1. sess'[t] = Replaced(sess[t])
      BY <1>13 DEF Remove
    <2> QED
      BY <1>0, <2>1, DisturbedStays DEF TypeOK
  <1>14. CASE PowerFailure
    BY <1>14 DEF PowerFailure, Idle
  <1>15. CASE UNCHANGED vars
    BY <1>15 DEF vars
  <1> QED
    BY <1>1, <1>2, <1>3, <1>4, <1>5, <1>6, <1>8, <1>9, <1>10, <1>11, <1>12, <1>13, <1>14, <1>15
    DEF Next, SessionStep
-----------------------------------------------------------------------------
(* The inductive invariant holds of every reachable state. *)
THEOREM Inductive == Spec => []IInv
  <1>1. Init => IInv
    <2> SUFFICES ASSUME Init PROVE IInv
      OBVIOUS
    <2>1. \A s \in Session : SessionOK(s)
      BY DEF Init, SessionOK, Idle
    <2>2. DiskOK
      BY VersionIsData DEF Init, DiskOK, Good, File
    <2>3. FarOK
      BY DEF Init, FarOK, Idle
    <2> QED
      BY <2>1, <2>2, <2>3, InitType DEF IInv
  <1>2. IInv /\ [Next]_vars => IInv'
    BY TypeStep, SessionsKept, DiskKept, FarKept DEF IInv
  <1> QED
    BY <1>1, <1>2, PTL DEF Spec

(* Whatever writers, aborts, kills, sweeps of the staging directory, removals
   and power failures come together, every variable keeps its type. *)
THEOREM TypeCorrect == Spec => []TypeOK
  <1>1. IInv => TypeOK
    BY DEF IInv
  <1> QED
    BY <1>1, Inductive, PTL

(* For any number of writers, and any versions: the destination is a whole
   version, as long as no copy across file systems was begun. *)
THEOREM DestStaysWhole == Spec => []DestIsWhole
  <1>1. IInv => DestIsWhole
    BY DEF IInv, DiskOK, Good, DestIsWhole
  <1> QED
    BY <1>1, Inductive, PTL

(* ... and so is what a power failure leaves of it. *)
THEOREM PowerFailureSafe == Spec => []PowerFailureLeavesWhole
  <1>1. IInv => PowerFailureLeavesWhole
    BY GoodSurvives DEF IInv, DiskOK, Good, PowerFailureLeavesWhole
  <1> QED
    BY <1>1, Inductive, PTL
-----------------------------------------------------------------------------
(* The sessions implement AtomicFile: each of their steps is one of its steps,
   or none.  First, what the refinement mapping gives for what is good. *)
LEMMA MappedValue ==
  ASSUME NEW f \in Good \cup {NoFile}
  PROVE  DataOf(f) \in Version \cup {NoFile} /\ DataOf(f) # Undefined
  BY NullAssumption DEF DataOf, Good

(* The initial states are those of the abstract file. *)
LEMMA InitMaps == Init => Abstract!AbsInit
  <1> SUFFICES ASSUME Init PROVE Abstract!AbsInit
    OBVIOUS
  <1>1. ~crossed /\ durable = {dst}
    BY DEF Init
  <1>2. DataOf(dst) \in Version \cup {NoFile}
    BY DEF Init, DataOf
  <1> QED
    BY <1>1, <1>2 DEF Abstract!AbsInit

(* Every step is one of the abstract file, or a stutter. *)
LEMMA StepMaps == IInv /\ [Next]_vars => [Abstract!AbsNext]_(Abstract!absVars)
  <1> SUFFICES ASSUME IInv, [Next]_vars
               PROVE  Abstract!AbsNext \/ UNCHANGED Abstract!absVars
    OBVIOUS
  <1>0. TypeOK /\ DiskOK
    BY DEF IInv
  <1>1. CASE UNCHANGED <<dst, durable, crossed>>
    BY <1>1 DEF Abstract!absVars, DataOf
  <1>2. ~crossed => /\ DataOf(dst) # Undefined
                    /\ dst \in Good \cup {NoFile} /\ durable \subseteq Good \cup {NoFile}
    BY <1>0, MappedValue DEF DiskOK
  <1>3. CASE crossed /\ crossed'
    BY <1>3 DEF Abstract!absVars
  <1>4. ASSUME NEW s \in Session, Install(s), temp[s].linked, ~crossed
        PROVE  Abstract!AbsNext
    <2>1. dst' \in Good /\ durable' = durable \cup {dst'} /\ ~crossed'
      BY <1>4, InstallWrites DEF Install
    <2>2. DataOf(dst') \in Version
      BY <2>1, NullAssumption DEF DataOf, Good
    <2>3. Abstract!Replace(DataOf(dst'))
      BY <1>2, <1>4, <2>1 DEF Abstract!Replace
    <2> QED
      BY <2>2, <2>3 DEF Abstract!AbsNext
  <1>5. ASSUME NEW s \in Session, CopyOpen(s), temp[s].linked
        PROVE  Abstract!AbsNext
    <2>1. crossed' /\ sess[s].far
      BY <1>5 DEF CopyOpen
    <2>2. CrossDevice
      BY <2>1 DEF IInv, FarOK
    <2> QED
      BY <2>1, <2>2 DEF Abstract!AbsNext, Abstract!RewriteInPlace
  <1>6. ASSUME NEW s \in Session, CopyBlock(s) \/ CopyEnd(s)
        PROVE  crossed /\ crossed'
    BY <1>6 DEF CopyBlock, CopyEnd, IInv, SessionOK
  <1>7. ASSUME NEW s \in Session, Finish(s), ~crossed
        PROVE  Abstract!AbsNext \/ UNCHANGED Abstract!absVars
    <2>1. dst' = dst /\ ~crossed' /\ durable' \in {durable, {dst}}
      BY <1>7 DEF Finish
    <2>2. CASE durable' = durable
      BY <1>7, <2>1, <2>2 DEF Abstract!absVars, DataOf
    <2>3. CASE durable' = {dst}
      BY <1>2, <1>7, <2>1, <2>3 DEF Abstract!AbsNext, Abstract!Harden, DataOf
    <2> QED
      BY <2>1, <2>2, <2>3
  <1>8. CASE Remove /\ ~crossed
    <2>1. dst' = NoFile /\ durable' = durable \cup {NoFile} /\ ~crossed'
      BY <1>8 DEF Remove
    <2>2. DataOf(NoFile) = NoFile
      BY DEF DataOf
    <2> QED
      BY <1>2, <1>8, <2>1, <2>2 DEF Abstract!AbsNext, Abstract!Remove
  <1>9. CASE PowerFailure /\ ~crossed
    <2>1. PICK f \in durable : dst' = Survivor(f)
      BY <1>9 DEF PowerFailure
    <2>2. dst' = f /\ durable' = {dst'} /\ ~crossed'
      BY <1>2, <1>9, <2>1, GoodSurvives DEF PowerFailure
    <2> QED
      BY <1>2, <1>9, <2>1, <2>2 DEF Abstract!AbsNext, Abstract!PowerFailure
  <1>10. ASSUME NEW s \in Session,
                \/ \E v \in Version : Plan(s, v)
                \/ \E far \in {FALSE, CrossDevice} : BeginWrite(s, far)
                \/ StatOld(s) \/ WriteChunk(s) \/ ReuseChunk(s) \/ Verify(s)
                \/ Abort(s) \/ Kill(s) \/ Age(s)
         PROVE  UNCHANGED <<dst, durable, crossed>>
    BY <1>10 DEF Plan, BeginWrite, StatOld, WriteChunk, ReuseChunk, Verify, Abort, Kill, Age
  <1>11. ASSUME NEW s \in Session, Install(s) \/ CopyOpen(s), ~temp[s].linked
         PROVE  UNCHANGED <<dst, durable, crossed>>
    BY <1>11 DEF Install, CopyOpen
  <1>12. ASSUME NEW s \in Session, Install(s) \/ Finish(s), crossed
         PROVE  crossed'
    BY <1>12 DEF Install, Finish, Fail
  <1>13. ASSUME Remove \/ PowerFailure, crossed
         PROVE  crossed'
    BY <1>13 DEF Remove, PowerFailure
  <1> QED
    BY <1>1, <1>3, <1>4, <1>5, <1>6, <1>7, <1>8, <1>9, <1>10, <1>11, <1>12, <1>13
    DEF Next, SessionStep, vars

(* For any writers, versions and bounds, every behaviour of the write sessions
   is one of the abstract file: it is replaced as a whole, and a power failure
   brings back a version it had since it was last known to be on disk. *)
THEOREM Refinement == Spec => ImplementsAtomicFile
  <1> QED
    BY InitMaps, StepMaps, Inductive, PTL DEF Spec, ImplementsAtomicFile, Abstract!AbsSpec
-----------------------------------------------------------------------------
(* No writer trips over its own checks.  What a session knows as long as nobody
   interfered with it: the dest is still what the plan and BeginWrite met, and
   the staging file is there, young, and holds what was written so far. *)
Written(s) == /\ temp[s].linked /\ ~temp[s].aged
              /\ Len(temp[s].data) = Len(sess[s].want)
              /\ sess[s].n <= Len(sess[s].want)
              /\ \A k \in 1..sess[s].n : temp[s].data[k] = sess[s].want[k]
StatNow == IF dst = NoFile THEN NoFile ELSE StatOf(dst)
Planned(s) == sess[s].st \in {"planned", "opening", "open"} => sess[s].seen = DataOf(dst)
Begun(s)   == sess[s].st \in {"opening", "open"} => sess[s].old = DataOf(dst) /\ Written(s)
\* What is copied so far, and the dest at the end.
Copied(s) == /\ dst # NoFile /\ dst.mtime = Now /\ sess[s].out
             /\ sess[s].n <= Len(sess[s].want) /\ Len(dst.data) = sess[s].n
             /\ \A k \in 1..sess[s].n : dst.data[k] = sess[s].want[k]
Ended(s)  == dst # NoFile /\ dst.data = sess[s].want /\ dst.mtime = sess[s].want
CalmOK(s)  == ~sess[s].upset =>
    /\ Planned(s)
    /\ sess[s].st = "planned" => sess[s].oldStat = NoFile
    /\ Begun(s)
    /\ sess[s].st = "opening" => sess[s].n = 0
    /\ sess[s].st = "planned" => sess[s].n = 0
    /\ sess[s].st = "open" => sess[s].oldStat = StatNow
    /\ sess[s].st \in {"verified", "copying"} => temp[s].linked /\ ~temp[s].aged
    /\ sess[s].st = "verified" => sess[s].n = 0
    /\ sess[s].st = "copying" => Copied(s)
    /\ sess[s].st = "installed" => Ended(s)
    /\ sess[s].st # "failed"
Calm == \A s \in Session : CalmOK(s)

(* A session that others did not touch, or that they did. *)
LEMMA CalmFrame ==
  ASSUME NEW t \in Session, CalmOK(t), sess'[t] = sess[t], dst' = dst,
         temp'[t] = temp[t] \/ sess[t].st \in {"idle", "planned", "installed", "failed"}
  PROVE  CalmOK(t)'
  BY DEF CalmOK, Planned, Begun, Written, Copied, Ended, StatNow, DataOf

LEMMA CalmNot ==
  ASSUME NEW t \in Session, sess'[t].upset \/ sess'[t].st = "idle"
  PROVE  CalmOK(t)'
  BY DEF CalmOK, Planned, Begun

\* A block written at the end of a content.
LEMMA WriteAtEnd ==
  ASSUME NEW d \in Data, NEW b, NEW i \in Nat, i = Len(d) + 1
  PROVE  /\ Len(WriteAt(d, i, b)) = i
         /\ \A k \in 1..i : WriteAt(d, i, b)[k] = IF k = i THEN b ELSE d[k]
  <1>1. Len(d) \in Nat /\ i > Len(d)
    BY DEF Data
  <1>2. WriteAt(d, i, b) = [k \in 1..i |-> IF k = i THEN b
                                          ELSE IF k > Len(d) THEN Blank ELSE d[k]]
    BY <1>1 DEF WriteAt
  <1>3. ASSUME NEW k \in 1..i, k # i PROVE ~(k > Len(d))
    BY <1>1, <1>3
  <1> QED
    BY <1>2, <1>3

\* What others do to the dest is an upset, of a session that is on.
LEMMA DisturbedUpsets ==
  ASSUME NEW r \in SessionState, NEW d \in Data
  PROVE  /\ Disturbed(r).upset \/ Disturbed(r).st = "idle"
         /\ Replaced(r).upset \/ Replaced(r).st = "idle"
         /\ Overwritten(r, d).upset \/ Overwritten(r, d).st = "idle"
  <1>1. ASSUME NEW q \in SessionState PROVE Disturbed(q).upset \/ Disturbed(q).st = "idle"
    <2>1. [q EXCEPT !.upset = TRUE].upset
      BY DEF SessionState
    <2> QED
      BY <2>1 DEF Disturbed
  <1>2. [r EXCEPT !.oldLive = FALSE, !.out = FALSE] \in SessionState
        /\ (IF r.oldLive THEN [r EXCEPT !.old = d] ELSE r) \in SessionState
    BY DEF SessionState
  <1> QED
    BY <1>1, <1>2 DEF Replaced, Overwritten

\* A block among those of a content has a first place there.
LEMMA FirstPlace ==
  ASSUME NEW d \in Data, NEW b \in BlocksOf(d)
  PROVE  \E k \in 1..Len(d) : d[k] = b /\ \A j \in 1..(k - 1) : d[j] # b
  <1> DEFINE K == {k \in 1..Len(d) : d[k] = b}
  <1>1. K # {} /\ K \subseteq Nat /\ Len(d) \in Nat
    BY DEF BlocksOf, Data
  <1>2. PICK k \in K : \A j \in K : <<j, k>> \notin OpToRel(<, Nat)
    BY <1>1, NatLessThanWellFounded, WFMin
  <1>3. \A j \in K : ~(j < k)
    BY <1>1, <1>2 DEF OpToRel
  <1>4. ASSUME NEW j \in 1..(k - 1) PROVE d[j] # b
    <2>1. j \in 1..Len(d) /\ j < k
      BY <1>1
    <2> QED
      BY <1>3, <2>1
  <1> QED
    BY <1>4

(* So a block that the plan reuses is where the dest, left alone, is asked for it. *)
LEMMA CalmReuses ==
  ASSUME IInv, NEW s \in Session, CalmOK(s), ~sess[s].upset, MayWrite(s), Reuses(s)
  PROVE  CanReuse(s)
  <1> DEFINE b == sess[s].want[Next1(s)]
  <1>1. /\ sess[s].st = "open" /\ sess[s].seen = DataOf(dst) /\ sess[s].old = DataOf(dst)
        /\ sess[s].oldStat = StatNow
    BY DEF CalmOK, Planned, Begun, MayWrite
  <1>2. sess[s].seen # NoFile /\ b \in BlocksOf(sess[s].seen)
    BY DEF Reuses
  <1>3. dst # NoFile /\ dst \in File /\ sess[s].seen = dst.data
    BY <1>1, <1>2 DEF DataOf, IInv, TypeOK
  <1>4. dst.data \in Data /\ Len(dst.data) \in Nat
    BY <1>3 DEF File, Data
  <1>5. \E k \in 1..Len(dst.data) : dst.data[k] = b /\ \A j \in 1..(k - 1) : dst.data[j] # b
    BY <1>2, <1>3, <1>4, FirstPlace
  <1>6. OldOffset(s) \in 1..Len(dst.data) /\ dst.data[OldOffset(s)] = b
    BY <1>3, <1>5 DEF OldOffset
  <1>7. sess[s].oldStat = StatOf(dst) /\ sess[s].oldStat.size = Len(dst.data)
    BY <1>1, <1>3 DEF StatNow, StatOf
  <1>8. sess[s].old = dst.data
    BY <1>1, <1>3
  <1>9. OldOffset(s) <= Len(dst.data)
    BY <1>4, <1>6
  <1>10. OldBlockGood(s)
    BY <1>6, <1>7, <1>8, <1>9 DEF OldBlockGood
  <1>11. OldUnchanged(s)
    BY <1>3, <1>7 DEF OldUnchanged
  <1> QED
    BY <1>2, <1>3, <1>8, <1>10, <1>11 DEF CanReuse

(* ... and what was staged in peace is what is wanted. *)
LEMMA CalmDigest ==
  ASSUME IInv, NEW s \in Session, CalmOK(s), ~sess[s].upset,
         sess[s].st = "open", sess[s].n = Len(sess[s].want)
  PROVE  DigestMatches(s)
  <1>1. Written(s)
    BY DEF CalmOK, Begun
  <1>2. temp[s].data \in Data /\ sess[s].want \in Data
    BY DEF IInv, TypeOK, TempFile, SessionState
  <1>3. Len(temp[s].data) = Len(sess[s].want)
        /\ \A k \in 1..Len(temp[s].data) : temp[s].data[k] = sess[s].want[k]
    BY <1>1 DEF Written
  <1>4. temp[s].data = sess[s].want
    BY <1>2, <1>3, SeqEqual DEF Data
  <1> QED
    BY <1>4 DEF DigestMatches

\* A block of the version, written at its place.
LEMMA CalmPut ==
  ASSUME IInv, NEW s \in Session, CalmOK(s), MayWrite(s),
         Put(s, sess[s].want[Next1(s)], FALSE), UNCHANGED dst
  PROVE  CalmOK(s)'
  <1> DEFINE r == sess[s]
             f == temp[s]
             i == Next1(s)
             b == sess[s].want[Next1(s)]
             g == [f.data EXCEPT ![i] = b]
  <1>1. /\ r \in SessionState /\ f \in TempFile /\ r.want \in Data /\ f.data \in Data
        /\ r.n \in Nat /\ Len(r.want) \in Nat
    BY DEF IInv, TypeOK, SessionState, TempFile, Data
  <1>2. r.st = "open" /\ r.n < Len(r.want) /\ i = r.n + 1
    BY DEF MayWrite, Next1
  <1>3. i \in 1..Len(r.want) /\ i <= Len(r.want) /\ i \in Nat
    BY <1>1, <1>2
  <1>4. b \in Block \cup {Blank}
    BY <1>1, <1>3, BlockOfData
  <1> HIDE DEF b, i
  <1>5. /\ sess'[s] = [r EXCEPT !.n = i, !.upset = @ \/ FALSE]
        /\ temp'[s] = [f EXCEPT !.data = g, !.aged = FALSE]
    BY <1>1 DEF Put, IInv, TypeOK, b, i
  <1>6. /\ sess'[s].st = "open" /\ sess'[s].n = i /\ sess'[s].want = r.want /\ sess'[s].seen = r.seen
        /\ sess'[s].old = r.old /\ sess'[s].oldStat = r.oldStat
        /\ temp'[s].data = g /\ temp'[s].linked = f.linked /\ ~temp'[s].aged
    BY <1>1, <1>2, <1>5 DEF SessionState, TempFile
  <1>7. sess'[s].upset \/ ~r.upset
    BY <1>1, <1>5 DEF SessionState
  <1> SUFFICES ASSUME ~r.upset PROVE CalmOK(s)'
    BY <1>7, CalmNot
  <1>8. /\ r.seen = DataOf(dst) /\ r.old = DataOf(dst) /\ r.oldStat = StatNow /\ Written(s)
    BY <1>2 DEF CalmOK, Planned, Begun
  <1>9. Len(f.data) = Len(r.want) /\ i \in 1..Len(f.data)
    BY <1>3, <1>8 DEF Written
  <1>10. /\ Len(g) = Len(f.data)
         /\ \A j \in 1..Len(f.data) : g[j] = IF j = i THEN b ELSE f.data[j]
    BY <1>1, <1>4, <1>9, ExceptSeq DEF Data
  <1> HIDE DEF g
  <1>11. ASSUME NEW k \in 1..i PROVE g[k] = r.want[k]
    <2>1. k \in 1..Len(f.data) /\ (k = i \/ k \in 1..r.n)
      BY <1>1, <1>2, <1>3, <1>9
    <2>2. CASE k = i
      BY <1>10, <2>1, <2>2 DEF b, i
    <2>3. CASE k # i
      BY <1>8, <1>10, <2>1, <2>3 DEF Written
    <2> QED
      BY <2>2, <2>3
  <1>12. Written(s)'
    BY <1>3, <1>6, <1>8, <1>9, <1>10, <1>11 DEF Written
  <1> QED
    BY <1>6, <1>8, <1>12 DEF CalmOK, Planned, Begun, StatNow, DataOf

\* A session that fails with a cause.
LEMMA CalmFail ==
  ASSUME TypeOK, Calm, NEW s \in Session, Fail(s), sess[s].upset, UNCHANGED dst
  PROVE  Calm'
  <1> SUFFICES ASSUME NEW t \in Session PROVE CalmOK(t)'
    BY DEF Calm
  <1>1. CASE t = s
    BY <1>1, CalmNot DEF Fail, Become, TypeOK, Idle
  <1>2. CASE t # s
    BY <1>2, CalmFrame DEF Fail, Become, TypeOK, Calm
  <1> QED
    BY <1>1, <1>2

LEMMA CalmStep == IInv /\ Calm /\ [Next]_vars => Calm'
  <1> SUFFICES ASSUME IInv, Calm, [Next]_vars PROVE Calm'
    OBVIOUS
  <1>0. TypeOK /\ \A t \in Session : CalmOK(t) /\ SessionOK(t)
    BY DEF IInv, Calm
  <1>01. <<>> \in Data
    BY DEF Data
  <1>02. \A t \in Session : sess[t] \in SessionState /\ temp[t] \in TempFile
    BY <1>0 DEF TypeOK
  <1>1. ASSUME NEW s \in Session, NEW v \in Version, Plan(s, v) PROVE Calm'
    <2>1. dst' = dst
          /\ sess'[s] = [Idle EXCEPT !.st = "planned", !.want = v,
                                     !.seen = IF dst = NoFile THEN NoFile ELSE dst.data]
      BY <1>0, <1>1 DEF Plan, Become, TypeOK
    <2>2. CalmOK(s)'
      BY <2>1 DEF CalmOK, Planned, Begun, Idle, DataOf
    <2>3. ASSUME NEW t \in Session, t # s PROVE sess'[t] = sess[t] /\ temp'[t] = temp[t]
      BY <1>0, <1>1, <2>3 DEF Plan, Become, TypeOK
    <2> QED
      BY <1>0, <2>1, <2>2, <2>3, CalmFrame DEF Calm
  <1>2. ASSUME NEW s \in Session, NEW far \in {FALSE, CrossDevice}, BeginWrite(s, far) PROVE Calm'
    <2>1. /\ dst' = dst /\ sess[s].st = "planned"
          /\ temp'[s] = [NoTemp EXCEPT !.data = [i \in 1..Len(sess[s].want) |-> Blank], !.linked = TRUE]
          /\ sess'[s] = [sess[s] EXCEPT !.st = IF dst = NoFile THEN "open" ELSE "opening",
                            !.old = IF dst = NoFile THEN NoFile ELSE dst.data,
                            !.oldLive = (dst # NoFile), !.far = far]
      BY <1>0, <1>2 DEF BeginWrite, TypeOK
    <2>2. /\ sess'[s].st = IF dst = NoFile THEN "open" ELSE "opening"
          /\ sess'[s].old = DataOf(dst) /\ sess'[s].want = sess[s].want /\ sess'[s].n = sess[s].n
          /\ sess'[s].seen = sess[s].seen /\ sess'[s].oldStat = sess[s].oldStat
          /\ sess'[s].upset = sess[s].upset
      BY <1>02, <2>1 DEF SessionState, DataOf
    <2>3. CalmOK(s)'
      <3> SUFFICES ASSUME ~sess[s].upset PROVE CalmOK(s)'
        BY <2>2, CalmNot
      <3>1. sess[s].seen = DataOf(dst) /\ sess[s].oldStat = NoFile /\ sess[s].n = 0
        BY <1>0, <2>1 DEF CalmOK, Planned
      <3>2. Len(sess[s].want) \in Nat
        BY <1>02 DEF SessionState, Data
      <3>3. /\ temp'[s].linked /\ ~temp'[s].aged /\ Len(temp'[s].data) = Len(sess[s].want)
        BY <2>1, <3>2 DEF NoTemp
      <3>4. 1..0 = {} /\ 0 <= Len(sess[s].want)
        BY <3>2
      <3>5. Written(s)'
        BY <2>2, <3>1, <3>3, <3>4 DEF Written
      <3> QED
        BY <2>1, <2>2, <3>1, <3>5 DEF CalmOK, Planned, Begun, StatNow, DataOf
    <2>4. ASSUME NEW t \in Session, t # s PROVE CalmOK(t)'
      <3>1. sess'[t] = sess[t] /\ temp'[t] = Collected(temp[t])
        BY <1>0, <1>2, <2>4 DEF BeginWrite, TypeOK
      <3>2. CASE temp[t].aged
        <4>1. \/ sess[t].upset
              \/ sess[t].st \in {"idle", "planned", "installed", "failed"}
          BY <1>0, <1>02, <3>2 DEF CalmOK, Begun, Written, SessionState, States
        <4>2. CASE sess[t].upset
          BY <3>1, <4>2, CalmNot
        <4>3. CASE sess[t].st \in {"idle", "planned", "installed", "failed"}
          BY <1>0, <2>1, <3>1, <4>3, CalmFrame
        <4> QED
          BY <4>1, <4>2, <4>3
      <3>3. CASE ~temp[t].aged
        BY <1>0, <2>1, <3>1, <3>3, CalmFrame DEF Collected
      <3> QED
        BY <3>2, <3>3
    <2> QED
      BY <2>3, <2>4 DEF Calm
  <1>3. ASSUME NEW s \in Session, StatOld(s) PROVE Calm'
    <2>1. /\ dst' = dst /\ temp' = temp /\ sess[s].st = "opening"
          /\ sess'[s] = [sess[s] EXCEPT !.st = "open", !.oldStat = StatNow]
      BY <1>0, <1>3 DEF StatOld, TypeOK, StatNow
    <2>2. /\ sess'[s].st = "open" /\ sess'[s].old = sess[s].old /\ sess'[s].want = sess[s].want
          /\ sess'[s].n = sess[s].n /\ sess'[s].seen = sess[s].seen /\ sess'[s].oldStat = StatNow
          /\ sess'[s].upset = sess[s].upset
      BY <1>02, <2>1 DEF SessionState
    <2>3. CalmOK(s)'
      BY <1>0, <2>1, <2>2 DEF CalmOK, Planned, Begun, Written, StatNow, DataOf
    <2>4. ASSUME NEW t \in Session, t # s PROVE sess'[t] = sess[t]
      BY <1>0, <1>3, <2>4 DEF StatOld, TypeOK
    <2> QED
      BY <1>0, <2>1, <2>3, <2>4, CalmFrame DEF Calm
  <1>4. ASSUME NEW s \in Session, NEW b, NEW u, Put(s, b, u), NEW t \in Session, t # s
        PROVE  sess'[t] = sess[t] /\ temp'[t] = temp[t]
    BY <1>0, <1>4 DEF Put, TypeOK
  <1>5. ASSUME NEW s \in Session, WriteChunk(s) PROVE Calm'
    <2>1. dst' = dst /\ MayWrite(s)
      BY <1>5 DEF WriteChunk
    <2>2. CASE Put(s, sess[s].want[Next1(s)], FALSE)
      <3>1. CalmOK(s)'
        BY <1>0, <2>1, <2>2, CalmPut
      <3> QED
        BY <1>0, <1>4, <2>1, <2>2, <3>1, CalmFrame DEF Calm
    <2>3. CASE Put(s, Blank, TRUE)
      <3>1. sess'[s].upset
        BY <1>0, <1>02, <2>3 DEF Put, TypeOK, SessionState
      <3> QED
        BY <1>0, <1>4, <2>1, <2>3, <3>1, CalmFrame, CalmNot DEF Calm
    <2> QED
      BY <1>5, <2>2, <2>3 DEF WriteChunk
  <1>6. ASSUME NEW s \in Session, ReuseChunk(s) PROVE Calm'
    <2>1. dst' = dst /\ MayWrite(s) /\ Reuses(s)
      BY <1>6 DEF ReuseChunk
    <2>2. CASE CanReuse(s) /\ Put(s, sess[s].old[OldOffset(s)], FALSE)
      <3>1. Put(s, sess[s].want[Next1(s)], FALSE)
        BY <2>2 DEF CanReuse, OldBlockGood
      <3>2. CalmOK(s)'
        BY <1>0, <2>1, <3>1, CalmPut
      <3> QED
        BY <1>0, <1>4, <2>1, <3>1, <3>2, CalmFrame DEF Calm
    <2>3. CASE ~CanReuse(s) /\ Fail(s)
      <3>1. sess[s].upset
        BY <1>0, <2>1, <2>3, CalmReuses
      <3> QED
        BY <1>0, <2>1, <2>3, <3>1, CalmFail
    <2> QED
      BY <1>6, <2>2, <2>3 DEF ReuseChunk
  <1>7. ASSUME NEW s \in Session, Verify(s) PROVE Calm'
    <2>1. dst' = dst /\ sess[s].st = "open" /\ sess[s].n = Len(sess[s].want)
      BY <1>7 DEF Verify
    <2>2. CASE ~DigestMatches(s) /\ Fail(s)
      <3>1. sess[s].upset
        BY <1>0, <2>1, <2>2, CalmDigest
      <3> QED
        BY <1>0, <2>1, <2>2, <3>1, CalmFail
    <2>3. CASE /\ temp' = [temp EXCEPT ![s].synced = TRUE]
               /\ Become(s, [Idle EXCEPT !.st = "verified", !.want = sess[s].want,
                                         !.far = sess[s].far, !.upset = sess[s].upset])
      <3>1. /\ sess'[s].st = "verified" /\ sess'[s].upset = sess[s].upset /\ sess'[s].n = 0
            /\ temp'[s].linked = temp[s].linked /\ temp'[s].aged = temp[s].aged
        BY <1>0, <1>02, <2>3 DEF Become, TypeOK, Idle, TempFile
      <3>2. CalmOK(s)'
        BY <1>0, <2>1, <3>1 DEF CalmOK, Begun, Planned, Written
      <3>3. ASSUME NEW t \in Session, t # s PROVE sess'[t] = sess[t] /\ temp'[t] = temp[t]
        BY <1>0, <2>3, <3>3 DEF Become, TypeOK
      <3> QED
        BY <1>0, <2>1, <3>2, <3>3, CalmFrame DEF Calm
    <2> QED
      BY <1>7, <2>2, <2>3 DEF Verify
  <1>8. ASSUME NEW s \in Session, Install(s) PROVE Calm'
    <2>1. CASE ~temp[s].linked
      <3>1. sess[s].upset /\ Fail(s) /\ dst' = dst
        BY <1>0, <1>8, <2>1 DEF Install, CalmOK
      <3> QED
        BY <1>0, <3>1, CalmFail
    <2>2. CASE temp[s].linked
      <3>1. sess'[s] = [sess[s] EXCEPT !.st = "installed"]
        BY <1>8, <2>2 DEF Install
      <3>2. sess'[s].st = "installed" /\ sess'[s].want = sess[s].want
        BY <1>02, <3>1 DEF SessionState
      <3>4. dst' = [data |-> temp[s].data, mtime |-> sess[s].want, synced |-> temp[s].synced]
            /\ temp[s].data = sess[s].want /\ sess[s].want \in Version
        BY <1>0, <1>8, <2>2 DEF Install, SessionOK
      <3>5. dst' # NoFile
        <4>1. dst' \in File
          BY <1>02, <3>4 DEF File, TempFile
        <4> QED
          BY <4>1, FileIsThere
      <3>6. CalmOK(s)'
        BY <3>2, <3>4, <3>5 DEF CalmOK, Planned, Begun, Ended
      <3>3. ASSUME NEW t \in Session, t # s PROVE sess'[t].upset \/ sess'[t].st = "idle"
        BY <1>01, <1>02, <1>8, <2>2, <3>3, DisturbedUpsets DEF Install
      <3> QED
        BY <3>3, <3>6, CalmNot DEF Calm
    <2> QED
      BY <2>1, <2>2
  <1>9. ASSUME NEW s \in Session, CopyOpen(s) PROVE Calm'
    <2>1. CASE ~temp[s].linked
      <3>1. sess[s].upset /\ Fail(s) /\ dst' = dst
        BY <1>0, <1>9, <2>1 DEF CopyOpen, CalmOK
      <3> QED
        BY <1>0, <3>1, CalmFail
    <2>2. CASE temp[s].linked
      <3>1. /\ sess'[s] = [sess[s] EXCEPT !.st = "copying", !.out = TRUE] /\ sess[s].st = "verified"
            /\ dst' = [data |-> <<>>, mtime |-> Now, synced |-> FALSE] /\ temp' = temp
        BY <1>9, <2>2 DEF CopyOpen
      <3>2. /\ sess'[s].st = "copying" /\ sess'[s].upset = sess[s].upset /\ sess'[s].out
            /\ sess'[s].n = sess[s].n /\ sess'[s].want = sess[s].want /\ Len(sess[s].want) \in Nat
        BY <1>02, <3>1 DEF SessionState, Data
      <3>3. dst' # NoFile
        <4>1. \A d \in Data : [data |-> d, mtime |-> Now, synced |-> FALSE] \in File
          BY DEF File
        <4>2. dst' \in File
          BY <1>01, <3>1, <4>1
        <4> QED
          BY <4>2, FileIsThere
      <3>4. CalmOK(s)'
        <4>1. /\ dst'.data = <<>> /\ dst'.mtime = Now /\ Len(dst'.data) = 0
              /\ 1..0 = {} /\ 0 <= Len(sess[s].want)
          BY <3>1, <3>2
        <4>2. sess[s].upset \/ Copied(s)'
          BY <1>0, <3>1, <3>2, <3>3, <4>1 DEF CalmOK, Copied
        <4> QED
          BY <1>0, <3>1, <3>2, <3>3, <4>2 DEF CalmOK, Planned, Begun
      <3>5. ASSUME NEW t \in Session, t # s PROVE sess'[t].upset \/ sess'[t].st = "idle"
        BY <1>01, <1>02, <1>9, <2>2, <3>5, DisturbedUpsets DEF CopyOpen
      <3> QED
        BY <3>4, <3>5, CalmNot DEF Calm
    <2> QED
      BY <2>1, <2>2
  <1>10. ASSUME NEW s \in Session, CopyBlock(s) PROVE Calm'
    <2> DEFINE d == WriteAt(dst.data, Next1(s), temp[s].data[Next1(s)])
               own == [sess[s] EXCEPT !.n = Next1(s)]
    <2>1. sess[s].st = "copying" /\ sess[s].n < Len(sess[s].want) /\ temp' = temp
      BY <1>10 DEF CopyBlock
    <2>2. /\ own.st = "copying" /\ own.upset = sess[s].upset /\ own.want = sess[s].want
          /\ own.out = sess[s].out /\ own.n = sess[s].n + 1
      BY <1>02, <2>1 DEF SessionState, Next1
    <2>5. /\ sess[s].n \in Nat /\ Len(sess[s].want) \in Nat /\ Next1(s) = sess[s].n + 1
          /\ Next1(s) \in Nat /\ Next1(s) <= Len(sess[s].want)
          /\ temp[s].data = sess[s].want
      BY <1>0, <1>02, <2>1 DEF SessionState, Data, Next1, SessionOK
    <2>6. dst # NoFile => dst.data \in Data
      BY <1>0 DEF TypeOK, File
    <2>3. CASE sess[s].out
      <3>1. d \in Data /\ dst' \in File
        BY <1>10, <2>3, CopyBlockWrites
      <3>2. /\ sess'[s] = own /\ \A t \in Session : t # s => sess'[t] = Overwritten(sess[t], d)
            /\ dst' = [data |-> d, mtime |-> Now, synced |-> FALSE]
        BY <1>10, <2>3 DEF CopyBlock
      <3>6. ASSUME ~sess[s].upset
            PROVE  Len(d) = Next1(s) /\ \A k \in 1..Next1(s) : d[k] = sess[s].want[k]
        <4>1. Copied(s) /\ dst.data \in Data
          BY <1>0, <2>1, <2>6, <3>6 DEF CalmOK, Copied
        <4>2. Next1(s) = Len(dst.data) + 1
          BY <2>5, <4>1 DEF Copied
        <4>3. /\ Len(d) = Next1(s)
              /\ \A k \in 1..Next1(s) : d[k] = IF k = Next1(s) THEN temp[s].data[Next1(s)]
                                                               ELSE dst.data[k]
          BY <2>5, <4>1, <4>2, WriteAtEnd
        <4>4. ASSUME NEW k \in 1..Next1(s), k # Next1(s) PROVE k \in 1..sess[s].n
          BY <2>5, <4>4
        <4> HIDE DEF d
        <4> QED
          BY <2>5, <4>1, <4>3, <4>4 DEF Copied
      <3> HIDE DEF d, own
      <3>3. dst' # NoFile
        BY <3>1, FileIsThere
      <3>7. sess[s].upset \/ Copied(s)'
        BY <2>2, <2>3, <2>5, <3>2, <3>3, <3>6 DEF Copied
      <3>4. CalmOK(s)'
        BY <1>0, <2>1, <2>2, <3>2, <3>7 DEF CalmOK, Planned, Begun
      <3>5. ASSUME NEW t \in Session, t # s PROVE sess'[t].upset \/ sess'[t].st = "idle"
        BY <1>02, <3>1, <3>2, <3>5, DisturbedUpsets
      <3> QED
        BY <3>4, <3>5, CalmNot DEF Calm
    <2>4. CASE ~sess[s].out
      <3>1. dst' = dst /\ Become(s, own)
        BY <1>10, <2>4 DEF CopyBlock
      <3> HIDE DEF own
      <3>2. sess'[s] = own /\ \A t \in Session : t # s => sess'[t] = sess[t]
        BY <1>0, <3>1 DEF Become, TypeOK
      <3>3. CalmOK(s)'
        <4>1. sess[s].upset
          BY <1>0, <2>1, <2>4 DEF CalmOK, Copied
        <4> QED
          BY <2>2, <3>2, <4>1, CalmNot
      <3> QED
        BY <1>0, <2>1, <3>1, <3>2, <3>3, CalmFrame DEF Calm
    <2> QED
      BY <2>3, <2>4
  <1>11. ASSUME NEW s \in Session, CopyEnd(s) PROVE Calm'
    <2>1. sess[s].st = "copying" /\ sess[s].n = Len(sess[s].want)
      BY <1>11 DEF CopyEnd
    <2>2. CASE dst = NoFile
      <3>1. sess[s].upset /\ Fail(s) /\ dst' = dst
        BY <1>0, <1>11, <2>1, <2>2 DEF CopyEnd, CalmOK, Copied
      <3> QED
        BY <1>0, <3>1, CalmFail
    <2>3. CASE dst # NoFile
      <3>1. sess'[s] = [sess[s] EXCEPT !.st = IF temp[s].linked THEN "installed" ELSE "failed"]
            /\ \A t \in Session : t # s => sess'[t] = Disturbed(sess[t])
        BY <1>11, <2>3 DEF CopyEnd
      <3>2. sess'[s].st = (IF temp[s].linked THEN "installed" ELSE "failed")
            /\ sess'[s].upset = sess[s].upset /\ sess'[s].want = sess[s].want
        BY <1>02, <3>1 DEF SessionState
      <3>3. sess[s].upset \/ temp[s].linked
        BY <1>0, <2>1 DEF CalmOK
      <3>6. /\ dst' = [dst EXCEPT !.mtime = sess[s].want, !.synced = @ \/ sess[s].out]
            /\ dst \in File /\ dst.data \in Data /\ sess[s].want \in Data
        BY <1>0, <1>02, <1>11, <2>3 DEF CopyEnd, TypeOK, File, SessionState
      <3>7. dst'.data = dst.data /\ dst'.mtime = sess[s].want
        BY <3>6 DEF File
      <3>8. dst' # NoFile
        BY <1>0, <1>11, <2>3, CopyEndWrites, FileIsThere
      <3>9. ASSUME ~sess[s].upset PROVE dst.data = sess[s].want
        <4>1. Copied(s)
          BY <1>0, <2>1, <3>9 DEF CalmOK
        <4> QED
          BY <2>1, <3>6, <4>1, SeqEqual DEF Copied, Data
      <3>4. CalmOK(s)'
        BY <3>2, <3>3, <3>7, <3>8, <3>9, CalmNot DEF CalmOK, Planned, Begun, Ended
      <3>5. ASSUME NEW t \in Session, t # s PROVE sess'[t].upset \/ sess'[t].st = "idle"
        BY <1>01, <1>02, <3>1, <3>5, DisturbedUpsets
      <3> QED
        BY <3>4, <3>5, CalmNot DEF Calm
    <2> QED
      BY <2>2, <2>3
  <1>12. ASSUME NEW s \in Session, Finish(s) \/ Abort(s) \/ Kill(s) PROVE Calm'
    <2>1. dst' = dst /\ sess'[s] = Idle /\ \A t \in Session : t # s => sess'[t] = sess[t]
      BY <1>0, <1>12 DEF Finish, Abort, Kill, Become, TypeOK
    <2>2. \A t \in Session : t # s => temp'[t] = temp[t]
      BY <1>0, <1>12 DEF Finish, Abort, Kill, TypeOK
    <2>3. CalmOK(s)'
      BY <2>1, CalmNot DEF Idle
    <2> QED
      BY <1>0, <2>1, <2>2, <2>3, CalmFrame DEF Calm
  <1>13. ASSUME NEW s \in Session, Age(s) PROVE Calm'
    <2>1. dst' = dst /\ sess'[s] = Disturbed(sess[s]) /\ \A t \in Session : t # s => sess'[t] = sess[t]
      BY <1>0, <1>13 DEF Age, Become, TypeOK
    <2>2. \A t \in Session : t # s => temp'[t] = temp[t]
      BY <1>0, <1>13 DEF Age, TypeOK
    <2>3. CalmOK(s)'
      BY <1>01, <1>02, <2>1, DisturbedUpsets, CalmNot
    <2> QED
      BY <1>0, <2>1, <2>2, <2>3, CalmFrame DEF Calm
  <1>14. CASE Remove
    <2>1. ASSUME NEW t \in Session PROVE sess'[t].upset \/ sess'[t].st = "idle"
      BY <1>01, <1>02, <1>14, DisturbedUpsets DEF Remove
    <2> QED
      BY <2>1, CalmNot DEF Calm
  <1>15. CASE PowerFailure
    <2>1. ASSUME NEW t \in Session PROVE sess'[t].st = "idle"
      BY <1>15 DEF PowerFailure, Idle
    <2> QED
      BY <2>1, CalmNot DEF Calm
  <1>16. CASE UNCHANGED vars
    BY <1>0, <1>16, CalmFrame DEF vars, Calm
  <1> QED
    BY <1>1, <1>2, <1>3, <1>5, <1>6, <1>7, <1>8, <1>9, <1>10, <1>11, <1>12, <1>13,
       <1>14, <1>15, <1>16 DEF Next, SessionStep

LEMMA CalmInductive == Spec => []Calm
  <1>1. Init => Calm
    <2> SUFFICES ASSUME Init, NEW s \in Session PROVE CalmOK(s)
      BY DEF Calm
    <2> QED
      BY DEF Init, Idle, CalmOK, Planned, Begun
  <1> QED
    BY <1>1, CalmStep, Inductive, PTL DEF Spec

(* A session fails only if the source, the dest or its staging file was changed by
   others after its plan was made. *)
THEOREM FailuresHaveCauses == Spec => []FailureHasCause
  <1>1. Calm => FailureHasCause
    BY DEF Calm, CalmOK, FailureHasCause
  <1> QED
    BY <1>1, CalmInductive, PTL

(* No half of a copy passes for the version, and a commit that nobody interfered
   with leaves the whole version with its mtime, by rename or by copy. *)
THEOREM HalfCopiesShow == Spec => []HalfCopyShows
  <1>1. Calm => HalfCopyShows
    BY DEF Calm, CalmOK, Copied, Ended, HalfCopyShows
  <1> QED
    BY <1>1, CalmInductive, PTL
=============================================================================
