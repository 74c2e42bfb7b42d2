------------------------------ MODULE RemoteCopy ------------------------------
(***************************************************************************)
(* Copies between a client and remote helpers: the engine's workers, the   *)
(* one connection each remote end has (transport/ssh and daemon/quic.go,   *)
(* which speak the same protocol under the same mutex), and the request    *)
(* loop of daemon/helper.go at the other side of it.                       *)
(*                                                                         *)
(* A request has one reply, and OpenRead a stream of them; nothing in a    *)
(* reply names its request.  What makes them fit is the mutex: a plain     *)
(* call holds it from request to reply, a reader until its stream is       *)
(* drained, a write session until Commit or Abort has been answered.       *)
(*                                                                         *)
(* The source does not change here (FileTransfer has that).  A block names *)
(* the file it is of and its place in it.  An end that is not remote is    *)
(* the local transport, whose operations are one step and need no mutex.   *)
(***************************************************************************)
EXTENDS Naturals, Sequences, FiniteSets, SequencesExt

CONSTANTS Worker, File,
          Blocks,           \* blocks in each file
          Known,            \* places where the old dest already has the new block
          ReplyRoom,        \* replies the connection takes before a write blocks
          MaxFileAttempts,  \* Config.MaxFileAttempts
          MaxTroubles,      \* bound: errors, broken connections, cancellation
          Nobody, NoFile, NoSession

ASSUME BoundsAssumption == /\ Blocks \in Nat \ {0} /\ Known \subseteq 1..Blocks
                           /\ ReplyRoom \in Nat \ {0}
                           /\ MaxFileAttempts \in Nat \ {0} /\ MaxTroubles \in Nat
                           /\ IsFiniteSet(Worker) /\ Worker # {} /\ IsFiniteSet(File)
                           /\ Nobody \notin Worker /\ NoFile \notin File

VARIABLES
    remote,     \* the ends that are behind a connection
    link,       \* per end: up, holder (of the mutex), requests, replies, serving
    sess,       \* the helper's write session; a local dest has one per worker
    dest,       \* the files at the destination
    me,         \* the workers
    queue,      \* jobs no worker has taken yet
    result,     \* per file: "none", "ok", "failed", "skipped"
    canceled,   \* the run's context
    troubles,
    hurt        \* history: files whose own requests met an error

vars == <<remote, link, sess, dest, me, queue, result, canceled, troubles, hurt>>

Ends  == {"src", "dst"}
Slots == Worker \cup {"helper"}
Blank == <<>>               \* an unwritten block of a staging file
Stale == <<"stale">>        \* a block of the old dest the source does not have
Block == {Blank, Stale} \cup (File \X (1..Blocks))
WriteSession == [file : File, stage : [1..Blocks -> Block]]

ASSUME NoSessionAssumption == NoSession \notin WriteSession

Source(f) == [i \in 1..Blocks |-> <<f, i>>]
Old(f)    == [i \in 1..Blocks |-> IF i \in Known THEN <<f, i>> ELSE Stale]
-----------------------------------------------------------------------------
(* The workers' side of a call. *)

\* Where a worker goes when a call is answered, and when it failed; the Stat
\* of the dest, and the one before a retry, may fail.
IfOK   == [quick |-> "open1", stat1 |-> "sign", sign |-> "begin", begin |-> "open2",
           chunk |-> "read2", stat2 |-> "commit", commit |-> "over", abort |-> "over",
           restat |-> "quick"]
IfErr  == [quick |-> "open1", stat1 |-> "over", sign |-> "over", begin |-> "over",
           chunk |-> "close2", stat2 |-> "abort", commit |-> "abort", abort |-> "over",
           restat |-> "quick"]
Calls  == DOMAIN IfOK
Tolerant == {"quick", "restat", "abort"}
Unstable == {"stat1", "stat2"}
InSession == {"chunk", "commit", "abort"}     \* the session holds the mutex already

EndOf(l) == IF l \in {"open1", "read1", "close1", "stat1", "open2", "read2", "close2",
                      "stat2", "restat"}
            THEN "src" ELSE "dst"

Op(w) == LET l == me[w].pc IN
    CASE l \in {"quick", "stat1", "stat2", "restat"} -> "Stat"
      [] l \in {"open1", "read1", "close1", "open2", "read2", "close2"} -> "OpenRead"
      [] l = "sign"   -> "GetSig"
      [] l = "begin"  -> "BeginWrite"
      [] l = "chunk"  -> IF Last(me[w].got) \in {Source(me[w].job)[i] : i \in Known}
                         THEN "ReuseChunk" ELSE "WriteChunk"
      [] l = "commit" -> "Commit"
      [] l = "abort"  -> "Abort"

AnswerTo(op) == CASE op = "Stat"   -> "StatOK"
                  [] op = "GetSig" -> "SigOK"
                  [] OTHER         -> "OK"

Request(w) ==
    [op |-> Op(w), file |-> me[w].job, at |-> Len(me[w].got),
     block |-> IF me[w].pc = "chunk" THEN Last(me[w].got) ELSE Blank,
     sig |-> IF me[w].pc = "commit" THEN me[w].sig ELSE <<>>]

\* Mutant of Keeps: an aborted session never gives the mutex back.
KeepsForEver(l, ok) == \/ l = "begin" /\ ok
                       \/ l \in {"chunk", "abort"}
                       \/ l = "commit" /\ ~ok

\* Whether the mutex stays with the worker when its call is over.
Keeps(l, ok) == \/ l = "begin" /\ ok
                \/ l = "chunk"
                \/ l = "commit" /\ ~ok

Answered(w, ok) ==
    LET l == me[w].pc IN
    [me[w] EXCEPT !.waiting = FALSE,
                  !.pc = IF ok THEN IfOK[l] ELSE IfErr[l],
                  !.bad = IF ok \/ l \in Tolerant THEN @
                          ELSE IF l \in Unstable THEN "unstable" ELSE "plain"]

(* protocol.WriteJSON.  On a connection that is gone the request goes nowhere,
   and the reply will not come. *)
Sent(e, q) == IF link[e].up THEN Append(link[e].requests, q) ELSE link[e].requests

Ask(w) ==
    LET e == EndOf(me[w].pc) IN
    /\ me[w].pc \in Calls /\ ~me[w].waiting
    /\ e \in remote
    /\ link[e].holder = IF me[w].pc \in InSession THEN w ELSE Nobody
    /\ me[w].pc = "chunk" => ~canceled
    /\ link' = [link EXCEPT ![e].holder = w, ![e].requests = Sent(e, Request(w))]
    /\ me' = [me EXCEPT ![w].waiting = TRUE]
    /\ UNCHANGED <<remote, sess, dest, queue, result, canceled, troubles, hurt>>

\* Mutant of Good: only MsgErr is an error.
NoError(w, in) == in = <<>> \/ Head(in).typ # "Err"

\* expectOK and its like: any other answer than the expected one is an error,
\* and so is none.
Good(w, in) == in # <<>> /\ Head(in).typ = AnswerTo(Op(w))

Hear(w) ==
    LET e  == EndOf(me[w].pc)
        ok == Good(w, link[e].replies)
    IN
    /\ me[w].waiting
    /\ link[e].replies # <<>> \/ ~link[e].up
    /\ link' = [link EXCEPT
                  ![e].replies = IF @ = <<>> THEN @ ELSE Tail(@),
                  ![e].holder = IF Keeps(me[w].pc, ok) THEN w ELSE Nobody]
    /\ me' = [me EXCEPT ![w] = Answered(w, ok)]
    /\ UNCHANGED <<remote, sess, dest, queue, result, canceled, troubles, hurt>>
-----------------------------------------------------------------------------
(* What a write session does with a request: the helper's loop, and the local
   transport the same way.  "Err" is an error the code finds by itself. *)
Trouble == troubles < MaxTroubles /\ troubles' = troubles + 1

Outcome(typ, session, file, data) ==
    [typ |-> typ, sess |-> session, dest |-> [dest EXCEPT ![file] = data]]

Done(s, q) ==
    LET active == sess[s] # NoSession
        same == dest[q.file]
        old  == dest[q.file][q.at]
        put(block) == [sess[s] EXCEPT !.stage[q.at] = block]
    IN
    CASE q.op \in {"Stat", "GetSig"} -> Outcome(AnswerTo(q.op), sess[s], q.file, same)
      [] q.op = "Abort" -> Outcome("OK", NoSession, q.file, same)
      [] q.op = "BeginWrite" /\ ~active ->
           Outcome("OK", [file |-> q.file, stage |-> [i \in 1..Blocks |-> Blank]], q.file, same)
      [] q.op = "BeginWrite" /\ active -> Outcome("Err", sess[s], q.file, same)
      [] q.op = "WriteChunk" /\ active /\ q.at \in 1..Blocks ->
           Outcome("OK", put(q.block), q.file, same)
      [] q.op = "ReuseChunk" /\ active /\ q.at \in 1..Blocks /\ old = q.block ->
           Outcome("OK", put(old), q.file, same)
      [] q.op = "Commit" /\ active /\ sess[s].stage = q.sig ->
           Outcome("OK", NoSession, sess[s].file, q.sig)
      [] OTHER -> Outcome("Err", NoSession, q.file, same)

\* An error of the file system behind it; BeginWrite then has no session yet.
Refused(s, q) ==
    Outcome("Err", IF q.op \in {"WriteChunk", "ReuseChunk", "Commit"} THEN NoSession
                   ELSE sess[s], q.file, dest[q.file])

\* Does q in slot s; r is what came of it.
Does(s, q, r) ==
    /\ \/ r = Done(s, q) /\ UNCHANGED <<troubles, hurt>>
       \/ /\ q.op # "Abort" /\ r = Refused(s, q)
          /\ Trouble /\ hurt' = hurt \cup {q.file}
    /\ dest' = r.dest

Results(s, q) == {Done(s, q), Refused(s, q)}

\* A call of the local transport.
LocalCall(w) ==
    /\ me[w].pc \in Calls /\ EndOf(me[w].pc) \notin remote
    /\ me[w].pc = "chunk" => ~canceled
    /\ \E r \in Results(w, Request(w)) :
         /\ Does(w, Request(w), r)
         /\ sess' = [sess EXCEPT ![w] = r.sess]
         /\ me' = [me EXCEPT ![w] = Answered(w, r.typ = AnswerTo(Op(w)))]
    /\ UNCHANGED <<remote, link, queue, result, canceled>>
-----------------------------------------------------------------------------
(* Readers. *)
\* Mutant of OnFailure: the session is not aborted.
NoAbort == [open1 |-> "over", close1 |-> "over", open2 |-> "over", close2 |-> "over"]

\* An attempt that fails aborts its session, if it has one (deferred).
OnFailure == [open1 |-> "over", close1 |-> "over", open2 |-> "abort", close2 |-> "abort"]
Opening == [open1 |-> "read1", open2 |-> "read2"]
Closing == [read1 |-> "close1", read2 |-> "close2"]

\* OpenRead returns once the request is written; a local one may fail at once.
OpenRead(w) ==
    LET l == me[w].pc IN
    /\ l \in DOMAIN Opening
    /\ \/ /\ "src" \in remote /\ link["src"].holder = Nobody
          /\ link' = [link EXCEPT !["src"].holder = w,
                                  !["src"].requests = Sent("src", Request(w))]
          /\ me' = [me EXCEPT ![w].pc = Opening[l], ![w].got = <<>>, ![w].eof = FALSE]
          /\ UNCHANGED <<troubles, hurt>>
       \/ /\ "src" \notin remote
          /\ me' = [me EXCEPT ![w].pc = Opening[l], ![w].got = <<>>, ![w].eof = FALSE]
          /\ UNCHANGED <<link, troubles, hurt>>
       \/ /\ "src" \notin remote /\ Trouble /\ hurt' = hurt \cup {me[w].job}
          /\ me' = [me EXCEPT ![w].pc = OnFailure[l], ![w].bad = "plain"]
          /\ UNCHANGED link
    /\ UNCHANGED <<remote, sess, dest, queue, result, canceled>>

\* One Read of streamChunks: a block (which pass 2 passes on), the end, with
\* its check of the size, or an error.
Took(w, block) == [me[w] EXCEPT !.got = Append(@, block),
                                !.pc = IF @ = "read2" THEN "chunk" ELSE @]
Ended(w) == [me[w] EXCEPT !.eof = TRUE, !.pc = Closing[@],
                          !.bad = IF Len(me[w].got) = Blocks THEN @ ELSE "plain"]
Broke(w, eof) == [me[w] EXCEPT !.eof = eof, !.pc = Closing[@], !.bad = "plain"]

Read(w) ==
    LET in == link["src"].replies IN
    /\ me[w].pc \in DOMAIN Closing
    /\ \/ /\ "src" \in remote /\ in # <<>>
          /\ me' = [me EXCEPT ![w] = CASE Head(in).typ = "ReadData" -> Took(w, Head(in).block)
                                       [] Head(in).typ = "OK"       -> Ended(w)
                                       [] OTHER                     -> Broke(w, TRUE)]
          /\ link' = [link EXCEPT !["src"].replies = Tail(@)]
       \/ /\ "src" \in remote /\ in = <<>> /\ ~link["src"].up
          /\ me' = [me EXCEPT ![w] = Broke(w, FALSE)]
          /\ UNCHANGED link
       \/ /\ "src" \notin remote
          /\ me' = [me EXCEPT ![w] = IF Len(me[w].got) < Blocks
                                     THEN Took(w, Source(me[w].job)[Len(me[w].got) + 1])
                                     ELSE Ended(w)]
          /\ UNCHANGED link
    /\ UNCHANGED <<remote, sess, dest, queue, result, canceled, troubles, hurt>>

\* Mutant of Drained: the reader is closed with its stream half read.
NeverDrained(w) == TRUE

\* Close reads on to the end of the stream before it lets go of the mutex.
Drained(w) == \/ "src" \notin remote \/ me[w].eof
              \/ link["src"].replies = <<>> /\ ~link["src"].up

Drain(w) ==
    LET typ == Head(link["src"].replies).typ IN
    /\ me[w].pc \in {"close1", "close2"} /\ ~Drained(w)
    /\ link["src"].replies # <<>>
    /\ me' = [me EXCEPT ![w].eof = (typ # "ReadData")]
    /\ link' = [link EXCEPT !["src"].replies = Tail(@)]
    /\ UNCHANGED <<remote, sess, dest, queue, result, canceled, troubles, hurt>>

\* After pass 1 the digest of what was read is the file's; after pass 2 the two
\* have to be the same.
Close(w) ==
    LET l == me[w].pc IN
    /\ l \in {"close1", "close2"} /\ Drained(w)
    /\ link' = IF "src" \in remote THEN [link EXCEPT !["src"].holder = Nobody] ELSE link
    /\ me' = [me EXCEPT
         ![w].pc  = IF me[w].bad = "no" /\ (l = "close2" => me[w].got = me[w].sig)
                    THEN (IF l = "close1" THEN "stat1" ELSE "stat2")
                    ELSE OnFailure[l],
         ![w].bad = IF @ = "no" /\ l = "close2" /\ me[w].got # me[w].sig
                    THEN "unstable" ELSE @,
         ![w].sig = IF l = "close1" THEN me[w].got ELSE @]
    /\ UNCHANGED <<remote, sess, dest, queue, result, canceled, troubles, hurt>>

\* The callback of pass 2 looks at the context before it passes a block on.
NoticeCancel(w) ==
    /\ me[w].pc = "chunk" /\ ~me[w].waiting /\ canceled
    /\ me' = [me EXCEPT ![w].pc = "close2", ![w].bad = "plain"]
    /\ UNCHANGED <<remote, link, sess, dest, queue, result, canceled, troubles, hurt>>
-----------------------------------------------------------------------------
(* transferOne and the workers' loop in Run. *)
Idle == [pc |-> "idle", waiting |-> FALSE, job |-> NoFile, got |-> <<>>, sig |-> <<>>,
         eof |-> FALSE, bad |-> "no", tries |-> 1]

\* A remote dest does not multiplex, and then there is one worker.
Crew == IF "dst" \in remote THEN {CHOOSE w \in Worker : TRUE} ELSE Worker

Take(w) ==
    /\ w \in Crew /\ me[w].pc = "idle" /\ queue # <<>>
    /\ queue' = Tail(queue)
    /\ \/ /\ canceled /\ result' = [result EXCEPT ![Head(queue)] = "skipped"]
          /\ UNCHANGED me
       \/ /\ ~canceled /\ UNCHANGED result
          /\ me' = [me EXCEPT ![w] = [Idle EXCEPT !.pc = "quick", !.job = Head(queue)]]
    /\ UNCHANGED <<remote, link, sess, dest, canceled, troubles, hurt>>

\* Mutant of Retries: one attempt too many.
RetriesOnceMore(w) == me[w].bad = "unstable" /\ me[w].tries <= MaxFileAttempts /\ ~canceled

Retries(w) == me[w].bad = "unstable" /\ me[w].tries < MaxFileAttempts /\ ~canceled

Finish(w) ==
    /\ me[w].pc = "over"
    /\ \/ /\ Retries(w) /\ UNCHANGED result
          /\ me' = [me EXCEPT ![w] = [Idle EXCEPT !.pc = "restat", !.job = me[w].job,
                                                  !.tries = me[w].tries + 1]]
       \/ /\ ~Retries(w) /\ me' = [me EXCEPT ![w] = Idle]
          /\ result' = [result EXCEPT ![me[w].job] =
                          IF me[w].bad = "no" THEN "ok" ELSE "failed"]
    /\ UNCHANGED <<remote, link, sess, dest, queue, canceled, troubles, hurt>>

\* Run returns and closes both transports: Bye, or the end of the stream.
HangUp(e) ==
    /\ e \in remote /\ link[e].up
    /\ queue = <<>> /\ \A w \in Worker : me[w].pc = "idle"
    /\ link' = [link EXCEPT ![e].up = FALSE, ![e].replies = <<>>]
    /\ UNCHANGED <<remote, sess, dest, me, queue, result, canceled, troubles, hurt>>
-----------------------------------------------------------------------------
(* The helper.  serving says where its loop is: "ready" for a request, "gone",
   or sending the file of an OpenRead. *)
Ready == [op |-> "ready", file |-> NoFile, at |-> 0]
Gone  == [op |-> "gone", file |-> NoFile, at |-> 0]
Room(e) == Len(link[e].replies) < ReplyRoom
Reply(q, typ, block) == [typ |-> typ, block |-> block, op |-> q.op, file |-> q.file]
Replied(e, r) == IF link[e].up THEN Append(link[e].replies, r) ELSE link[e].replies

\* A reply that cannot be written ends the loop, and with it the session.
StaysUp(e) == IF link[e].up THEN Ready ELSE Gone

Serve(e) ==
    LET q == Head(link[e].requests) IN
    /\ link[e].serving = Ready /\ link[e].requests # <<>> /\ q.op # "OpenRead"
    /\ link[e].up => Room(e)
    /\ \E r \in Results("helper", q) :
         /\ Does("helper", q, r)
         /\ sess' = [sess EXCEPT !["helper"] = IF e = "dst" /\ ~link[e].up THEN NoSession
                                               ELSE r.sess]
         /\ link' = [link EXCEPT ![e].requests = Tail(@),
                                 ![e].replies = Replied(e, Reply(q, r.typ, Blank)),
                                 ![e].serving = StaysUp(e)]
    /\ UNCHANGED <<remote, me, queue, result, canceled>>

ServeOpenRead(e) ==
    LET q == Head(link[e].requests) IN
    /\ link[e].serving = Ready /\ link[e].requests # <<>> /\ q.op = "OpenRead"
    /\ link' = [link EXCEPT ![e].requests = Tail(@),
                            ![e].serving = [op |-> q.op, file |-> q.file, at |-> 0]]
    /\ UNCHANGED <<remote, sess, dest, me, queue, result, canceled, troubles, hurt>>

\* Mutant of LastReplies: MsgOK after MsgErr.
ErrThenOK(q, typ) == IF typ = "Err" THEN <<Reply(q, "Err", Blank), Reply(q, "OK", Blank)>>
                     ELSE <<Reply(q, typ, Blank)>>

\* How a stream ends: "do not send MsgOK after MsgErr".
LastReplies(q, typ) == <<Reply(q, typ, Blank)>>

\* The file's blocks, then OK; or Err, at the open as at any read.
Stream(e) ==
    LET s == link[e].serving IN
    /\ s \notin {Ready, Gone}
    /\ \/ /\ link[e].up /\ Room(e) /\ s.at < Blocks
          /\ link' = [link EXCEPT
               ![e].serving.at = s.at + 1,
               ![e].replies = Append(@, Reply(s, "ReadData", Source(s.file)[s.at + 1]))]
          /\ UNCHANGED <<troubles, hurt>>
       \/ /\ link[e].up /\ Room(e) /\ s.at = Blocks
          /\ link' = [link EXCEPT ![e].serving = Ready,
                                  ![e].replies = @ \o LastReplies(s, "OK")]
          /\ UNCHANGED <<troubles, hurt>>
       \/ /\ link[e].up /\ Room(e)
          /\ Trouble /\ hurt' = hurt \cup {s.file}
          /\ link' = [link EXCEPT ![e].serving = Ready,
                                  ![e].replies = @ \o LastReplies(s, "Err")]
       \/ /\ ~link[e].up
          /\ link' = [link EXCEPT ![e].serving = Gone]
          /\ UNCHANGED <<troubles, hurt>>
    /\ UNCHANGED <<remote, sess, dest, me, queue, result, canceled>>

\* ReadMsg fails: the loop returns, and the deferred Abort ends the session.
ReadEOF(e) ==
    /\ link[e].serving = Ready /\ link[e].requests = <<>> /\ ~link[e].up
    /\ link' = [link EXCEPT ![e].serving = Gone]
    /\ sess' = IF e = "dst" THEN [sess EXCEPT !["helper"] = NoSession] ELSE sess
    /\ UNCHANGED <<remote, dest, me, queue, result, canceled, troubles, hurt>>
-----------------------------------------------------------------------------
\* The connection breaks: replies on the way are lost from some point on, and a
\* request on the way still arrives, or not.  Or the helper itself is killed.
Break(e) ==
    /\ e \in remote /\ link[e].up /\ Trouble
    /\ \E n \in 0..Len(link[e].replies) :
         \/ /\ \E left \in {link[e].requests, <<>>} :
                 link' = [link EXCEPT ![e].up = FALSE, ![e].requests = left,
                                      ![e].replies = SubSeq(@, 1, n)]
            /\ UNCHANGED sess
         \/ /\ link' = [link EXCEPT ![e].up = FALSE, ![e].requests = <<>>,
                                    ![e].replies = SubSeq(@, 1, n), ![e].serving = Gone]
            /\ sess' = IF e = "dst" THEN [sess EXCEPT !["helper"] = NoSession] ELSE sess
    /\ hurt' = File       \* this connection is not made again
    /\ UNCHANGED <<remote, dest, me, queue, result, canceled>>

Cancel ==
    /\ ~canceled /\ Trouble
    /\ canceled' = TRUE
    /\ UNCHANGED <<remote, link, sess, dest, me, queue, result, hurt>>

WorkerStep(w) == \/ Take(w) \/ Ask(w) \/ Hear(w) \/ LocalCall(w) \/ OpenRead(w) \/ Read(w)
                 \/ Drain(w) \/ Close(w) \/ NoticeCancel(w) \/ Finish(w)
HelperStep(e) == Serve(e) \/ ServeOpenRead(e) \/ Stream(e) \/ ReadEOF(e)

Init ==
    /\ remote \in SUBSET Ends \ {{}}
    /\ link = [e \in Ends |-> [up |-> TRUE, holder |-> Nobody, requests |-> <<>>,
                               replies |-> <<>>, serving |-> Ready]]
    /\ sess = [s \in Slots |-> NoSession]
    /\ dest = [f \in File |-> Old(f)]
    /\ me = [w \in Worker |-> Idle]
    /\ queue \in SetToSeqs(File)
    /\ result = [f \in File |-> "none"]
    /\ canceled = FALSE /\ troubles = 0 /\ hurt = {}

Next == \/ \E w \in Worker : WorkerStep(w)
        \/ \E e \in Ends : HelperStep(e) \/ HangUp(e) \/ Break(e)
        \/ Cancel

Spec == Init /\ [][Next]_vars

\* Workers and helpers run on; sync.Mutex hands itself over to a waiter that
\* has waited long, so that a worker's wait for it ends when others release it.
FairSpec == /\ Spec
            /\ \A w \in Worker : WF_vars(WorkerStep(w))
            /\ \A e \in Ends : WF_vars(HelperStep(e)) /\ WF_vars(HangUp(e))
-----------------------------------------------------------------------------
(* Type invariant of the state above. *)
TypeOK ==
    /\ remote \subseteq Ends /\ result \in [File -> {"none", "ok", "failed", "skipped"}]
    /\ \A e \in Ends :
         /\ link[e].up \in BOOLEAN /\ link[e].holder \in Worker \cup {Nobody}
         /\ Len(link[e].requests) <= 1 /\ Len(link[e].replies) <= ReplyRoom
    /\ \A f \in File : \A i \in 1..Blocks : dest[f][i] \in {<<f, i>>, Stale}
    /\ sess \in [Slots -> WriteSession \cup {NoSession}]
    /\ \A w \in Worker :
         /\ me[w].pc \in Calls \cup DOMAIN Opening \cup DOMAIN Closing
                           \cup {"idle", "close1", "close2", "over"}
         /\ me[w].job \in File \cup {NoFile} /\ Len(me[w].got) <= Blocks
         /\ me[w].bad \in {"no", "plain", "unstable"} /\ me[w].tries \in 1..MaxFileAttempts
    /\ canceled \in BOOLEAN /\ troubles \in 0..MaxTroubles /\ hurt \subseteq File

(* Replies carry no name of their request, so they have to stay in step: what
   is on the way to the client always answers the one call that holds the
   mutex, whatever calls failed, were cut short or canceled before. *)
RepliesInStep ==
    \A e \in remote : \A i \in 1..Len(link[e].replies) :
        LET w == link[e].holder IN
        link[e].up =>
            /\ w \in Worker
            /\ EndOf(me[w].pc) = e \/ (e = "src" /\ me[w].pc = "chunk")
            /\ \/ link[e].replies[i].op = Op(w)
               \/ me[w].pc = "chunk" /\ link[e].replies[i].op = "OpenRead"
            /\ link[e].replies[i].file = me[w].job

(* The helper's one write session is that of the file whose worker holds the
   mutex: once a client lets go of it, after success, failure or cancellation,
   no session is left for the next file to meet. *)
SessionHasOwner ==
    "dst" \in remote /\ link["dst"].up /\ sess["helper"] # NoSession =>
        /\ link["dst"].holder \in Worker
        /\ me[link["dst"].holder].job = sess["helper"].file

(* A file fails for an error of its own requests, a broken connection or a
   canceled run; never for what an earlier file left in the connection. *)
FailureHasCause == \A f \in File : result[f] = "failed" => f \in hurt \/ canceled

(* Liveness: every file gets a result, both helpers end without a session, and
   nobody is left holding a mutex; workers that wait for the source while they
   hold the destination never wait for each other. *)
RunEnds ==
    <>[](/\ \A f \in File : result[f] # "none"
         /\ \A s \in Slots : sess[s] = NoSession
         /\ \A e \in remote : link[e].serving = Gone /\ link[e].holder = Nobody)

Progress == [f \in File |->
    IF result[f] \in {"ok", "failed"} THEN result[f]
    ELSE IF \E w \in Worker : me[w].job = f THEN "open" ELSE "idle"]
Staged == INSTANCE StagedWrite WITH
    Session <- File, PathOf <- [f \in File |-> f], WantedBy <- [f \in File |-> Source(f)],
    Foreign <- {}, object <- dest, state <- Progress,
    installed <- {f \in File : dest[f] = Source(f)}

(* What StagedWrite asks of a write session holds across the connection, its
   losses included. *)
ImplementsStagedWrite == Staged!Spec
=============================================================================
