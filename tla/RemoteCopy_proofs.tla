--------------------------- MODULE RemoteCopy_proofs ---------------------------
(***************************************************************************)
(* Proofs about RemoteCopy, for any workers, files, blocks, room for       *)
(* replies, attempts and troubles: types, that replies stay in step, that  *)
(* sessions have owners, that failures have causes, and the refinement of  *)
(* StagedWrite.                                                            *)
(*                                                                         *)
(* IInv says for each end what its connection carries, depending on what   *)
(* the holder of the mutex is about (Talks), and for each worker what the  *)
(* write session it is going to meet is (Sessions).  A step of a worker is *)
(* shown by WorkerFrame, one of a helper by HelperFrame, and one that only *)
(* takes a connection down by DownFrame.                                   *)
(***************************************************************************)
EXTENDS RemoteCopy, FiniteSetTheorems, TLAPS

Ops == {"Stat", "OpenRead", "GetSig", "BeginWrite", "WriteChunk", "ReuseChunk", "Commit", "Abort"}
Req == [op : Ops, file : File, at : Nat, block : Block, sig : Seq(Block)]
Rep == [typ : {"StatOK", "SigOK", "OK", "Err", "ReadData"}, block : Block, op : Ops, file : File]
Serving == {Ready, Gone} \cup [op : {"OpenRead"}, file : File, at : 0..Blocks]
Link == [up : BOOLEAN, holder : Worker \cup {Nobody}, requests : Seq(Req), replies : Seq(Rep),
         serving : Serving]

Reads  == {"read1", "close1", "read2", "chunk", "close2"}
Writes == {"open2", "read2", "chunk", "close2", "stat2", "commit", "abort"}
Places == Calls \cup Reads \cup {"idle", "open1", "open2", "over"}
Me == [pc : Places, waiting : BOOLEAN, job : File \cup {NoFile}, got : Seq(Block),
       sig : Seq(Block), eof : BOOLEAN, bad : {"no", "plain", "unstable"},
       tries : 1..MaxFileAttempts]

(* The inductive invariant. *)
Types ==
    /\ remote \in SUBSET Ends /\ link \in [Ends -> Link]
    /\ sess \in [Slots -> WriteSession \cup {NoSession}]
    /\ dest \in [File -> [1..Blocks -> Block]]
    /\ me \in [Worker -> Me] /\ queue \in Seq(File)
    /\ result \in [File -> {"none", "ok", "failed", "skipped"}]
    /\ canceled \in BOOLEAN /\ troubles \in 0..MaxTroubles /\ hurt \in SUBSET File

(* Every file is in the queue, with one worker, or has its result; or a
   canceled run left it out. *)
Jobs ==
    /\ \A v, w \in Worker : me[v].job \in File /\ me[v].job = me[w].job => v = w
    /\ \A i, j \in 1..Len(queue) : queue[i] = queue[j] => i = j
    /\ \A i \in 1..Len(queue) : result[queue[i]] = "none" /\ \A w \in Worker : me[w].job # queue[i]
    /\ \A w \in Worker : me[w].job \in File => result[me[w].job] = "none"

(* What a worker knows of its file, wherever the ends are. *)
Upto(f, s) == Len(s) <= Blocks /\ \A i \in 1..Len(s) : s[i] = <<f, i>>
WorkerOK(w) ==
    LET m == me[w] IN
    /\ m.pc = "idle" => m = Idle
    /\ m.pc # "idle" => m.job \in File /\ w \in Crew
    /\ m.waiting => m.pc \in Calls /\ EndOf(m.pc) \in remote
    /\ m.pc \in {"read1", "read2", "chunk"} => ~m.eof
    /\ m.pc \in Reads \cup {"stat2", "commit"} => Upto(m.job, m.got)
    /\ m.pc = "chunk" => m.got # <<>>
    /\ m.bad # "no" => m.pc \in {"close1", "close2", "abort", "over"}
                       /\ (m.job \in hurt \/ canceled)
    /\ m.bad = "no" => m.pc # "abort"
    /\ m.pc \in {"close1", "close2", "stat2", "commit"} /\ m.bad = "no" => Len(m.got) = Blocks
    /\ m.pc \in (Writes \ {"abort"}) \cup {"stat1", "sign", "begin"} => m.sig = Source(m.job)
    /\ m.pc = "over" /\ m.bad = "no" => dest[m.job] = Source(m.job)
Workers == \A w \in Worker : WorkerOK(w)

(* Who holds the mutex of an end, and in which state its connection then is. *)
Calling(w, e) == me[w].waiting /\ EndOf(me[w].pc) = e
Reading(w)    == "src" \in remote /\ me[w].pc \in Reads
Writing(w)    == "dst" \in remote /\ me[w].pc \in Writes
Holds(w, e)   == Calling(w, e) \/ (e = "src" /\ Reading(w)) \/ (e = "dst" /\ Writing(w))
Holders == \A e \in Ends : \A w \in Worker : link[e].holder = w <=> Holds(w, e)

Awake(e) == link[e].requests = <<>> /\ link[e].serving = Ready
Quiet(e) == link[e].replies = <<>> /\ (link[e].up => Awake(e))

\* The request is on its way, or its answer is, or the connection is lost.
InCall(w, e) ==
    LET in == link[e].replies IN
    \/ in = <<>> /\ (link[e].up => link[e].requests = <<Request(w)>> /\ link[e].serving = Ready)
    \/ /\ Len(in) = 1 /\ (link[e].up => Awake(e))
       /\ in[1].op = Op(w) /\ in[1].file = me[w].job
       /\ in[1].typ \in {AnswerTo(Op(w)), "Err"}
       /\ in[1].typ = "Err" => me[w].job \in hurt
       /\ in[1].typ = "OK" /\ me[w].pc = "commit" => dest[me[w].job] = Source(me[w].job)

\* What is left of a stream: its data in order, then one reply that ends it.  A
\* worker m that has stopped reading (closed) only knows that it has an end.
Closed(m) == m.pc \in {"close1", "close2"}
Follows(m, r, i, h) ==
    LET at == Len(m.got) + i IN
    CASE r.typ = "ReadData" -> at <= Blocks /\ r.block = <<m.job, at>>
      [] r.typ = "OK"       -> at = Blocks + 1
      [] OTHER              -> m.job \in h
InOrder(m, in, h) ==
    \A i \in 1..Len(in) : /\ in[i].op = "OpenRead" /\ in[i].file = m.job
                          /\ in[i].typ \in {"ReadData", "OK", "Err"}
                          /\ in[i].typ # "ReadData" => i = Len(in)
                          /\ ~Closed(m) => Follows(m, in[i], i, h)
\* The helper has not started on it, is sending, or has sent all of it.
Unserved(m, l) == /\ Len(l.requests) = 1 /\ l.serving = Ready /\ l.replies = <<>>
                  /\ l.requests[1].op = "OpenRead" /\ l.requests[1].file = m.job
                  /\ ~Closed(m) => m.got = <<>>
Sending(m, l) == /\ l.requests = <<>> /\ l.serving \notin {Ready, Gone} /\ l.serving.file = m.job
                 /\ \A i \in 1..Len(l.replies) : l.replies[i].typ = "ReadData"
                 /\ ~Closed(m) => l.serving.at = Len(m.got) + Len(l.replies)
AllSent(l) == /\ l.requests = <<>> /\ l.serving = Ready /\ l.replies # <<>>
              /\ l.replies[Len(l.replies)].typ # "ReadData"
Streams(m, l, h) == /\ InOrder(m, l.replies, h)
                    /\ l.up => Unserved(m, l) \/ Sending(m, l) \/ AllSent(l)
InStream(w) == Streams(me[w], link["src"], hurt)

Conv(w, e) == IF Calling(w, e) THEN InCall(w, e)
              ELSE IF e = "src" /\ ~me[w].eof THEN InStream(w)
              ELSE Quiet(e)
Talk(e) == /\ link[e].holder = Nobody => Quiet(e)
           /\ \A w \in Worker : link[e].holder = w => Conv(w, e)
Talks == \A e \in Ends : Talk(e)

(* What a request may be, also one that outlives its worker's interest in it. *)
Begun(f) == \/ \E w \in Worker : me[w].job = f
            \/ result[f] = "failed" \/ dest[f] = Source(f)
RequestOK(e, q) ==
    /\ e = "src" => q.op \in {"Stat", "OpenRead"}
    /\ e = "dst" => /\ q.op # "OpenRead"
                    /\ q.op = "Commit" => q.sig = Source(q.file)
                    /\ sess["helper"] # NoSession => sess["helper"].file = q.file
                    /\ Begun(q.file)
Limits(e) == /\ Len(link[e].requests) <= 1 /\ Len(link[e].replies) <= ReplyRoom
             /\ \A i \in 1..Len(link[e].requests) : RequestOK(e, link[e].requests[i])
Requests == \A e \in Ends : Limits(e)

(* The write session a worker's calls meet: before a call, and after it. *)
Slot(w) == IF "dst" \in remote THEN "helper" ELSE w
Held(f, n) == [file |-> f, stage |-> [i \in 1..Blocks |-> IF i <= n THEN <<f, i>> ELSE Blank]]
Written(m) == CASE m.pc = "open2" -> 0
                [] m.pc = "chunk" -> Len(m.got) - 1
                [] OTHER          -> Len(m.got)
Before(m, x) == IF m.pc \notin Writes THEN x = NoSession
                ELSE IF m.bad = "no" THEN x = Held(m.job, Written(m))
                ELSE x = NoSession \/ x.file = m.job
After(m, typ, x) == IF typ = "OK" /\ m.pc = "begin" THEN x = Held(m.job, 0)
                    ELSE IF typ = "OK" /\ m.pc = "chunk" THEN x = Held(m.job, Len(m.got))
                    ELSE x = NoSession
Session(w) ==
    IF Calling(w, "dst") /\ link["dst"].replies # <<>>
    THEN After(me[w], link["dst"].replies[1].typ, sess[Slot(w)])
    ELSE Before(me[w], sess[Slot(w)])
Sessions ==
    /\ ("dst" \in remote => link["dst"].up) => \A w \in Crew : Session(w)
    /\ \A s \in Slots : sess[s] # NoSession => Begun(sess[s].file)

(* The files; and when a connection is lost. *)
Files == \A f \in File : dest[f] \in {Old(f), Source(f)}
Lost == \A e \in Ends : /\ e \notin remote => link[e].up /\ link[e].holder = Nobody
                        /\ ~link[e].up => \/ hurt = File
                                          \/ queue = <<>> /\ \A w \in Worker : me[w].pc = "idle"

IInv == Types /\ Jobs /\ Workers /\ Holders /\ Talks /\ Requests /\ Sessions /\ Files /\ Lost
        /\ FailureHasCause
-----------------------------------------------------------------------------
LEMMA Routes ==
  /\ Calls = {"quick", "stat1", "sign", "begin", "chunk", "stat2", "commit", "abort", "restat"}
  /\ DOMAIN Opening = {"open1", "open2"} /\ DOMAIN Closing = {"read1", "read2"}
  /\ IfOK["quick"] = "open1" /\ IfOK["stat1"] = "sign" /\ IfOK["sign"] = "begin"
  /\ IfOK["begin"] = "open2" /\ IfOK["chunk"] = "read2" /\ IfOK["stat2"] = "commit"
  /\ IfOK["commit"] = "over" /\ IfOK["abort"] = "over" /\ IfOK["restat"] = "quick"
  /\ IfErr["quick"] = "open1" /\ IfErr["stat1"] = "over" /\ IfErr["sign"] = "over"
  /\ IfErr["begin"] = "over" /\ IfErr["chunk"] = "close2" /\ IfErr["stat2"] = "abort"
  /\ IfErr["commit"] = "abort" /\ IfErr["abort"] = "over" /\ IfErr["restat"] = "quick"
  /\ Opening["open1"] = "read1" /\ Opening["open2"] = "read2"
  /\ Closing["read1"] = "close1" /\ Closing["read2"] = "close2"
  /\ OnFailure["open1"] = "over" /\ OnFailure["close1"] = "over"
  /\ OnFailure["open2"] = "abort" /\ OnFailure["close2"] = "abort"
BY DEF Calls, IfOK, IfErr, Opening, Closing, OnFailure

LEMMA PlaceFacts ==
  /\ Places = {"quick", "stat1", "sign", "begin", "chunk", "stat2", "commit", "abort", "restat",
               "read1", "close1", "read2", "close2", "idle", "open1", "open2", "over"}
  /\ \A l \in {"open1", "read1", "close1", "stat1", "open2", "read2", "close2", "stat2", "restat"} :
        EndOf(l) = "src"
  /\ \A l \in {"quick", "sign", "begin", "chunk", "commit", "abort", "idle", "over"} : EndOf(l) = "dst"
  /\ Ends = {"src", "dst"}
BY Routes DEF Places, Reads, EndOf, Ends

(* Short sequences. *)
LEMMA Empty == ASSUME NEW S, NEW s \in Seq(S)  PROVE s = <<>> <=> Len(s) = 0
OBVIOUS

LEMMA Rest ==
  ASSUME NEW S, NEW s \in Seq(S), s # <<>>
  PROVE  /\ Len(s) \in Nat /\ Len(s) >= 1 /\ Head(s) = s[1] /\ Head(s) \in S
         /\ Tail(s) \in Seq(S) /\ Len(Tail(s)) = Len(s) - 1
         /\ \A i \in 1..Len(Tail(s)) : Tail(s)[i] = s[i + 1]
         /\ Len(s) = 1 => Tail(s) = <<>>
<1>1. Len(s) \in Nat /\ Len(s) >= 1 /\ Head(s) = s[1] /\ Head(s) \in S
  OBVIOUS
<1>2. Tail(s) \in Seq(S) /\ Len(Tail(s)) = Len(s) - 1
  BY <1>1
<1>3. \A i \in 1..Len(Tail(s)) : Tail(s)[i] = s[i + 1]
  BY <1>1, <1>2
<1>4. Len(s) = 1 => Tail(s) = <<>>
  <2>1. Len(s) = 1 => Len(Tail(s)) = 0  BY <1>2
  <2> QED  BY <1>2, <2>1, Empty
<1> QED  BY <1>1, <1>2, <1>3, <1>4

LEMMA Appended ==
  ASSUME NEW S, NEW s \in Seq(S), NEW x \in S
  PROVE  /\ Append(s, x) \in Seq(S) /\ Len(Append(s, x)) = Len(s) + 1 /\ Append(s, x) # <<>>
         /\ Append(s, x)[Len(s) + 1] = x
         /\ \A i \in 1..Len(s) : Append(s, x)[i] = s[i]
         /\ s = <<>> => Append(s, x) = <<x>> /\ Append(s, x)[1] = x
         /\ s \o <<x>> = Append(s, x)
<1>1. /\ Append(s, x) \in Seq(S) /\ Len(Append(s, x)) = Len(s) + 1
      /\ Append(s, x)[Len(s) + 1] = x
      /\ \A i \in 1..Len(s) : Append(s, x)[i] = s[i]
  OBVIOUS
<1>2. Len(s) \in Nat /\ Append(s, x) # <<>>
  BY <1>1
<1>3. s = <<>> => Append(s, x) = <<x>> /\ Append(s, x)[1] = x
  BY <1>1
<1>4. s \o <<x>> = Append(s, x)
  OBVIOUS
<1> QED  BY <1>1, <1>2, <1>3, <1>4

LEMMA Single ==
  ASSUME NEW S, NEW x \in S
  PROVE  <<x>> \in Seq(S) /\ <<x>> # <<>> /\ Len(<<x>>) = 1 /\ <<x>>[1] = x /\ Head(<<x>>) = x
OBVIOUS

(* What is asked for at each place. *)
LEMMA OpFacts ==
  ASSUME NEW w \in Worker
  PROVE  /\ me[w].pc \in {"quick", "stat1", "stat2", "restat"} => Op(w) = "Stat"
         /\ me[w].pc \in {"open1", "read1", "close1", "open2", "read2", "close2"} => Op(w) = "OpenRead"
         /\ me[w].pc = "sign" => Op(w) = "GetSig"
         /\ me[w].pc = "begin" => Op(w) = "BeginWrite"
         /\ me[w].pc = "chunk" => Op(w) \in {"ReuseChunk", "WriteChunk"}
         /\ me[w].pc = "commit" => Op(w) = "Commit"
         /\ me[w].pc = "abort" => Op(w) = "Abort"
BY DEF Op

LEMMA AnswerFacts ==
  /\ AnswerTo("Stat") = "StatOK" /\ AnswerTo("GetSig") = "SigOK"
  /\ \A op \in {"OpenRead", "BeginWrite", "WriteChunk", "ReuseChunk", "Commit", "Abort"} : AnswerTo(op) = "OK"
BY DEF AnswerTo

LEMMA BlockFacts ==
  /\ Blank \in Block /\ Stale \in Block
  /\ \A f \in File, i \in 1..Blocks : <<f, i>> \in Block /\ <<f, i>> # Blank /\ <<f, i>> # Stale
  /\ \A f \in File : Source(f) \in Seq(Block) /\ Len(Source(f)) = Blocks
                     /\ Source(f) \in [1..Blocks -> Block] /\ Old(f) \in [1..Blocks -> Block]
BY BoundsAssumption DEF Block, Blank, Stale, Source, Old

LEMMA WholeFile ==
  ASSUME NEW f \in File, NEW s \in Seq(Block), Upto(f, s), Len(s) = Blocks
  PROVE  s = Source(f)
<1>1. s \in [1..Blocks -> Block] /\ \A i \in 1..Blocks : s[i] = <<f, i>>
  BY BoundsAssumption DEF Upto
<1> QED  BY <1>1 DEF Source

LEMMA HeldTyped ==
  ASSUME NEW f \in File, NEW n \in Nat
  PROVE  Held(f, n) \in WriteSession /\ Held(f, n) # NoSession /\ Held(f, n).file = f
         /\ Held(f, n).stage = [i \in 1..Blocks |-> IF i <= n THEN <<f, i>> ELSE Blank]
<1>1. Held(f, n) \in WriteSession  BY BlockFacts, BoundsAssumption DEF Held, WriteSession
<1> QED  BY <1>1, NoSessionAssumption DEF Held

LEMMA WorkerTyped ==
  ASSUME Types, NEW w \in Worker
  PROVE  /\ me[w] \in Me
         /\ me[w].pc \in Places /\ me[w].waiting \in BOOLEAN /\ me[w].job \in File \cup {NoFile}
         /\ me[w].got \in Seq(Block) /\ me[w].sig \in Seq(Block) /\ me[w].eof \in BOOLEAN
         /\ me[w].bad \in {"no", "plain", "unstable"} /\ me[w].tries \in 1..MaxFileAttempts
BY DEF Types, Me

LEMMA LinkTyped ==
  ASSUME Types, NEW e \in Ends
  PROVE  /\ link[e] \in Link
         /\ link[e].up \in BOOLEAN /\ link[e].holder \in Worker \cup {Nobody}
         /\ link[e].requests \in Seq(Req) /\ link[e].replies \in Seq(Rep)
         /\ link[e].serving \in Serving
BY DEF Types, Link

LEMMA RequestTyped ==
  ASSUME Types, Workers, NEW w \in Worker, me[w].pc \in Calls \cup DOMAIN Opening
  PROVE  /\ Request(w) \in Req
         /\ Request(w).op = Op(w) /\ Request(w).file = me[w].job /\ Request(w).at = Len(me[w].got)
         /\ me[w].pc = "chunk" => Request(w).block = Last(me[w].got)
         /\ me[w].pc = "commit" => Request(w).sig = me[w].sig
<1>1. me[w].job \in File  BY Routes DEF Workers, WorkerOK
<1>2. Op(w) \in Ops  BY OpFacts, Routes DEF Ops
<1>3. Len(me[w].got) \in Nat  BY WorkerTyped
<1>4. (IF me[w].pc = "chunk" THEN Last(me[w].got) ELSE Blank) \in Block
  <2>1. me[w].pc = "chunk" => me[w].got # <<>>  BY DEF Workers, WorkerOK
  <2> QED  BY <2>1, WorkerTyped, BlockFacts DEF Last
<1>5. (IF me[w].pc = "commit" THEN me[w].sig ELSE <<>>) \in Seq(Block)  BY WorkerTyped
<1>6. Request(w) \in Req  BY <1>1, <1>2, <1>3, <1>4, <1>5 DEF Request, Req
<1> QED  BY <1>6 DEF Request
-----------------------------------------------------------------------------
(* What a step makes of a connection and of a worker. *)
IsLink(e, u, h, q, r, s) == /\ link' \in [Ends -> Link]
                            /\ link'[e].up = u /\ link'[e].holder = h /\ link'[e].requests = q
                            /\ link'[e].replies = r /\ link'[e].serving = s
                            /\ \A d \in Ends \ {e} : link'[d] = link[d]

LEMMA SentTyped ==
  ASSUME Types, NEW e \in Ends, NEW q \in Req
  PROVE  /\ Sent(e, q) \in Seq(Req)
         /\ link[e].up /\ link[e].requests = <<>> => Sent(e, q) = <<q>>
         /\ ~link[e].up => Sent(e, q) = link[e].requests
BY LinkTyped, Appended DEF Sent

LEMMA LinkSet ==
  ASSUME Types, NEW e \in Ends, NEW l \in Link, link' = [link EXCEPT ![e] = l]
  PROVE  IsLink(e, l.up, l.holder, l.requests, l.replies, l.serving)
BY DEF Types, IsLink

LEMMA MeSet ==
  ASSUME Types, NEW w \in Worker, NEW m \in Me, me' = [me EXCEPT ![w] = m]
  PROVE  me' \in [Worker -> Me] /\ me'[w] = m /\ \A v \in Worker \ {w} : me'[v] = me[v]
BY DEF Types

LEMMA AskStep ==
  ASSUME Types, Workers, NEW w \in Worker, Ask(w), NEW e, e = EndOf(me[w].pc)
  PROVE  /\ e \in Ends /\ IsLink(e, link[e].up, w, Sent(e, Request(w)), link[e].replies, link[e].serving)
         /\ me' \in [Worker -> Me] /\ me'[w] = [me[w] EXCEPT !.waiting = TRUE]
         /\ \A v \in Worker \ {w} : me'[v] = me[v]
<1>1. e \in Ends  BY DEF Ask, Types
<1>2. Sent(e, Request(w)) \in Seq(Req)
  BY <1>1, RequestTyped, SentTyped DEF Ask
<1> DEFINE l == [link[e] EXCEPT !.holder = w, !.requests = Sent(e, Request(w))]
<1>3. link' = [link EXCEPT ![e] = l]
  <2>1. link \in [Ends -> Link]  BY DEF Types
  <2>2. link' = [link EXCEPT ![e].holder = w, ![e].requests = Sent(e, Request(w))]  BY DEF Ask
  <2> QED  BY <1>1, <2>1, <2>2
<1>4. /\ l \in Link /\ l.up = link[e].up /\ l.holder = w /\ l.requests = Sent(e, Request(w))
      /\ l.replies = link[e].replies /\ l.serving = link[e].serving
  BY <1>1, <1>2, LinkTyped DEF Link
<1>5. IsLink(e, link[e].up, w, Sent(e, Request(w)), link[e].replies, link[e].serving)
  <2> HIDE DEF l
  <2> QED  BY <1>1, <1>3, <1>4, LinkSet
<1>6. me' = [me EXCEPT ![w] = [me[w] EXCEPT !.waiting = TRUE]]
  BY DEF Ask
<1>7. [me[w] EXCEPT !.waiting = TRUE] \in Me
  BY WorkerTyped DEF Me
<1> QED  BY <1>1, <1>5, <1>6, <1>7, MeSet
-----------------------------------------------------------------------------
(* What most steps leave alone. *)
SameJobs == queue' = queue /\ result' = result /\ \A v \in Worker : me'[v].job = me[v].job
Grows == /\ remote' = remote /\ hurt \subseteq hurt' /\ (canceled => canceled')
         /\ \A f \in File : dest[f] = Source(f) => dest'[f] = Source(f)

LEMMA CrewFacts ==
  /\ Crew \subseteq Worker
  /\ "dst" \in remote => \A v, w \in Crew : v = w
  /\ "dst" \notin remote => Crew = Worker
BY BoundsAssumption DEF Crew

LEMMA CrewStays == ASSUME Grows PROVE Crew' = Crew
BY DEF Grows, Crew

LEMMA JobsStay == ASSUME Jobs, SameJobs  PROVE Jobs'
BY DEF Jobs, SameJobs

LEMMA BegunStays ==
  ASSUME SameJobs, Grows, NEW f \in File, Begun(f)
  PROVE  Begun(f)'
BY DEF Begun, SameJobs, Grows

LEMMA WorkerStays ==
  ASSUME Types, Grows, NEW v \in Worker, WorkerOK(v), me'[v] = me[v]
  PROVE  WorkerOK(v)'
<1>1. Crew' = Crew  BY CrewStays
<1>2. me[v].job \in File => (dest[me[v].job] = Source(me[v].job) => dest'[me[v].job] = Source(me[v].job))
  BY DEF Grows
<1>3. me[v].job \in hurt \/ canceled => me[v].job \in hurt' \/ canceled'  BY DEF Grows
<1>4. remote' = remote  BY DEF Grows
<1> QED  BY <1>1, <1>2, <1>3, <1>4 DEF WorkerOK

LEMMA QuietStays ==
  ASSUME NEW e \in Ends, link'[e] = link[e], Quiet(e)
  PROVE  Quiet(e)'
BY DEF Quiet, Awake

LEMMA InCallStays ==
  ASSUME Types, Workers, Grows, NEW v \in Worker, me'[v] = me[v], NEW e \in Ends, link'[e] = link[e],
         Calling(v, e), InCall(v, e)
  PROVE  InCall(v, e)'
<1>1. Request(v)' = Request(v) /\ Op(v)' = Op(v)  BY DEF Request, Op
<1>2. Awake(e)' = Awake(e)  BY DEF Awake
<1>3. me[v].job \in File  BY Routes DEF Workers, WorkerOK, Calling
<1>4. (dest[me[v].job] = Source(me[v].job)) => (dest'[me[v].job] = Source(me[v].job))  BY <1>3 DEF Grows
<1>5. me[v].job \in hurt => me[v].job \in hurt'  BY DEF Grows
<1> QED  BY <1>1, <1>2, <1>4, <1>5 DEF InCall

LEMMA StreamsStay ==
  ASSUME NEW m, NEW l, NEW h, Streams(m, l, h),
         NEW n, n.got = m.got, n.job = m.job, Closed(m) => Closed(n), NEW g, h \subseteq g
  PROVE  Streams(n, l, g)
<1>1. \A i : ~Closed(n) /\ (~Closed(m) => Follows(m, l.replies[i], i, h))
             => Follows(n, l.replies[i], i, g)
  BY DEF Follows
<1>2. InOrder(n, l.replies, g)
  BY <1>1 DEF Streams, InOrder
<1>3. Unserved(m, l) => Unserved(n, l)  BY DEF Unserved
<1>4. Sending(m, l) => Sending(n, l)  BY DEF Sending
<1> QED  BY <1>2, <1>3, <1>4 DEF Streams

LEMMA InStreamStays ==
  ASSUME Types, Grows, NEW v \in Worker, link'["src"] = link["src"], InStream(v),
         me'[v].pc = me[v].pc, me'[v].job = me[v].job, me'[v].got = me[v].got
  PROVE  InStream(v)'
BY StreamsStay DEF InStream, Grows, Closed

LEMMA ConvStays ==
  ASSUME Types, Workers, Grows, NEW v \in Worker, me'[v] = me[v], NEW e \in Ends, link'[e] = link[e],
         Conv(v, e)
  PROVE  Conv(v, e)'
<1>1. Calling(v, e)' = Calling(v, e)  BY DEF Calling
<1> QED  BY <1>1, InCallStays, InStreamStays, QuietStays DEF Conv

LEMMA LimitsStay ==
  ASSUME Types, Grows, SameJobs, NEW e \in Ends, Limits(e),
         link'[e].requests \in {link[e].requests, <<>>}, Len(link'[e].replies) <= ReplyRoom,
         e = "dst" /\ link'[e].requests # <<>> => sess'["helper"] \in {sess["helper"], NoSession}
  PROVE  Limits(e)'
<1>1. ASSUME link'[e].requests = link[e].requests,
             NEW i \in 1..Len(link[e].requests), NEW q, q = link[e].requests[i]
      PROVE  RequestOK(e, q)'
  <2>1. link[e].requests # <<>> /\ q \in Req  BY <1>1, LinkTyped
  <2>2. RequestOK(e, q)  BY <1>1 DEF Limits
  <2>3. q.file \in File  BY <2>1 DEF Req
  <2>4. e = "dst" => Begun(q.file)'
    <3> DEFINE f == q.file
    <3>1. e = "dst" => Begun(f)  BY <2>2 DEF RequestOK
    <3> QED  BY <2>3, <3>1, BegunStays
  <2> QED  BY <1>1, <2>1, <2>2, <2>4 DEF RequestOK
<1>2. link'[e].requests = <<>> => Len(link'[e].requests) = 0  OBVIOUS
<1>3. CASE link'[e].requests = <<>>  BY <1>2, <1>3 DEF Limits
<1>4. CASE link'[e].requests = link[e].requests  BY <1>1, <1>4 DEF Limits, RequestOK
<1> QED  BY <1>3, <1>4

(* What is left to show of a step of worker w. *)
WorkerStepKeeps(w) ==
    /\ Types' /\ SameJobs /\ Grows
    /\ \A v \in Worker \ {w} : me'[v] = me[v]
    /\ me'[w].pc # "idle" /\ WorkerOK(w)'
    /\ \A e \in Ends :
         /\ link'[e].up = link[e].up
         /\ link'[e] # link[e] => /\ e \in remote
                                  /\ link[e].holder \in {w, Nobody} /\ link'[e].holder \in {w, Nobody}
                                  /\ Limits(e)'
         /\ link'[e].holder = w <=> Holds(w, e)'
         /\ link'[e].holder = w => Conv(w, e)'
         /\ link'[e] # link[e] /\ link'[e].holder = Nobody => Quiet(e)'
    /\ "dst" \in remote => sess' = sess
    /\ \A s \in Slots \ {Slot(w)} : sess'[s] = sess[s]
    /\ ("dst" \in remote => link["dst"].up) => Session(w)'
    /\ Files'

LEMMA WorkerFrame ==
  ASSUME IInv, NEW w \in Worker, me[w].pc # "idle", WorkerStepKeeps(w)
  PROVE  IInv'
<1> USE DEF WorkerStepKeeps
<1>types. Types /\ Jobs /\ Workers /\ Requests /\ Sessions /\ Lost  BY DEF IInv
<1>w. w \in Crew /\ Crew' = Crew /\ me[w].job \in File
  BY CrewStays DEF IInv, Workers, WorkerOK
<1>1. Jobs'  BY <1>types, JobsStay
<1>2. Workers'
  <2> SUFFICES ASSUME NEW v \in Worker PROVE WorkerOK(v)'  BY DEF Workers
  <2> QED  BY <1>types, WorkerStays DEF Workers
<1>3. Holders'
  <2> SUFFICES ASSUME NEW e \in Ends, NEW v \in Worker \ {w}  PROVE (link[e].holder = v <=> Holds(v, e))'
    BY DEF Holders
  <2>1. Holds(v, e)' = Holds(v, e)  BY DEF Holds, Calling, Reading, Writing, Grows
  <2>2. link'[e].holder = v <=> link[e].holder = v  BY BoundsAssumption
  <2>3. link[e].holder = v <=> Holds(v, e)  BY DEF IInv, Holders
  <2> QED  BY <2>1, <2>2, <2>3
<1>4. Talks'
  <2> SUFFICES ASSUME NEW e \in Ends PROVE Talk(e)'  BY DEF Talks
  <2>1. Talk(e)  BY DEF IInv, Talks
  <2>2. CASE link'[e].holder = Nobody
    <3>1. CASE link'[e] = link[e]  BY <3>1, <2>1, <2>2, QuietStays, BoundsAssumption DEF Talk
    <3>2. CASE link'[e] # link[e]  BY <3>2, <2>2, BoundsAssumption DEF Talk
    <3> QED  BY <3>1, <3>2
  <2>3. CASE link'[e].holder = w  BY <2>3, BoundsAssumption DEF Talk
  <2>4. CASE link'[e].holder \notin {w, Nobody}
    <3>1. link'[e] = link[e]  BY <2>4
    <3>2. \A v \in Worker : link[e].holder = v => Conv(v, e)'
      BY <2>1, <2>4, <3>1, <1>types, ConvStays DEF Talk
    <3> QED  BY <2>4, <3>1, <3>2 DEF Talk
  <2> QED  BY <2>2, <2>3, <2>4
<1>5. Requests'
  <2> SUFFICES ASSUME NEW e \in Ends, link'[e] = link[e]  PROVE Limits(e)'  BY DEF Requests
  <2>1. Limits(e)  BY <1>types DEF Requests
  <2>2. e = "dst" /\ link[e].requests # <<>> => "dst" \in remote
    BY DEF IInv, Lost, Talks, Talk, Quiet, Awake
  <2>3. Len(link'[e].replies) <= ReplyRoom  BY <2>1 DEF Limits
  <2> QED  BY <1>types, <2>1, <2>2, <2>3, LimitsStay
<1>6. Sessions'
  <2>1. ASSUME "dst" \in remote => link["dst"].up, NEW v \in Crew, v # w  PROVE Session(v)'
    <3>1. "dst" \notin remote /\ v \in Worker  BY <1>w, <2>1, CrewFacts
    <3>2. Slot(v) = v /\ Slot(v)' = v /\ Slot(w) = w  BY <3>1 DEF Slot, Grows
    <3>3. sess'[v] = sess[v]  BY <3>1, <3>2, <2>1 DEF Slots
    <3>4. ~Calling(v, "dst") /\ ~Calling(v, "dst")'
      BY <3>1, <2>1 DEF IInv, Workers, WorkerOK, Calling
    <3>5. Session(v)  BY <2>1, <1>types DEF Sessions
    <3> QED  BY <3>1, <3>2, <3>3, <3>4, <3>5, <2>1 DEF Session
  <2>2. ASSUME NEW s \in Slots, sess'[s] # NoSession, NEW f, f = sess'[s].file
        PROVE  Begun(f)'
    <3>1. CASE sess'[s] = sess[s]
      <4>1. f \in File /\ Begun(f)  BY <1>types, <2>2, <3>1 DEF Types, WriteSession, Sessions
      <4> QED  BY <4>1, BegunStays
    <3>2. CASE sess'[s] # sess[s]
      <4>1. s = Slot(w) /\ "dst" \notin remote  BY <3>2
      <4>2. Session(w)' /\ Slot(w)' = s /\ ~Calling(w, "dst")'
        BY <4>1 DEF Slot, Grows, WorkerOK, Calling
      <4>3. Before(me'[w], sess'[s])  BY <4>2 DEF Session
      <4>4. sess'[s].file = me'[w].job
        BY <4>3, <2>2 DEF Before, Held
      <4> QED  BY <4>4, <2>2 DEF Begun
    <3> QED  BY <3>1, <3>2
  <2>3. ("dst" \in remote => link["dst"].up)' => (\A v \in Crew : Session(v))'
    BY <2>1, <1>w DEF Grows, Ends
  <2> QED  BY <2>2, <2>3 DEF Sessions, Slots
<1>7. Lost'
  <2> SUFFICES ASSUME NEW e \in Ends
               PROVE  /\ e \notin remote => link'[e].up /\ link'[e].holder = Nobody
                      /\ ~link'[e].up => hurt' = File
    BY DEF Lost, Grows
  <2>1. e \notin remote => link'[e] = link[e]  OBVIOUS
  <2>2. ~link[e].up => hurt = File  BY <1>types DEF Lost
  <2>3. hurt' \subseteq File  BY DEF Types
  <2> QED  BY <2>1, <2>2, <2>3, <1>types DEF Lost, Grows
<1>8. FailureHasCause'
  BY DEF IInv, FailureHasCause, SameJobs, Grows
<1> QED  BY <1>1, <1>2, <1>3, <1>4, <1>5, <1>6, <1>7, <1>8 DEF IInv
-----------------------------------------------------------------------------
(* The workers' calls. *)
LEMMA Unheld ==
  ASSUME IInv, NEW w \in Worker, NEW e \in Ends, ~Calling(w, e),
         link[e].holder = Nobody \/ (link[e].holder = w /\ e = "dst")
  PROVE  Quiet(e)
BY DEF IInv, Talks, Talk, Conv

LEMMA AskKeeps ==
  ASSUME IInv, NEW w \in Worker, Ask(w), NEW e, e = EndOf(me[w].pc)
  PROVE  IInv'
<1>types. Types /\ Workers /\ WorkerOK(w) /\ w \in Crew /\ me[w].job \in File /\ me[w].pc # "idle"
  BY Routes DEF IInv, Workers, WorkerOK, Ask
<1>step. /\ e \in Ends /\ e \in remote
         /\ IsLink(e, link[e].up, w, Sent(e, Request(w)), link[e].replies, link[e].serving)
         /\ me' \in [Worker -> Me] /\ me'[w] = [me[w] EXCEPT !.waiting = TRUE]
         /\ \A v \in Worker \ {w} : me'[v] = me[v]
  BY <1>types, AskStep DEF Ask
<1>me. /\ me'[w].pc = me[w].pc /\ me'[w].job = me[w].job /\ me'[w].got = me[w].got
       /\ me'[w].sig = me[w].sig /\ me'[w].eof = me[w].eof /\ me'[w].bad = me[w].bad
       /\ me'[w].waiting /\ ~me[w].waiting
  BY <1>step, <1>types, WorkerTyped DEF Me, Ask
<1>same. UNCHANGED <<remote, sess, dest, queue, result, canceled, troubles, hurt>>  BY DEF Ask
<1>q. PICK q : q = Request(w)  OBVIOUS
<1>request. /\ q \in Req /\ Request(w)' = q
            /\ q.op = Op(w) /\ q.file = me[w].job /\ (me[w].pc = "commit" => q.sig = me[w].sig)
  <2>1. me[w].pc \in Calls  BY DEF Ask
  <2>2. Request(w)' = Request(w)  BY <1>me DEF Request, Op
  <2> QED  BY <1>q, <1>types, <2>1, <2>2, RequestTyped
<1>quiet. Quiet(e)
  <2>1. ~Calling(w, e)  BY <1>me DEF Calling
  <2>2. me[w].pc \in InSession => e = "dst"  BY PlaceFacts DEF InSession
  <2>3. link[e].holder = Nobody \/ (link[e].holder = w /\ e = "dst")
    BY <2>2 DEF Ask
  <2> QED  BY <1>step, <2>1, <2>3, Unheld
<1>sent. /\ link[e].up => link'[e].requests = <<q>>
         /\ ~link[e].up => link'[e].requests = link[e].requests
         /\ link'[e].replies = <<>> /\ link'[e].serving = link[e].serving
         /\ link'[e].up = link[e].up /\ link'[e].holder = w
         /\ \A d \in Ends \ {e} : link'[d] = link[d]
  BY <1>step, <1>types, <1>q, <1>request, <1>quiet, SentTyped DEF Quiet, Awake, IsLink
<1>1. Types'  BY <1>types, <1>step, <1>same DEF Types, IsLink
<1>2. SameJobs /\ Grows  BY <1>me, <1>step, <1>same DEF SameJobs, Grows
<1>3. WorkerOK(w)'
  <2>1. me[w].pc \in Calls  BY DEF Ask
  <2>2. Crew' = Crew  BY <1>2, CrewStays
  <2> QED  BY <2>1, <2>2, <1>step, <1>types, <1>me, <1>same DEF WorkerOK
<1>4. Conv(w, e)'
  <2>1. Calling(w, e)'  BY <1>me DEF Calling
  <2>2. InCall(w, e)'
    BY <1>quiet, <1>sent, <1>request DEF InCall, Quiet, Awake
  <2> QED  BY <2>1, <2>2 DEF Conv
<1>5. ASSUME NEW d \in Ends, d # e
      PROVE  /\ link'[d].holder = w <=> Holds(w, d)'
             /\ link'[d].holder = w => Conv(w, d)'
  <2>1. link'[d] = link[d]  BY <1>5, <1>sent
  <2>2. ~Calling(w, d) /\ ~Calling(w, d)'  BY <1>5, <1>me DEF Calling
  <2>3. Holds(w, d)' <=> Holds(w, d)  BY <2>2, <1>me, <1>same DEF Holds, Reading, Writing
  <2>4. link[d].holder = w => Conv(w, d)  BY DEF IInv, Talks, Talk
  <2>5. link[d].holder = w => Conv(w, d)'
    BY <2>1, <2>2, <2>4, <1>2, <1>me, <1>types, InStreamStays, QuietStays DEF Conv
  <2> QED  BY <2>1, <2>3, <2>5 DEF IInv, Holders
<1>6. Limits(e)'
  <2>1. Limits(e) /\ Len(link'[e].replies) <= ReplyRoom
    BY <1>step, <1>sent, BoundsAssumption DEF IInv, Requests
  <2>2. CASE link[e].up
    <3>1. Begun(q.file)'  BY <1>request, <1>me DEF Begun
    <3>2. e = "dst" => (sess'["helper"] # NoSession => sess'["helper"].file = me[w].job)
      <4>1. CASE e = "dst"
        <5>1. "dst" \in remote /\ link["dst"].replies = <<>>  BY <4>1, <1>step, <1>quiet DEF Quiet
        <5>2. Before(me[w], sess["helper"])
          BY <4>1, <5>1, <2>2, <1>types DEF IInv, Sessions, Session, Slot
        <5> QED  BY <5>2, <1>same DEF Before, Held
      <4> QED  BY <4>1
    <3>3. e = "src" => Op(w) = "Stat"  BY PlaceFacts, OpFacts, Routes DEF Ask
    <3>4. e = "dst" => Op(w) # "OpenRead"  BY PlaceFacts, OpFacts, Routes DEF Ask
    <3>5. Op(w) = "Commit" => me[w].pc = "commit"  BY OpFacts, Routes DEF Ask
    <3>6. Op(w) = "Commit" => q.sig = Source(me[w].job)
      BY <3>5, <1>types, <1>request DEF WorkerOK, Writes
    <3>7. RequestOK(e, q)'
      BY <1>request, <3>1, <3>2, <3>3, <3>4, <3>6 DEF RequestOK
    <3>8. link'[e].requests = <<q>>  BY <1>sent, <2>2
    <3>9. Len(link'[e].requests) = 1 /\ \A i \in 1..1 : link'[e].requests[i] = q
      BY <3>8
    <3>10. Len(link'[e].replies) <= ReplyRoom  BY <2>1
    <3> QED  BY <3>7, <3>9, <3>10 DEF Limits, RequestOK
  <2>3. CASE ~link[e].up
    BY <2>1, <2>3, <1>2, <1>step, <1>sent, <1>types, <1>same, LimitsStay
  <2> QED  BY <2>2, <2>3
<1>7. ("dst" \in remote => link["dst"].up) => Session(w)'
  <2>1. Calling(w, "dst")' => link'["dst"].replies = <<>>
    BY <1>me, <1>sent DEF Calling
  <2>2. ~(Calling(w, "dst") /\ link["dst"].replies # <<>>)  BY <1>me DEF Calling
  <2>3. Slot(w)' = Slot(w)  BY <1>same DEF Slot
  <2>4. Before(me[w], sess[Slot(w)]) => Before(me'[w], sess[Slot(w)])
    BY <1>me DEF Before, Written
  <2> QED  BY <2>1, <2>2, <2>3, <2>4, <1>types, <1>same DEF IInv, Sessions, Session
<1>8. WorkerStepKeeps(w)
  <2>1. Files'  BY <1>same DEF IInv, Files
  <2>2. link[e].holder \in {w, Nobody}  BY DEF Ask
  <2>3. Holds(w, e)'  BY <1>me DEF Holds, Calling
  <2>4. w # Nobody  BY BoundsAssumption
  <2>5. \A d \in Ends :
         /\ link'[d].up = link[d].up
         /\ link'[d] # link[d] => /\ d \in remote
                                  /\ link[d].holder \in {w, Nobody} /\ link'[d].holder \in {w, Nobody}
                                  /\ Limits(d)'
         /\ link'[d].holder = w <=> Holds(w, d)'
         /\ link'[d].holder = w => Conv(w, d)'
         /\ link'[d] # link[d] /\ link'[d].holder = Nobody => Quiet(d)'
    BY <2>2, <2>3, <2>4, <1>4, <1>5, <1>6, <1>sent, <1>step
  <2> QED
    BY <1>1, <1>2, <1>3, <1>7, <2>1, <2>5, <1>me, <1>types, <1>same, <1>step DEF WorkerStepKeeps
<1> QED  BY <1>8, <1>types, WorkerFrame

(* A call has been answered, well (ok) or not. *)
LEMMA AnsweredFacts ==
  ASSUME Types, NEW w \in Worker, me[w].pc \in Calls, NEW ok \in BOOLEAN
  PROVE  /\ Answered(w, ok) \in Me
         /\ Answered(w, ok).pc = (IF ok THEN IfOK[me[w].pc] ELSE IfErr[me[w].pc])
         /\ ~Answered(w, ok).waiting
         /\ Answered(w, ok).job = me[w].job /\ Answered(w, ok).got = me[w].got
         /\ Answered(w, ok).sig = me[w].sig /\ Answered(w, ok).eof = me[w].eof
         /\ Answered(w, ok).bad = (IF ok \/ me[w].pc \in Tolerant THEN me[w].bad
                                   ELSE IF me[w].pc \in Unstable THEN "unstable" ELSE "plain")
<1> DEFINE b == IF ok \/ me[w].pc \in Tolerant THEN me[w].bad
                ELSE IF me[w].pc \in Unstable THEN "unstable" ELSE "plain"
           l == IF ok THEN IfOK[me[w].pc] ELSE IfErr[me[w].pc]
           m == [me[w] EXCEPT !.waiting = FALSE, !.pc = l, !.bad = b]
<1>1. Answered(w, ok) = m  BY WorkerTyped DEF Answered, Me
<1>2. l \in Places  BY Routes, PlaceFacts
<1>3. b \in {"no", "plain", "unstable"}  BY WorkerTyped
<1> HIDE DEF b, l
<1>4. m \in Me /\ m.pc = l /\ m.bad = b /\ ~m.waiting /\ m.job = me[w].job /\ m.got = me[w].got
      /\ m.sig = me[w].sig /\ m.eof = me[w].eof
  BY <1>2, <1>3, WorkerTyped DEF Me
<1> QED  BY <1>1, <1>4 DEF b, l

\* Where it goes from each place.
LEMMA RoutesOf ==
  ASSUME Types, NEW w \in Worker, WorkerOK(w), me[w].pc \in Calls, NEW ok \in BOOLEAN,
         NEW m, m = Answered(w, ok)
  PROVE  /\ me[w].pc = "quick"  => m.pc = "open1" /\ m.bad = "no"
         /\ me[w].pc = "restat" => m.pc = "quick" /\ m.bad = "no"
         /\ me[w].pc = "abort"  => m.pc = "over" /\ m.bad # "no"
         /\ me[w].pc = "stat1"  => IF ok THEN m.pc = "sign" /\ m.bad = "no" ELSE m.pc = "over" /\ m.bad # "no"
         /\ me[w].pc = "sign"   => IF ok THEN m.pc = "begin" /\ m.bad = "no" ELSE m.pc = "over" /\ m.bad # "no"
         /\ me[w].pc = "begin"  => IF ok THEN m.pc = "open2" /\ m.bad = "no" ELSE m.pc = "over" /\ m.bad # "no"
         /\ me[w].pc = "chunk"  => IF ok THEN m.pc = "read2" /\ m.bad = "no" ELSE m.pc = "close2" /\ m.bad # "no"
         /\ me[w].pc = "stat2"  => IF ok THEN m.pc = "commit" /\ m.bad = "no" ELSE m.pc = "abort" /\ m.bad # "no"
         /\ me[w].pc = "commit" => IF ok THEN m.pc = "over" /\ m.bad = "no" ELSE m.pc = "abort" /\ m.bad # "no"
         /\ me[w].pc # "abort" => me[w].bad = "no"
<1>1. me[w].pc # "abort" => me[w].bad = "no"  BY Routes DEF WorkerOK
<1>2. me[w].pc = "abort" => me[w].bad # "no"  BY DEF WorkerOK
<1>3. Tolerant = {"quick", "restat", "abort"} /\ Unstable = {"stat1", "stat2"}  BY DEF Tolerant, Unstable
<1> QED  BY <1>1, <1>2, <1>3, Routes, AnsweredFacts

LEMMA AnsweredOK ==
  ASSUME Types, Grows, NEW w \in Worker, WorkerOK(w), me[w].pc \in Calls, NEW ok \in BOOLEAN,
         me'[w] = Answered(w, ok), ~ok => me[w].job \in hurt',
         ok /\ me[w].pc = "commit" => dest'[me[w].job] = Source(me[w].job)
  PROVE  WorkerOK(w)' /\ me'[w].pc # "idle"
<1> PICK m : m = Answered(w, ok)  OBVIOUS
<1>1. me'[w] = m /\ ~m.waiting /\ m.job = me[w].job /\ m.got = me[w].got
      /\ m.sig = me[w].sig /\ m.eof = me[w].eof
  BY AnsweredFacts
<1>2. Crew' = Crew  BY CrewStays
<1>3. me[w].job \in File /\ w \in Crew  BY Routes DEF WorkerOK
<1>4. m.bad # "no" => m.pc \in {"close1", "close2", "abort", "over"}
                      /\ (m.job \in hurt' \/ canceled')
  <2>1. ok => m.bad = me[w].bad  BY AnsweredFacts
  <2>2. me[w].bad # "no" => me[w].job \in hurt' \/ canceled'  BY DEF WorkerOK, Grows
  <2>3. m.bad # "no" => m.job \in hurt' \/ canceled'  BY <1>1, <2>1, <2>2
  <2>4. m.bad # "no" => m.pc \in {"close1", "close2", "abort", "over"}  BY RoutesOf, Routes
  <2> QED  BY <2>3, <2>4
<1>5. /\ m.pc # "idle" /\ (m.bad = "no" => m.pc # "abort") /\ m.pc # "chunk"
      /\ (m.pc \in {"read1", "read2", "chunk"} => me[w].pc = "chunk")
      /\ (m.pc \in Reads \cup {"stat2", "commit"} => me[w].pc \in {"chunk", "stat2"})
      /\ (m.pc \in {"close1", "close2", "stat2", "commit"} /\ m.bad = "no" => me[w].pc = "stat2")
      /\ (m.pc = "over" /\ m.bad = "no" => ok /\ me[w].pc = "commit")
  BY RoutesOf, Routes DEF Reads
<1>6. m.pc \in (Writes \ {"abort"}) \cup {"stat1", "sign", "begin"}
      => me[w].pc \in {"stat1", "sign", "begin", "chunk", "stat2"}
  BY RoutesOf, Routes DEF Writes
<1>7. me[w].pc = "stat2" => Len(me[w].got) = Blocks
  BY RoutesOf DEF WorkerOK
<1>8. me[w].pc \in {"stat1", "sign", "begin", "chunk", "stat2"} => me[w].sig = Source(me[w].job)
  BY DEF WorkerOK, Writes
<1>9. me[w].pc \in {"chunk", "stat2"} => Upto(me[w].job, me[w].got)
  BY DEF WorkerOK, Reads
<1>10. me[w].pc = "chunk" => ~me[w].eof  BY DEF WorkerOK
<1> QED  BY <1>1, <1>2, <1>3, <1>4, <1>5, <1>6, <1>7, <1>8, <1>9, <1>10 DEF WorkerOK

\* Who holds which mutex then, and what the session is.
LEMMA AnsweredHolds ==
  ASSUME Types, Grows, NEW w \in Worker, WorkerOK(w), me[w].pc \in Calls, NEW ok \in BOOLEAN,
         me'[w] = Answered(w, ok), NEW d \in Ends
  PROVE  /\ d = EndOf(me[w].pc) /\ d \in remote => (Holds(w, d)' <=> Keeps(me[w].pc, ok))
         /\ d = EndOf(me[w].pc) /\ Holds(w, d)' => d = "dst"
         /\ d # EndOf(me[w].pc) => (Holds(w, d)' <=> Holds(w, d))
<1> PICK m : m = Answered(w, ok)  OBVIOUS
<1>1. me'[w] = m /\ ~m.waiting /\ remote' = remote  BY AnsweredFacts DEF Grows
<1>2. ~Calling(w, d)'  BY <1>1 DEF Calling
<1>3. d # EndOf(me[w].pc) => ~Calling(w, d)  BY DEF Calling
<1>4. m.pc \in Reads <=> me[w].pc = "chunk"  BY RoutesOf, Routes DEF Reads
<1>5. me[w].pc \in Reads <=> me[w].pc = "chunk"  BY Routes DEF Reads
<1>6. m.pc \in Writes <=> \/ me[w].pc \in {"chunk", "stat2"}
                          \/ me[w].pc = "begin" /\ ok
                          \/ me[w].pc = "commit" /\ ~ok
  BY RoutesOf, Routes DEF Writes
<1>7. me[w].pc \in Writes <=> me[w].pc \in {"chunk", "stat2", "commit", "abort"}
  BY Routes DEF Writes
<1>8. /\ EndOf("chunk") = "dst" /\ EndOf("begin") = "dst" /\ EndOf("commit") = "dst"
      /\ EndOf("abort") = "dst" /\ EndOf("stat2") = "src"
  BY PlaceFacts
<1>9. Holds(w, d)' <=> \/ d = "src" /\ "src" \in remote /\ m.pc \in Reads
                       \/ d = "dst" /\ "dst" \in remote /\ m.pc \in Writes
  BY <1>1, <1>2 DEF Holds, Reading, Writing
<1>10. d # EndOf(me[w].pc) => (Holds(w, d) <=> \/ d = "src" /\ "src" \in remote /\ me[w].pc \in Reads
                                               \/ d = "dst" /\ "dst" \in remote /\ me[w].pc \in Writes)
  BY <1>3 DEF Holds, Reading, Writing
<1>11. d \in {"src", "dst"}  BY PlaceFacts
<1> QED  BY <1>4, <1>5, <1>6, <1>7, <1>8, <1>9, <1>10, <1>11 DEF Keeps

\* The connection that the call was not on.
LEMMA OtherEnd ==
  ASSUME IInv, Grows, NEW w \in Worker, me[w].pc \in Calls, NEW ok \in BOOLEAN,
         me'[w] = Answered(w, ok), NEW d \in Ends, d # EndOf(me[w].pc), link'[d] = link[d]
  PROVE  /\ link'[d].holder = w <=> Holds(w, d)'
         /\ link'[d].holder = w => Conv(w, d)'
<1>types. Types /\ Workers /\ WorkerOK(w)  BY DEF IInv, Workers
<1>me. ~me'[w].waiting /\ me'[w].job = me[w].job /\ me'[w].got = me[w].got /\ me'[w].eof = me[w].eof
  <2>1. /\ ~Answered(w, ok).waiting
        /\ Answered(w, ok).job = me[w].job /\ Answered(w, ok).got = me[w].got
        /\ Answered(w, ok).eof = me[w].eof
    BY <1>types, AnsweredFacts
  <2> QED  BY <2>1
<1>1. Holds(w, d)' <=> Holds(w, d)  BY <1>types, AnsweredHolds
<1>2. link[d].holder = w <=> Holds(w, d)  BY DEF IInv, Holders
<1>3. link[d].holder = w => Conv(w, d)  BY DEF IInv, Talks, Talk
<1>4. ~Calling(w, d) /\ ~Calling(w, d)'  BY <1>me DEF Calling
<1>5. CASE d = "src" /\ ~me[w].eof /\ link[d].holder = w
  <2>1. InStream(w)  BY <1>3, <1>4, <1>5 DEF Conv
  <2>2. ~Closed(me[w])  BY Routes DEF Closed
  <2>3. Streams(me[w], link["src"], hurt)  BY <2>1 DEF InStream
  <2>4. hurt \subseteq hurt'  BY DEF Grows
  <2>5. Streams(me'[w], link["src"], hurt')  BY <2>2, <2>3, <2>4, <1>me, StreamsStay
  <2>6. InStream(w)'  BY <2>5, <1>5 DEF InStream
  <2> QED  BY <1>1, <1>2, <1>4, <1>5, <2>6, <1>me DEF Conv
<1>6. CASE ~(d = "src" /\ ~me[w].eof)
  <2>1. link[d].holder = w => Quiet(d)  BY <1>3, <1>4, <1>6 DEF Conv
  <2>2. link[d].holder = w => Quiet(d)'  BY <2>1, QuietStays
  <2> QED  BY <1>1, <1>2, <1>4, <1>6, <2>2, <1>me DEF Conv
<1> QED  BY <1>1, <1>2, <1>5, <1>6

LEMMA ReturnsTo ==
  ASSUME Types, NEW w \in Worker, WorkerOK(w), me[w].pc \in Calls, NEW ok \in BOOLEAN,
         NEW typ, typ \in {AnswerTo(Op(w)), "Err"}, ok <=> typ = AnswerTo(Op(w)),
         NEW x, After(me[w], typ, x)
  PROVE  me[w].pc \notin {"stat1", "stat2", "restat"} => Before(Answered(w, ok), x)
<1> PICK m : m = Answered(w, ok)  OBVIOUS
<1>1. m.job = me[w].job /\ m.got = me[w].got  BY AnsweredFacts
<1>2. me[w].pc \in {"begin", "chunk", "commit", "abort"} => AnswerTo(Op(w)) = "OK"
  BY OpFacts, AnswerFacts
<1>3. me[w].pc \in {"begin", "chunk", "commit", "abort"} => (ok <=> typ = "OK")  BY <1>2
<1>4. CASE me[w].pc \in {"quick", "sign", "commit", "abort"}
  <2>1. x = NoSession  BY <1>4 DEF After
  <2>2. m.pc \notin Writes \/ m.bad # "no"  BY <1>4, RoutesOf DEF Writes
  <2> QED  BY <2>1, <2>2 DEF Before
<1>5. CASE me[w].pc = "begin"
  <2>1. ok => m.pc = "open2" /\ m.bad = "no" /\ x = Held(me[w].job, 0)  BY <1>3, <1>5, RoutesOf DEF After
  <2>2. ~ok => m.pc = "over" /\ x = NoSession  BY <1>3, <1>5, RoutesOf DEF After
  <2> QED  BY <1>1, <2>1, <2>2 DEF Before, Written, Writes
<1>6. CASE me[w].pc = "chunk"
  <2>1. ok => m.pc = "read2" /\ m.bad = "no" /\ x = Held(me[w].job, Len(me[w].got))
    BY <1>3, <1>6, RoutesOf DEF After
  <2>2. ~ok => m.pc = "close2" /\ m.bad # "no" /\ x = NoSession  BY <1>3, <1>6, RoutesOf DEF After
  <2> QED  BY <1>1, <2>1, <2>2 DEF Before, Written, Writes
<1> QED  BY <1>4, <1>5, <1>6, Routes

LEMMA StatReturns ==
  ASSUME Types, NEW w \in Worker, WorkerOK(w), NEW ok \in BOOLEAN,
         me[w].pc \in {"stat1", "stat2", "restat"}, NEW x, Before(me[w], x)
  PROVE  Before(Answered(w, ok), x)
<1> PICK m : m = Answered(w, ok)  OBVIOUS
<1>1. me[w].pc \in Calls  BY Routes
<1>2. m.job = me[w].job /\ m.got = me[w].got  BY <1>1, AnsweredFacts
<1>3. CASE me[w].pc \in {"stat1", "restat"}
  <2>1. x = NoSession  BY <1>3 DEF Before, Writes
  <2>2. m.pc \notin Writes  BY <1>1, <1>3, RoutesOf DEF Writes
  <2> QED  BY <2>1, <2>2 DEF Before
<1>4. CASE me[w].pc = "stat2"
  <2>1. x = Held(me[w].job, Len(me[w].got))  BY <1>1, <1>4, RoutesOf DEF Before, Writes, Written
  <2>2. ok => m.pc = "commit" /\ m.bad = "no"  BY <1>1, <1>4, RoutesOf
  <2>3. ~ok => m.pc = "abort" /\ m.bad # "no"  BY <1>1, <1>4, RoutesOf
  <2>4. x.file = me[w].job  BY <2>1 DEF Held
  <2> QED  BY <1>2, <2>1, <2>2, <2>3, <2>4 DEF Before, Written, Writes
<1> QED  BY <1>3, <1>4

LEMMA HearStep ==
  ASSUME IInv, NEW w \in Worker, Hear(w), NEW e, e = EndOf(me[w].pc),
         NEW ok, ok = Good(w, link[e].replies)
  PROVE  /\ e \in Ends /\ e \in remote /\ ok \in BOOLEAN /\ me[w].pc \in Calls
         /\ link[e].holder = w /\ Calling(w, e) /\ InCall(w, e)
         /\ IsLink(e, link[e].up, IF Keeps(me[w].pc, ok) THEN w ELSE Nobody,
                   link[e].requests, <<>>, link[e].serving)
         /\ me' \in [Worker -> Me] /\ me'[w] = Answered(w, ok)
         /\ \A v \in Worker \ {w} : me'[v] = me[v]
<1>types. Types /\ WorkerOK(w)  BY DEF IInv, Workers
<1>1. e \in Ends /\ e \in remote /\ me[w].pc \in Calls
  BY <1>types DEF Hear, WorkerOK, Types
<1>2. Calling(w, e)  BY DEF Hear, Calling
<1>3. link[e].holder = w  BY <1>1, <1>2 DEF IInv, Holders, Holds
<1>4. InCall(w, e)  BY <1>1, <1>2, <1>3 DEF IInv, Talks, Talk, Conv
<1>5. ok \in BOOLEAN  BY DEF Good
<1> DEFINE h == IF Keeps(me[w].pc, ok) THEN w ELSE Nobody
           rest == IF link[e].replies = <<>> THEN link[e].replies ELSE Tail(link[e].replies)
           l == [link[e] EXCEPT !.replies = rest, !.holder = h]
<1>6. rest = <<>>
  <2>1. link[e].replies # <<>> => Len(link[e].replies) = 1  BY <1>4 DEF InCall
  <2> QED  BY <2>1, <1>1, <1>types, LinkTyped, Rest
<1>7. link' = [link EXCEPT ![e] = l]
  <2>1. link \in [Ends -> Link]  BY <1>types DEF Types
  <2>2. link' = [link EXCEPT ![e].replies = rest, ![e].holder = h]  BY DEF Hear
  <2> HIDE DEF rest, h
  <2> QED  BY <1>1, <2>1, <2>2
<1>8. h \in Worker \cup {Nobody}  OBVIOUS
<1>9. /\ l \in Link /\ l.up = link[e].up /\ l.holder = h /\ l.requests = link[e].requests
      /\ l.replies = <<>> /\ l.serving = link[e].serving
  <2> HIDE DEF rest, h
  <2>1. rest \in Seq(Rep)  BY <1>6
  <2> QED  BY <1>1, <1>6, <1>8, <2>1, <1>types, LinkTyped DEF Link
<1>10. IsLink(e, link[e].up, h, link[e].requests, <<>>, link[e].serving)
  <2> HIDE DEF l, h
  <2> QED  BY <1>1, <1>7, <1>9, <1>types, LinkSet
<1>11. me' = [me EXCEPT ![w] = Answered(w, ok)]  BY DEF Hear
<1>12. Answered(w, ok) \in Me  BY <1>1, <1>5, <1>types, AnsweredFacts
<1> QED  BY <1>1, <1>2, <1>3, <1>4, <1>5, <1>10, <1>11, <1>12, <1>types, MeSet

LEMMA HearKeeps ==
  ASSUME IInv, NEW w \in Worker, Hear(w), NEW e, e = EndOf(me[w].pc),
         NEW ok, ok = Good(w, link[e].replies)
  PROVE  IInv'
<1>types. Types /\ Workers /\ WorkerOK(w) /\ w \in Crew /\ me[w].job \in File /\ me[w].pc # "idle"
  BY Routes, HearStep DEF IInv, Workers, WorkerOK
<1>step. /\ e \in Ends /\ e \in remote /\ ok \in BOOLEAN /\ me[w].pc \in Calls
         /\ link[e].holder = w /\ Calling(w, e) /\ InCall(w, e)
         /\ IsLink(e, link[e].up, IF Keeps(me[w].pc, ok) THEN w ELSE Nobody,
                   link[e].requests, <<>>, link[e].serving)
         /\ me' \in [Worker -> Me] /\ me'[w] = Answered(w, ok)
         /\ \A v \in Worker \ {w} : me'[v] = me[v]
  BY HearStep
<1>link. /\ link'[e].up = link[e].up /\ link'[e].holder = (IF Keeps(me[w].pc, ok) THEN w ELSE Nobody)
         /\ link'[e].requests = link[e].requests /\ link'[e].replies = <<>>
         /\ link'[e].serving = link[e].serving
         /\ \A d \in Ends \ {e} : link'[d] = link[d]
  BY <1>step DEF IsLink
<1>me. /\ ~me'[w].waiting
       /\ me'[w].job = me[w].job /\ me'[w].got = me[w].got /\ me'[w].eof = me[w].eof
  <2>1. me[w].pc \in Calls /\ ok \in BOOLEAN /\ me'[w] = Answered(w, ok)  BY <1>step
  <2>2. /\ ~Answered(w, ok).waiting
        /\ Answered(w, ok).job = me[w].job /\ Answered(w, ok).got = me[w].got
        /\ Answered(w, ok).eof = me[w].eof
    BY <2>1, <1>types, AnsweredFacts
  <2> QED  BY <2>1, <2>2
<1>same. UNCHANGED <<remote, sess, dest, queue, result, canceled, troubles, hurt>>  BY DEF Hear
<1>quiet. Quiet(e)'
  <2>1. link[e].up => Awake(e)
    <3>1. link[e].replies # <<>> \/ ~link[e].up  BY DEF Hear
    <3> QED  BY <3>1, <1>step DEF InCall
  <2> QED  BY <2>1, <1>link DEF Quiet, Awake
<1>reply. /\ ok <=> link[e].replies # <<>> /\ link[e].replies[1].typ = AnswerTo(Op(w))
          /\ link[e].replies # <<>> => link[e].replies[1].typ \in {AnswerTo(Op(w)), "Err"}
  <2>1. link[e].replies # <<>> => Head(link[e].replies) = link[e].replies[1]
    BY <1>step, <1>types, LinkTyped, Rest
  <2> QED  BY <2>1, <1>step DEF Good, InCall
<1>err. ~ok => me[w].job \in hurt
  <2>1. CASE link[e].replies # <<>>  BY <2>1, <1>reply, <1>step DEF InCall
  <2>2. CASE link[e].replies = <<>>
    <3>1. ~link[e].up  BY <2>2 DEF Hear
    <3> QED  BY <3>1, <1>step, <1>types DEF IInv, Lost
  <2> QED  BY <2>1, <2>2
<1>1. Types'  BY <1>types, <1>step, <1>same DEF Types, IsLink
<1>2. SameJobs /\ Grows  BY <1>me, <1>step, <1>same DEF SameJobs, Grows
<1>3. WorkerOK(w)' /\ me'[w].pc # "idle"
  <2>1. ok /\ me[w].pc = "commit" => dest[me[w].job] = Source(me[w].job)
    BY <1>reply, <1>step, OpFacts, AnswerFacts DEF InCall
  <2> QED  BY <2>1, <1>2, <1>err, <1>step, <1>types, <1>same, AnsweredOK
<1>4. ASSUME NEW d \in Ends
      PROVE  /\ link'[d].holder = w <=> Holds(w, d)'
             /\ link'[d].holder = w => Conv(w, d)'
  <2>0. w # Nobody  BY BoundsAssumption
  <2>1. CASE d = e
    <3>1. link'[d].holder = w <=> Holds(w, d)'
      BY <2>0, <2>1, <1>2, <1>step, <1>link, <1>types, AnsweredHolds
    <3>2. Holds(w, d)' => d = "dst"  BY <2>1, <1>2, <1>step, <1>types, AnsweredHolds
    <3>3. ~Calling(w, d)'  BY <1>me DEF Calling
    <3> QED  BY <2>1, <3>1, <3>2, <3>3, <1>quiet DEF Conv
  <2>2. CASE d # e
    <3>1. link'[d] = link[d] /\ Grows  BY <2>2, <1>2, <1>link
    <3> QED  BY <2>2, <3>1, <1>step, OtherEnd
  <2> QED  BY <2>1, <2>2
<1>5. Limits(e)'
  <2>1. Limits(e)  BY <1>step DEF IInv, Requests
  <2>2. Len(<<>>) = 0 /\ 0 <= ReplyRoom  BY BoundsAssumption
  <2>3. Len(link'[e].replies) <= ReplyRoom  BY <2>2, <1>link
  <2>4. link'[e].requests = link[e].requests /\ sess' = sess  BY <1>link, <1>same
  <2> QED  BY <2>1, <2>3, <2>4, <1>2, <1>step, <1>types, LimitsStay
<1>6. ("dst" \in remote => link["dst"].up) => Session(w)'
  <2> SUFFICES ASSUME "dst" \in remote => link["dst"].up  PROVE Session(w)'  OBVIOUS
  <2>1. Slot(w)' = Slot(w)  BY <1>same DEF Slot
  <2>2. ~Calling(w, "dst")'  BY <1>me DEF Calling
  <2>3. Session(w)  BY <1>types DEF IInv, Sessions
  <2> PICK x : x = sess[Slot(w)]  OBVIOUS
  <2>4. Before(Answered(w, ok), x)
    <3>1. CASE e = "dst"
      <4>1. link[e].replies # <<>>  BY <3>1, <1>step DEF Hear
      <4>2. After(me[w], link[e].replies[1].typ, x)  BY <4>1, <3>1, <2>3, <1>step DEF Session
      <4>3. me[w].pc \notin {"stat1", "stat2", "restat"}  BY <3>1, PlaceFacts
      <4> QED  BY <4>1, <4>2, <4>3, <1>reply, <1>step, <1>types, ReturnsTo
    <3>2. CASE e = "src"
      <4>1. ~Calling(w, "dst")  BY <3>2 DEF Calling
      <4>2. Before(me[w], x)  BY <4>1, <2>3 DEF Session
      <4>3. me[w].pc \in Calls  BY <1>step
      <4>4. EndOf(me[w].pc) = "src"  BY <3>2
      <4>5. me[w].pc \in {"stat1", "stat2", "restat"}  BY <4>3, <4>4, PlaceFacts, Routes
      <4> QED  BY <4>2, <4>5, <1>step, <1>types, StatReturns
    <3> QED  BY <3>1, <3>2, <1>step, PlaceFacts
  <2> QED  BY <2>1, <2>2, <2>4, <1>step, <1>same DEF Session
<1>7. WorkerStepKeeps(w)
  <2>1. Files'  BY <1>same DEF IInv, Files
  <2>2. \A d \in Ends :
         /\ link'[d].up = link[d].up
         /\ link'[d] # link[d] => /\ d \in remote
                                  /\ link[d].holder \in {w, Nobody} /\ link'[d].holder \in {w, Nobody}
                                  /\ Limits(d)'
         /\ link'[d].holder = w <=> Holds(w, d)'
         /\ link'[d].holder = w => Conv(w, d)'
         /\ link'[d] # link[d] /\ link'[d].holder = Nobody => Quiet(d)'
    BY <1>4, <1>5, <1>link, <1>step, <1>quiet
  <2> QED
    BY <1>1, <1>2, <1>3, <1>6, <2>1, <2>2, <1>types, <1>same, <1>step DEF WorkerStepKeeps
<1> QED  BY <1>7, <1>types, WorkerFrame
-----------------------------------------------------------------------------
(* What becomes of a request. *)
Puts == {"WriteChunk", "ReuseChunk"}
Put(x, i, block) == [x EXCEPT !.stage[i] = block]

LEMMA PutFacts ==
  ASSUME NEW x \in WriteSession, NEW i \in 1..Blocks, NEW block \in Block
  PROVE  Put(x, i, block) \in WriteSession /\ Put(x, i, block).file = x.file
         /\ Put(x, i, block).stage = [x.stage EXCEPT ![i] = block]
BY DEF Put, WriteSession

LEMMA Unmoved ==
  ASSUME Types, NEW f \in File
  PROVE  [dest EXCEPT ![f] = dest[f]] = dest
BY DEF Types

Leaves(r, typ, x) == r.typ = typ /\ r.sess = x /\ r.dest = dest

LEMMA OutcomeFacts ==
  ASSUME Types, NEW typ, NEW x, NEW f \in File
  PROVE  Leaves(Outcome(typ, x, f, dest[f]), typ, x)
BY Unmoved DEF Outcome, Leaves

LEMMA DoneOther ==
  ASSUME Types, NEW s \in Slots, NEW q \in Req
  PROVE  /\ q.op \in {"Stat", "GetSig"} => Leaves(Done(s, q), AnswerTo(q.op), sess[s])
         /\ q.op = "BeginWrite" => IF sess[s] = NoSession THEN Leaves(Done(s, q), "OK", Held(q.file, 0))
                                   ELSE Leaves(Done(s, q), "Err", sess[s])
         /\ q.op = "Abort" => Leaves(Done(s, q), "OK", NoSession)
         /\ q.op = "OpenRead" => Leaves(Done(s, q), "Err", NoSession)
         /\ q.op \in Puts \cup {"Commit"} /\ sess[s] = NoSession => Leaves(Done(s, q), "Err", NoSession)
<1>file. q.file \in File  BY DEF Req
<1>1. q.op \in {"Stat", "GetSig"} => Done(s, q) = Outcome(AnswerTo(q.op), sess[s], q.file, dest[q.file])
  BY DEF Done
<1>2. q.op = "BeginWrite" /\ sess[s] = NoSession
      => Done(s, q) = Outcome("OK", Held(q.file, 0), q.file, dest[q.file])
  <2>1. Held(q.file, 0) = [file |-> q.file, stage |-> [i \in 1..Blocks |-> Blank]]
    BY BoundsAssumption DEF Held
  <2> QED  BY <2>1 DEF Done
<1>3. q.op = "BeginWrite" /\ sess[s] # NoSession => Done(s, q) = Outcome("Err", sess[s], q.file, dest[q.file])
  BY DEF Done
<1>4. q.op = "Abort" => Done(s, q) = Outcome("OK", NoSession, q.file, dest[q.file])
  BY DEF Done
<1>5. q.op = "OpenRead" => Done(s, q) = Outcome("Err", NoSession, q.file, dest[q.file])
  BY DEF Done
<1>6. q.op \in {"WriteChunk", "ReuseChunk", "Commit"} /\ sess[s] = NoSession
      => Done(s, q) = Outcome("Err", sess[s], q.file, dest[q.file])
  BY DEF Done
<1> QED  BY <1>file, <1>1, <1>2, <1>3, <1>4, <1>5, <1>6, OutcomeFacts DEF Puts

LEMMA DonePut ==
  ASSUME Types, NEW s \in Slots, NEW q \in Req, q.op \in Puts, sess[s] # NoSession
  PROVE  IF q.at \in 1..Blocks /\ (q.op = "ReuseChunk" => dest[q.file][q.at] = q.block)
         THEN Leaves(Done(s, q), "OK", Put(sess[s], q.at, q.block))
         ELSE Leaves(Done(s, q), "Err", NoSession)
<1>file. q.file \in File  BY DEF Req
<1>1. q.op = "WriteChunk" =>
        Done(s, q) = IF q.at \in 1..Blocks
                     THEN Outcome("OK", Put(sess[s], q.at, q.block), q.file, dest[q.file])
                     ELSE Outcome("Err", NoSession, q.file, dest[q.file])
  BY DEF Done, Put
<1>2. q.op = "ReuseChunk" =>
        Done(s, q) = IF q.at \in 1..Blocks /\ dest[q.file][q.at] = q.block
                     THEN Outcome("OK", Put(sess[s], q.at, q.block), q.file, dest[q.file])
                     ELSE Outcome("Err", NoSession, q.file, dest[q.file])
  BY DEF Done, Put
<1> QED  BY <1>file, <1>1, <1>2, OutcomeFacts DEF Puts

LEMMA DoneCommit ==
  ASSUME Types, NEW s \in Slots, NEW q \in Req, q.op = "Commit", sess[s] # NoSession
  PROVE  IF sess[s].stage = q.sig
         THEN /\ Done(s, q).typ = "OK" /\ Done(s, q).sess = NoSession
              /\ Done(s, q).dest = [dest EXCEPT ![sess[s].file] = q.sig]
         ELSE Leaves(Done(s, q), "Err", NoSession)
<1>file. q.file \in File  BY DEF Req
<1>1. Done(s, q) = IF sess[s].stage = q.sig THEN Outcome("OK", NoSession, sess[s].file, q.sig)
                   ELSE Outcome("Err", NoSession, q.file, dest[q.file])
  BY DEF Done
<1>2. /\ Outcome("OK", NoSession, sess[s].file, q.sig).typ = "OK"
      /\ Outcome("OK", NoSession, sess[s].file, q.sig).sess = NoSession
      /\ Outcome("OK", NoSession, sess[s].file, q.sig).dest = [dest EXCEPT ![sess[s].file] = q.sig]
  BY DEF Outcome
<1> QED  BY <1>file, <1>1, <1>2, OutcomeFacts

LEMMA RefusedFacts ==
  ASSUME Types, NEW s \in Slots, NEW q \in Req, NEW r, r = Refused(s, q)
  PROVE  r.typ = "Err" /\ r.dest = dest
         /\ r.sess = IF q.op \in Puts \cup {"Commit"} THEN NoSession ELSE sess[s]
BY Unmoved DEF Refused, Outcome, Puts, Req

(* Whatever the request, and whoever sent it. *)
LEMMA DoesFacts ==
  ASSUME Types, Files, NEW s \in Slots, NEW q \in Req, NEW r, Does(s, q, r), NEW x, x = sess[s],
         q.op = "Commit" /\ x # NoSession => x.file = q.file /\ q.sig = Source(q.file)
  PROVE  /\ r.typ \in {AnswerTo(q.op), "Err"}
         /\ r.sess \in WriteSession \cup {NoSession}
         /\ r.sess # NoSession => r.sess.file = IF x = NoSession THEN q.file ELSE x.file
         /\ q.op \in {"Stat", "GetSig"} => r.sess = x
         /\ dest' \in [File -> [1..Blocks -> Block]] /\ Files'
         /\ \A f \in File : dest[f] = Source(f) => dest'[f] = Source(f)
         /\ hurt \subseteq hurt' /\ hurt' \subseteq File /\ troubles' \in 0..MaxTroubles
<1>typed. /\ q.file \in File /\ q.op \in Ops /\ q.block \in Block
          /\ x \in WriteSession \cup {NoSession}
  BY DEF Types, Req
<1>1. dest' = r.dest  BY DEF Does
<1>2. hurt \subseteq hurt' /\ hurt' \subseteq File /\ troubles' \in 0..MaxTroubles
  BY <1>typed, BoundsAssumption DEF Types, Does, Trouble
<1>3. ASSUME r.dest = dest
      PROVE  /\ dest' \in [File -> [1..Blocks -> Block]] /\ Files'
             /\ \A f \in File : dest[f] = Source(f) => dest'[f] = Source(f)
  BY <1>1, <1>3 DEF Types, Files
<1>4. CASE r = Refused(s, q)
  <2>1. r.typ = "Err" /\ r.dest = dest /\ r.sess \in {x, NoSession}
        /\ (q.op \in {"Stat", "GetSig"} => r.sess = x)
    BY <1>4, RefusedFacts DEF Puts
  <2> QED  BY <2>1, <1>2, <1>3, <1>typed
<1>5. CASE r = Done(s, q)
  <2> DEFINE Typed == /\ r.sess \in WriteSession \cup {NoSession}
                      /\ r.sess # NoSession => r.sess.file = IF x = NoSession THEN q.file ELSE x.file
  <2>1. ASSUME NEW typ, NEW y, Leaves(r, typ, y)
        PROVE  r.typ = typ /\ r.sess = y /\ r.dest = dest
    BY <2>1 DEF Leaves
  <2>2. CASE q.op \in {"Stat", "GetSig"}
    <3>1. Leaves(r, AnswerTo(q.op), x)  BY <2>2, <1>5, DoneOther
    <3> QED  BY <2>1, <2>2, <3>1, <1>2, <1>3, <1>typed
  <2>3. CASE q.op \in {"BeginWrite", "Abort", "OpenRead"}
    <3>1. PICK y : y = Held(q.file, 0)  OBVIOUS
    <3>2. y \in WriteSession /\ y.file = q.file  BY <3>1, <1>typed, HeldTyped
    <3>3. \/ Leaves(r, "OK", NoSession) \/ Leaves(r, "Err", x) \/ Leaves(r, "Err", NoSession)
          \/ (x = NoSession /\ Leaves(r, "OK", y))
      BY <2>3, <3>1, <1>5, DoneOther
    <3>4. r.dest = dest /\ r.typ \in {"OK", "Err"}
          /\ (r.sess \in {x, NoSession} \/ (x = NoSession /\ r.sess = y))
      BY <3>3, <2>1
    <3>5. Typed  BY <3>2, <3>4, <1>typed
    <3>6. AnswerTo(q.op) = "OK"  BY <2>3, AnswerFacts
    <3> QED  BY <2>3, <3>4, <3>5, <3>6, <1>2, <1>3
  <2>4. CASE q.op \in Puts
    <3>1. AnswerTo(q.op) = "OK"  BY <2>4, AnswerFacts DEF Puts
    <3>2. PICK y : y = Put(x, q.at, q.block)  OBVIOUS
    <3>3. \/ Leaves(r, "Err", NoSession)
          \/ x # NoSession /\ q.at \in 1..Blocks /\ Leaves(r, "OK", y)
      BY <2>4, <3>2, <1>5, DoneOther, DonePut
    <3>4. x # NoSession /\ q.at \in 1..Blocks => y \in WriteSession /\ y.file = x.file
      BY <3>2, <1>typed, PutFacts
    <3>5. Typed /\ r.typ \in {"OK", "Err"} /\ r.dest = dest  BY <2>1, <3>3, <3>4
    <3> QED  BY <2>4, <3>1, <3>5, <1>2, <1>3 DEF Puts
  <2>5. CASE q.op = "Commit"
    <3>1. CASE Leaves(r, "Err", NoSession)
      <4>1. r.typ = "Err" /\ r.sess = NoSession /\ r.dest = dest  BY <3>1, <2>1
      <4> QED  BY <2>5, <4>1, <1>2, <1>3
    <3>2. CASE ~Leaves(r, "Err", NoSession)
      <4>1. x # NoSession /\ r.typ = "OK" /\ r.sess = NoSession /\ r.dest = [dest EXCEPT ![x.file] = q.sig]
        BY <2>5, <3>2, <1>5, DoneOther, DoneCommit DEF Puts
      <4>2. dest' = [dest EXCEPT ![q.file] = Source(q.file)]  BY <2>5, <4>1, <1>1
      <4>3. Source(q.file) \in [1..Blocks -> Block]  BY <1>typed, BlockFacts
      <4>4. /\ dest' \in [File -> [1..Blocks -> Block]]
            /\ \A f \in File : dest'[f] = IF f = q.file THEN Source(f) ELSE dest[f]
        BY <4>2, <4>3, <1>typed DEF Types
      <4>5. Files'  BY <4>4 DEF Files
      <4> QED  BY <2>5, <4>1, <4>4, <4>5, <1>2, AnswerFacts
    <3> QED  BY <3>1, <3>2
  <2> QED  BY <2>2, <2>3, <2>4, <2>5, <1>typed DEF Ops, Puts
<1> QED  BY <1>4, <1>5 DEF Does

(* A call made in good order: what its worker's session was is what it expects,
   and the same of what the session has become. *)
Stats == {"stat1", "stat2", "restat"}

LEMMA ReusesOwn ==
  ASSUME Types, Files, NEW w \in Worker, WorkerOK(w), me[w].pc = "chunk"
  PROVE  /\ Len(me[w].got) \in 1..Blocks /\ Last(me[w].got) = <<me[w].job, Len(me[w].got)>>
         /\ me[w].job \in File
         /\ Op(w) = "ReuseChunk" => dest[me[w].job][Len(me[w].got)] = Last(me[w].got)
<1>file. me[w].job \in File  BY DEF WorkerOK
<1>got. me[w].got \in Seq(Block) /\ me[w].got # <<>> /\ Upto(me[w].job, me[w].got)
  BY WorkerTyped DEF WorkerOK, Reads
<1> PICK n : n = Len(me[w].got)  OBVIOUS
<1>1. n \in 1..Blocks /\ Last(me[w].got) = <<me[w].job, n>>
  <2>1. n \in Nat /\ n >= 1 /\ n <= Blocks  BY <1>got, Rest DEF Upto
  <2>2. me[w].got[n] = <<me[w].job, n>>  BY <2>1, <1>got DEF Upto
  <2> QED  BY <2>1, <2>2, BoundsAssumption DEF Last
<1>2. Op(w) = "ReuseChunk" => n \in Known
  <2>1. Op(w) = "ReuseChunk" => \E i \in Known : Last(me[w].got) = Source(me[w].job)[i]
    BY DEF Op
  <2>2. \A i \in Known : Source(me[w].job)[i] = <<me[w].job, i>>
    BY BoundsAssumption DEF Source
  <2> QED  BY <2>1, <2>2, <1>1
<1>3. n \in Known => Old(me[w].job)[n] = <<me[w].job, n>> /\ Source(me[w].job)[n] = <<me[w].job, n>>
  BY <1>1 DEF Old, Source
<1>4. dest[me[w].job] \in {Old(me[w].job), Source(me[w].job)}  BY <1>file DEF Files
<1> QED  BY <1>file, <1>1, <1>2, <1>3, <1>4

LEMMA Extended ==
  ASSUME NEW f \in File, NEW n \in 1..Blocks
  PROVE  Put(Held(f, n - 1), n, <<f, n>>) = Held(f, n)
<1> PICK g : g = [i \in 1..Blocks |-> IF i <= n - 1 THEN <<f, i>> ELSE Blank]  OBVIOUS
<1>1. \A i \in 1..Blocks : i <= n <=> (i = n \/ i <= n - 1)  BY BoundsAssumption
<1>2. [g EXCEPT ![n] = <<f, n>>] = [i \in 1..Blocks |-> IF i <= n THEN <<f, i>> ELSE Blank]
  BY <1>1
<1>4. Put(Held(f, n - 1), n, <<f, n>>) = [file |-> f, stage |-> [g EXCEPT ![n] = <<f, n>>]]
  <2> PICK p : p = Put(Held(f, n - 1), n, <<f, n>>)  OBVIOUS
  <2>1. n - 1 \in Nat /\ <<f, n>> \in Block  BY BoundsAssumption, BlockFacts
  <2>2. Held(f, n - 1) \in WriteSession  BY <2>1, HeldTyped
  <2>3. /\ p \in WriteSession /\ p.file = Held(f, n - 1).file
        /\ p.stage = [Held(f, n - 1).stage EXCEPT ![n] = <<f, n>>]
    BY <2>1, <2>2, PutFacts
  <2>4. Held(f, n - 1).file = f /\ Held(f, n - 1).stage = g  BY <2>1, HeldTyped
  <2> QED  BY <2>3, <2>4 DEF WriteSession
<1> QED  BY <1>2, <1>4 DEF Held

LEMMA CallFacts ==
  ASSUME Types, Files, Workers, NEW w \in Worker, me[w].pc \in Calls, NEW s \in Slots,
         NEW r, Does(s, Request(w), r), NEW x, x = sess[s],
         me[w].pc \notin Stats => Before(me[w], x)
  PROVE  /\ r.typ \in {AnswerTo(Op(w)), "Err"} /\ r.sess \in WriteSession \cup {NoSession}
         /\ r.typ = "Err" => me[w].job \in hurt'
         /\ me[w].pc \in Stats => r.sess = x
         /\ me[w].pc \notin Stats => After(me[w], r.typ, r.sess)
         /\ r.typ = "OK" /\ me[w].pc = "commit" => dest'[me[w].job] = Source(me[w].job)
<1>ok. WorkerOK(w) /\ me[w].job \in File  BY Routes DEF Workers, WorkerOK
<1>bad. me[w].pc # "abort" => me[w].bad = "no"  BY <1>ok, Routes DEF WorkerOK
<1> PICK q : q = Request(w)  OBVIOUS
<1>q. /\ q \in Req /\ q.op = Op(w) /\ q.file = me[w].job /\ q.at = Len(me[w].got)
      /\ me[w].pc = "chunk" => q.block = Last(me[w].got)
      /\ me[w].pc = "commit" => q.sig = me[w].sig
  BY RequestTyped
<1>does. Does(s, q, r)  OBVIOUS
<1>refused. r = Refused(s, q) /\ r # Done(s, q) => q.file \in hurt' /\ q.op # "Abort"
  BY <1>does DEF Does
<1>either. r = Refused(s, q) \/ r = Done(s, q)  BY <1>does DEF Does
<1>no. ASSUME r = Refused(s, q), r # Done(s, q)
       PROVE  /\ r.typ = "Err" /\ q.file \in hurt'
              /\ r.sess = IF q.op \in Puts \cup {"Commit"} THEN NoSession ELSE x
  BY <1>no, <1>q, <1>refused, RefusedFacts
<1>leaves. \A typ, y : Leaves(r, typ, y) => r.typ = typ /\ r.sess = y  BY DEF Leaves
<1>1. CASE me[w].pc \in Stats \cup {"quick", "sign"}
  <2>1. Op(w) \in {"Stat", "GetSig"}  BY <1>1, OpFacts DEF Stats
  <2>2. r = Done(s, q) => r.typ = AnswerTo(Op(w)) /\ r.sess = x  BY <2>1, <1>q, <1>leaves, DoneOther
  <2>3. r.typ \in {AnswerTo(Op(w)), "Err"} /\ r.sess = x /\ (r.typ = "Err" => me[w].job \in hurt')
    BY <2>1, <2>2, <1>either, <1>no, <1>q, AnswerFacts DEF Puts
  <2>4. me[w].pc \notin Stats => x = NoSession /\ me[w].pc \notin {"begin", "chunk"}
    BY <1>1 DEF Before, Writes
  <2>5. x \in WriteSession \cup {NoSession}  BY DEF Types
  <2> QED  BY <1>1, <2>3, <2>4, <2>5 DEF After, Stats
<1>2. CASE me[w].pc = "begin"
  <2>1. x = NoSession /\ Op(w) = "BeginWrite"  BY <1>2, OpFacts DEF Before, Writes, Stats
  <2>2. PICK y : y = Held(me[w].job, 0)  OBVIOUS
  <2>3. y \in WriteSession  BY <2>2, <1>ok, HeldTyped
  <2>4. r = Done(s, q) => r.typ = "OK" /\ r.sess = y
    <3>1. q.op = "BeginWrite" /\ q.file = me[w].job  BY <2>1, <1>q
    <3>2. Leaves(Done(s, q), "OK", Held(q.file, 0))  BY <2>1, <3>1, <1>q, DoneOther
    <3> QED  BY <2>2, <3>1, <3>2, <1>leaves
  <2>5. \/ r.typ = "OK" /\ r.sess = y
        \/ r.typ = "Err" /\ r.sess = NoSession /\ me[w].job \in hurt'
    BY <2>1, <2>4, <1>either, <1>no, <1>q DEF Puts
  <2>6. AnswerTo(Op(w)) = "OK"  BY <2>1, AnswerFacts
  <2> QED  BY <1>2, <2>2, <2>3, <2>5, <2>6 DEF After, Stats
<1>3. CASE me[w].pc = "chunk"
  <2> PICK n : n = Len(me[w].got)  OBVIOUS
  <2>1. Op(w) \in Puts /\ me[w].bad = "no"  BY <1>3, <1>bad, OpFacts DEF Puts
  <2>2. n \in 1..Blocks /\ q.at = n /\ q.block = <<me[w].job, n>>
        /\ (q.op = "ReuseChunk" => dest[q.file][n] = q.block)
    BY <1>3, <1>ok, <1>q, ReusesOwn
  <2>3. x = Held(me[w].job, n - 1)  BY <1>3, <2>1 DEF Before, Writes, Written, Stats
  <2>4. x # NoSession
    <3>1. n - 1 \in Nat  BY <2>2, BoundsAssumption
    <3> QED  BY <2>3, <3>1, <1>ok, HeldTyped
  <2>5. PICK y : y = Held(me[w].job, n)  OBVIOUS
  <2>6. y \in WriteSession /\ Put(x, q.at, q.block) = y
    <3>1. n \in Nat  BY <2>2, BoundsAssumption
    <3>2. y \in WriteSession  BY <2>5, <3>1, <1>ok, HeldTyped
    <3>3. Put(Held(me[w].job, n - 1), n, <<me[w].job, n>>) = y  BY <2>2, <2>5, <1>ok, Extended
    <3> QED  BY <2>2, <2>3, <3>2, <3>3
  <2>7. r = Done(s, q) => r.typ = "OK" /\ r.sess = y
    <3>1. Leaves(Done(s, q), "OK", Put(x, q.at, q.block))  BY <2>1, <2>2, <2>4, <1>q, DonePut
    <3> QED  BY <3>1, <2>6, <1>leaves
  <2>8. \/ r.typ = "OK" /\ r.sess = y
        \/ r.typ = "Err" /\ r.sess = NoSession /\ me[w].job \in hurt'
    BY <2>1, <2>7, <1>either, <1>no, <1>q
  <2>9. AnswerTo(Op(w)) = "OK"  BY <2>1, AnswerFacts DEF Puts
  <2> QED  BY <1>3, <2>5, <2>6, <2>8, <2>9 DEF After, Stats
<1>4. CASE me[w].pc = "commit"
  <2>1. Op(w) = "Commit" /\ me[w].bad = "no"  BY <1>4, <1>bad, OpFacts
  <2>2. me[w].got \in Seq(Block) /\ Len(me[w].got) = Blocks /\ me[w].sig = Source(me[w].job)
    BY <1>4, <2>1, <1>ok, WorkerTyped DEF WorkerOK, Writes
  <2>3. x = Held(me[w].job, Blocks)  BY <1>4, <2>1, <2>2 DEF Before, Writes, Written, Stats
  <2>4. x # NoSession /\ x.file = me[w].job /\ x.stage = Source(me[w].job)
    <3>1. Blocks \in Nat  BY BoundsAssumption
    <3>2. [i \in 1..Blocks |-> IF i <= Blocks THEN <<me[w].job, i>> ELSE Blank] = Source(me[w].job)
      BY <3>1 DEF Source
    <3> QED  BY <2>3, <3>1, <3>2, <1>ok, HeldTyped
  <2>5. r = Done(s, q) => r.typ = "OK" /\ r.sess = NoSession /\ r.dest = [dest EXCEPT ![me[w].job] = Source(me[w].job)]
    BY <1>4, <2>1, <2>2, <2>4, <1>q, DoneCommit
  <2>6. \/ /\ r.typ = "OK" /\ r.sess = NoSession
           /\ r.dest = [dest EXCEPT ![me[w].job] = Source(me[w].job)]
        \/ r.typ = "Err" /\ r.sess = NoSession /\ me[w].job \in hurt'
    BY <2>1, <2>5, <1>either, <1>no, <1>q
  <2>7. r.typ = "OK" => dest'[me[w].job] = Source(me[w].job)
    BY <2>6, <1>ok, <1>does DEF Does, Types
  <2>8. AnswerTo(Op(w)) = "OK"  BY <2>1, AnswerFacts
  <2> QED  BY <1>4, <2>6, <2>7, <2>8 DEF After, Stats
<1>5. CASE me[w].pc = "abort"
  <2>1. Op(w) = "Abort"  BY <1>5, OpFacts
  <2>2. Leaves(Done(s, q), "OK", NoSession)  BY <2>1, <1>q, DoneOther
  <2>3. r.typ = "OK" /\ r.sess = NoSession  BY <2>1, <2>2, <1>either, <1>leaves, <1>q, <1>refused
  <2>4. AnswerTo(Op(w)) = "OK"  BY <2>1, AnswerFacts
  <2> QED  BY <1>5, <2>3, <2>4 DEF After, Stats
<1> QED  BY <1>1, <1>2, <1>3, <1>4, <1>5, Routes DEF Stats

LEMMA LocalCallKeeps ==
  ASSUME IInv, NEW w \in Worker, LocalCall(w)
  PROVE  IInv'
<1> PICK e : e = EndOf(me[w].pc)  OBVIOUS
<1> PICK r : Does(w, Request(w), r) /\ sess' = [sess EXCEPT ![w] = r.sess]
             /\ me' = [me EXCEPT ![w] = Answered(w, r.typ = AnswerTo(Op(w)))]
  BY DEF LocalCall
<1> PICK ok \in BOOLEAN : ok <=> r.typ = AnswerTo(Op(w))
  <2>1. (r.typ = AnswerTo(Op(w))) \in BOOLEAN  OBVIOUS
  <2> QED  BY <2>1
<1>types. /\ Types /\ Files /\ Workers /\ WorkerOK(w) /\ w \in Crew /\ me[w].job \in File
          /\ me[w].pc # "idle" /\ me[w].pc \in Calls /\ e \in Ends /\ e \notin remote /\ w \in Slots
  BY Routes, PlaceFacts DEF IInv, Workers, WorkerOK, LocalCall, EndOf, Slots
<1>same. UNCHANGED <<remote, link, queue, result, canceled>>  BY DEF LocalCall
<1>idle. ~me[w].waiting  BY <1>types DEF WorkerOK
<1>step. /\ me' \in [Worker -> Me] /\ me'[w] = Answered(w, ok) /\ \A v \in Worker \ {w} : me'[v] = me[v]
  <2>1. me' = [me EXCEPT ![w] = Answered(w, ok)]  BY DEF Answered
  <2>2. Answered(w, ok) \in Me  BY <1>types, AnsweredFacts
  <2> QED  BY <2>1, <2>2, <1>types, MeSet
<1>me. ~me'[w].waiting /\ me'[w].job = me[w].job
  <2>1. ~Answered(w, ok).waiting /\ Answered(w, ok).job = me[w].job  BY <1>types, AnsweredFacts
  <2> QED  BY <2>1, <1>step
<1>stat. me[w].pc \in Stats <=> e = "src"
  <2>1. EndOf(me[w].pc) = "src" <=> me[w].pc \in Stats  BY <1>types, PlaceFacts, Routes DEF Stats
  <2> QED  BY <2>1
<1>session. /\ Slot(w)' = Slot(w) /\ (e = "dst" => Slot(w) = w)
            /\ ("dst" \in remote => link["dst"].up) => Before(me[w], sess[Slot(w)])
  <2>1. ~Calling(w, "dst")  BY <1>idle DEF Calling
  <2>2. ("dst" \in remote => link["dst"].up) => Session(w)  BY <1>types DEF IInv, Sessions
  <2> QED  BY <2>1, <2>2, <1>types, <1>same DEF Session, Slot
<1> PICK x : x = sess[w]  OBVIOUS
<1>before. me[w].pc \notin Stats => Before(me[w], x)
  <2>1. e # "src" => e = "dst"  BY <1>types, PlaceFacts
  <2> QED  BY <2>1, <1>stat, <1>session, <1>types
<1>call. /\ r.typ \in {AnswerTo(Op(w)), "Err"} /\ r.sess \in WriteSession \cup {NoSession}
         /\ r.typ = "Err" => me[w].job \in hurt'
         /\ me[w].pc \in Stats => r.sess = x
         /\ me[w].pc \notin Stats => After(me[w], r.typ, r.sess)
         /\ r.typ = "OK" /\ me[w].pc = "commit" => dest'[me[w].job] = Source(me[w].job)
  BY <1>types, <1>before, CallFacts
<1>does. /\ dest' \in [File -> [1..Blocks -> Block]] /\ Files'
         /\ \A f \in File : dest[f] = Source(f) => dest'[f] = Source(f)
         /\ hurt \subseteq hurt' /\ hurt' \subseteq File /\ troubles' \in 0..MaxTroubles
  <2> PICK q : q = Request(w)  OBVIOUS
  <2>1. q \in Req /\ q.op = Op(w) /\ q.file = me[w].job /\ (me[w].pc = "commit" => q.sig = me[w].sig)
    BY <1>types, RequestTyped
  <2>2. q.op = "Commit" => me[w].pc = "commit"  BY <2>1, <1>types, OpFacts, Routes
  <2>3. me[w].pc = "commit" => me[w].sig = Source(me[w].job)  BY <1>types DEF WorkerOK, Writes
  <2>4. me[w].pc = "commit" /\ x # NoSession => x.file = me[w].job
    BY <1>before DEF Before, Held, Stats
  <2>5. q.op = "Commit" /\ x # NoSession => x.file = q.file /\ q.sig = Source(q.file)
    BY <2>1, <2>2, <2>3, <2>4
  <2> QED  BY <2>1, <2>5, <1>types, DoesFacts
<1>1. Types'
  <2>1. sess' \in [Slots -> WriteSession \cup {NoSession}]  BY <1>types, <1>call DEF Types
  <2> QED  BY <2>1, <1>types, <1>step, <1>same, <1>does DEF Types
<1>2. SameJobs /\ Grows
  BY <1>me, <1>step, <1>same, <1>does DEF SameJobs, Grows
<1>3. WorkerOK(w)' /\ me'[w].pc # "idle"
  <2>1. me[w].pc = "commit" => AnswerTo(Op(w)) = "OK"  BY OpFacts, AnswerFacts
  <2>2. ok /\ me[w].pc = "commit" => dest'[me[w].job] = Source(me[w].job)  BY <2>1, <1>call
  <2>3. ~ok => me[w].job \in hurt'  BY <1>call
  <2> QED  BY <2>2, <2>3, <1>2, <1>step, <1>types, AnsweredOK
<1>4. ASSUME NEW d \in Ends
      PROVE  /\ link'[d].holder = w <=> Holds(w, d)'
             /\ link'[d].holder = w => Conv(w, d)'
  <2>1. CASE d = e
    <3>1. link'[d].holder # w  BY <2>1, <1>types, <1>same, BoundsAssumption DEF IInv, Lost
    <3>2. ~Holds(w, d)'  BY <2>1, <1>me, <1>types, <1>same DEF Holds, Calling, Reading, Writing
    <3> QED  BY <3>1, <3>2
  <2>2. CASE d # e  BY <2>2, <1>2, <1>step, <1>types, <1>same, OtherEnd
  <2> QED  BY <2>1, <2>2
<1>5. ("dst" \in remote => link["dst"].up) => Session(w)'
  <2> SUFFICES ASSUME "dst" \in remote => link["dst"].up  PROVE Session(w)'  OBVIOUS
  <2> PICK y : y = sess'[Slot(w)]  OBVIOUS
  <2>1. ~Calling(w, "dst")'  BY <1>me DEF Calling
  <2>2. Before(Answered(w, ok), y)
    <3>1. CASE me[w].pc \in Stats
      <4>1. sess' = sess  BY <3>1, <1>call, <1>types DEF Types
      <4>2. Before(me[w], y)  BY <4>1, <1>session
      <4> QED  BY <3>1, <4>2, <1>types, StatReturns DEF Stats
    <3>2. CASE me[w].pc \notin Stats
      <4>1. Slot(w) = w  BY <3>2, <1>stat, <1>session, <1>types, PlaceFacts
      <4>2. y = r.sess  BY <4>1, <1>types DEF Types
      <4>3. After(me[w], r.typ, y)  BY <3>2, <4>2, <1>call
      <4> QED  BY <3>2, <4>3, <1>call, <1>types, ReturnsTo DEF Stats
    <3> QED  BY <3>1, <3>2
  <2>3. Slot(w)' = Slot(w)  BY <1>session
  <2>4. sess'[Slot(w)'] = y  BY <2>3
  <2> QED  BY <2>1, <2>2, <2>4, <1>step DEF Session
<1>6. "dst" \in remote => sess' = sess
  <2>1. "dst" \in remote => me[w].pc \in Stats  BY <1>stat, <1>types, PlaceFacts
  <2> QED  BY <2>1, <1>call, <1>types DEF Types
<1>7. \A s \in Slots \ {Slot(w)} : sess'[s] = sess[s]
  <2>1. "dst" \notin remote => Slot(w) = w  BY DEF Slot
  <2> QED  BY <2>1, <1>6, <1>types DEF Types
<1>8. WorkerStepKeeps(w)
  <2>1. \A d \in Ends : link'[d] = link[d]  BY <1>same
  <2> QED
    BY <2>1, <1>1, <1>2, <1>3, <1>4, <1>5, <1>6, <1>7, <1>does, <1>step DEF WorkerStepKeeps
<1> QED  BY <1>8, <1>types, WorkerFrame
-----------------------------------------------------------------------------
(* The workers' readers, which only the source has. *)
LEMMA ReaderFrame ==
  ASSUME IInv, NEW w \in Worker, me[w].pc # "idle", ~me[w].waiting,
         NEW m \in Me, me' = [me EXCEPT ![w] = m], ~m.waiting, m.job = me[w].job, m.pc # "idle",
         m.pc \in Writes <=> me[w].pc \in Writes,
         \A x : Before(me[w], x) => Before(m, x),
         WorkerOK(w)',
         UNCHANGED <<remote, sess, dest, queue, result, canceled>>,
         hurt \subseteq hurt', hurt' \subseteq File, troubles' \in 0..MaxTroubles,
         link' \in [Ends -> Link], link'["dst"] = link["dst"], link'["src"].up = link["src"].up,
         link'["src"] # link["src"] =>
            /\ "src" \in remote /\ link["src"].holder \in {w, Nobody}
            /\ link'["src"].holder \in {w, Nobody} /\ Limits("src")'
            /\ link'["src"].holder = Nobody => Quiet("src")',
         link'["src"].holder = w <=> ("src" \in remote /\ m.pc \in Reads),
         link'["src"].holder = w => IF m.eof THEN Quiet("src")' ELSE Streams(m, link'["src"], hurt')
  PROVE  IInv'
<1>types. Types /\ Workers /\ Ends = {"src", "dst"}  BY PlaceFacts DEF IInv
<1>step. me' \in [Worker -> Me] /\ me'[w] = m /\ \A v \in Worker \ {w} : me'[v] = me[v]
  BY <1>types, MeSet
<1>1. Types'  BY <1>types, <1>step DEF Types
<1>2. SameJobs /\ Grows  BY <1>step DEF SameJobs, Grows
<1>3. ~Calling(w, "src")' /\ ~Calling(w, "dst")' /\ ~Calling(w, "dst")  BY <1>step DEF Calling
<1>4. /\ link'["src"].holder = w <=> Holds(w, "src")'
      /\ link'["src"].holder = w => Conv(w, "src")'
  <2>1. Holds(w, "src")' <=> ("src" \in remote /\ m.pc \in Reads)
    BY <1>3, <1>step DEF Holds, Reading
  <2>2. InStream(w)' <=> Streams(m, link'["src"], hurt')  BY <1>step DEF InStream
  <2> QED  BY <2>1, <2>2, <1>3, <1>step DEF Conv
<1>5. /\ link'["dst"].holder = w <=> Holds(w, "dst")'
      /\ link'["dst"].holder = w => Conv(w, "dst")'
  <2>1. Holds(w, "dst")' <=> Holds(w, "dst")  BY <1>3, <1>step DEF Holds, Writing
  <2>2. link["dst"].holder = w => Quiet("dst")  BY <1>3, <1>types DEF IInv, Talks, Talk, Conv
  <2>3. link["dst"].holder = w => Quiet("dst")'  BY <2>2, <1>types, QuietStays
  <2> QED  BY <2>1, <2>3, <1>3, <1>types DEF IInv, Holders, Conv
<1>6. ("dst" \in remote => link["dst"].up) => Session(w)'
  <2> SUFFICES ASSUME "dst" \in remote => link["dst"].up  PROVE Session(w)'  OBVIOUS
  <2>1. w \in Crew  BY <1>types DEF Workers, WorkerOK
  <2>2. Session(w)  BY <2>1 DEF IInv, Sessions
  <2> PICK x : x = sess[Slot(w)]  OBVIOUS
  <2>3. Before(m, x)  BY <2>2, <1>3 DEF Session
  <2>4. sess'[Slot(w)'] = x  BY DEF Slot
  <2> QED  BY <2>3, <2>4, <1>3, <1>step DEF Session
<1>7. WorkerStepKeeps(w)
  <2>1. Files'  BY DEF IInv, Files
  <2> QED  BY <2>1, <1>1, <1>2, <1>4, <1>5, <1>6, <1>types, <1>step DEF WorkerStepKeeps
<1> QED  BY <1>7, WorkerFrame

LEMMA OpenReadKeeps ==
  ASSUME IInv, NEW w \in Worker, OpenRead(w)
  PROVE  IInv'
<1>types. /\ Types /\ Workers /\ WorkerOK(w) /\ me[w].pc \in {"open1", "open2"}
          /\ me[w].job \in File /\ me[w].pc # "idle" /\ me[w].bad = "no" /\ ~me[w].waiting
          /\ w \in Crew /\ (me[w].pc = "open2" => me[w].sig = Source(me[w].job))
  BY Routes DEF IInv, Workers, WorkerOK, OpenRead, Writes
<1>same. UNCHANGED <<remote, sess, dest, queue, result, canceled>>  BY DEF OpenRead
<1>before. \A x : Before(me[w], x) => /\ me[w].pc = "open1" => x = NoSession
                                      /\ me[w].pc = "open2" => x = Held(me[w].job, 0)
  BY <1>types DEF Before, Writes, Written
<1> PICK l : l = Opening[me[w].pc]  OBVIOUS
<1>l. (me[w].pc = "open1" => l = "read1") /\ (me[w].pc = "open2" => l = "read2")  BY Routes
<1> PICK m : m = [me[w] EXCEPT !.pc = l, !.got = <<>>, !.eof = FALSE]  OBVIOUS
<1>m. /\ m \in Me /\ m.pc = l /\ m.got = <<>> /\ ~m.eof /\ ~m.waiting /\ m.job = me[w].job
      /\ m.sig = me[w].sig /\ m.bad = "no"
  <2>1. l \in Places /\ <<>> \in Seq(Block)  BY <1>l, <1>types, PlaceFacts
  <2> QED  BY <2>1, <1>types, WorkerTyped DEF Me
<1>opens. /\ m.pc \in Writes <=> me[w].pc \in Writes
          /\ m.pc \in Reads /\ m.pc # "idle"
          /\ \A x : Before(me[w], x) => Before(m, x)
  <2>1. m.pc \in {"read1", "read2"} /\ Len(m.got) = 0  BY <1>m, <1>l, <1>types
  <2> QED  BY <2>1, <1>m, <1>l, <1>types, <1>before DEF Before, Written, Writes, Reads
<1>ok. ASSUME me' = [me EXCEPT ![w] = m], hurt \subseteq hurt'  PROVE WorkerOK(w)'
  <2>1. me'[w] = m  BY <1>ok, <1>m, <1>types, MeSet
  <2>2. Crew' = Crew  BY <1>same DEF Crew
  <2>3. Upto(m.job, m.got)  BY <1>m, BoundsAssumption DEF Upto
  <2>4. m.pc \in {"read1", "read2"}  BY <1>m, <1>l, <1>types
  <2>5. m.pc = "read2" => m.sig = Source(m.job)  BY <1>m, <1>l, <1>types
  <2> QED  BY <2>1, <2>2, <2>3, <2>4, <2>5, <1>m, <1>types, Routes DEF WorkerOK, Writes
<1>remote. CASE /\ "src" \in remote /\ link["src"].holder = Nobody
                /\ link' = [link EXCEPT !["src"].holder = w, !["src"].requests = Sent("src", Request(w))]
                /\ me' = [me EXCEPT ![w].pc = l, ![w].got = <<>>, ![w].eof = FALSE]
                /\ UNCHANGED <<troubles, hurt>>
  <2>1. me' = [me EXCEPT ![w] = m]  BY <1>remote, <1>types DEF Types
  <2> PICK q : q = Request(w)  OBVIOUS
  <2>2. q \in Req /\ q.op = "OpenRead" /\ q.file = me[w].job
    BY <1>types, RequestTyped, OpFacts, Routes
  <2>3. Quiet("src")
    BY <1>remote, <1>types, Unheld, PlaceFacts DEF Calling
  <2> DEFINE k == [link["src"] EXCEPT !.holder = w, !.requests = Sent("src", q)]
  <2>4. /\ link' = [link EXCEPT !["src"] = k]
        /\ Sent("src", q) \in Seq(Req)
        /\ link["src"].up /\ link["src"].requests = <<>> => Sent("src", q) = <<q>>
        /\ ~link["src"].up => Sent("src", q) = link["src"].requests
    BY <1>remote, <1>types, <2>2, PlaceFacts, SentTyped DEF Types
  <2>5. k \in Link /\ k.up = link["src"].up /\ k.holder = w /\ k.requests = Sent("src", q)
        /\ k.replies = link["src"].replies /\ k.serving = link["src"].serving
    BY <2>4, <1>types, PlaceFacts, LinkTyped DEF Link
  <2> HIDE DEF k
  <2>6. link' \in [Ends -> Link] /\ link'["src"] = k /\ link'["dst"] = link["dst"]
    BY <2>4, <2>5, <1>types, PlaceFacts DEF Types
  <2>7. k.replies = <<>> /\ (k.up => k.requests = <<q>> /\ k.serving = Ready)
    BY <2>3, <2>4, <2>5 DEF Quiet, Awake
  <2>8. Streams(m, k, hurt')
    <3>1. InOrder(m, k.replies, hurt')  BY <2>7 DEF InOrder
    <3>2. k.up => Unserved(m, k)
      <4>1. Len(<<q>>) = 1 /\ <<q>>[1] = q  BY <2>2, Single
      <4>2. k.up => Len(k.requests) = 1 /\ k.requests[1] = q  BY <4>1, <2>7
      <4> QED  BY <4>2, <2>2, <2>7, <1>m DEF Unserved
    <3> QED  BY <3>1, <3>2 DEF Streams
  <2>9. Limits("src")'
    <3>1. Limits("src") /\ Len(k.replies) <= ReplyRoom
      BY <2>7, PlaceFacts, BoundsAssumption DEF IInv, Requests
    <3>2. CASE k.up
      <4>2. Len(<<q>>) = 1 /\ <<q>>[1] = q  BY <2>2, Single
      <4>3. link'["src"].requests = <<q>>  BY <3>2, <2>6, <2>7
      <4>4. Len(link'["src"].requests) <= 1  BY <4>2, <4>3
      <4>5. \A i \in 1..Len(link'["src"].requests) : link'["src"].requests[i] = q  BY <4>2, <4>3
      <4> QED  BY <4>4, <4>5, <3>1, <2>2, <2>6 DEF Limits, RequestOK
    <3>3. CASE ~k.up
      <4>1. k.requests = link["src"].requests  BY <3>3, <2>4, <2>5
      <4>2. SameJobs /\ Grows
        BY <2>1, <1>same, <1>remote, <1>m, <1>types, MeSet DEF SameJobs, Grows
      <4> QED  BY <4>1, <4>2, <3>1, <2>6, <1>types, PlaceFacts, LimitsStay
    <3> QED  BY <3>2, <3>3
  <2>10. WorkerOK(w)'  BY <2>1, <1>ok, <1>remote
  <2>11. hurt' \subseteq File /\ troubles' \in 0..MaxTroubles  BY <1>types, <1>remote DEF Types
  <2> QED
    BY <2>1, <2>5, <2>6, <2>8, <2>9, <2>10, <2>11, <1>remote, <1>types, <1>m, <1>opens, <1>same,
       BoundsAssumption, ReaderFrame
<1>local. ASSUME NEW n \in Me, me' = [me EXCEPT ![w] = n], ~n.waiting, n.job = me[w].job, n.pc # "idle",
                 n.pc \in Writes <=> me[w].pc \in Writes, \A x : Before(me[w], x) => Before(n, x),
                 WorkerOK(w)', "src" \notin remote, link' = link,
                 hurt \subseteq hurt', hurt' \subseteq File, troubles' \in 0..MaxTroubles
          PROVE  IInv'
  <2>1. link["src"].holder # w  BY <1>local, PlaceFacts, BoundsAssumption DEF IInv, Lost
  <2>2. link' \in [Ends -> Link]  BY <1>local, <1>types DEF Types
  <2> QED  BY <2>1, <2>2, <1>local, <1>types, <1>same, ReaderFrame
<1>opened. CASE /\ "src" \notin remote
                /\ me' = [me EXCEPT ![w].pc = l, ![w].got = <<>>, ![w].eof = FALSE]
                /\ UNCHANGED <<link, troubles, hurt>>
  <2>1. me' = [me EXCEPT ![w] = m]  BY <1>opened, <1>types DEF Types
  <2>2. WorkerOK(w)'  BY <2>1, <1>ok, <1>opened
  <2>3. hurt' \subseteq File /\ troubles' \in 0..MaxTroubles  BY <1>types, <1>opened DEF Types
  <2> QED  BY <2>1, <2>2, <2>3, <1>local, <1>opened, <1>m, <1>opens
<1>failed. CASE /\ "src" \notin remote /\ Trouble /\ hurt' = hurt \cup {me[w].job}
                /\ me' = [me EXCEPT ![w].pc = OnFailure[me[w].pc], ![w].bad = "plain"]
                /\ UNCHANGED link
  <2> PICK n : n = [me[w] EXCEPT !.pc = OnFailure[me[w].pc], !.bad = "plain"]  OBVIOUS
  <2>1. me' = [me EXCEPT ![w] = n]  BY <1>failed, <1>types DEF Types
  <2>2. OnFailure[me[w].pc] \in Places  BY <1>types, Routes, PlaceFacts
  <2>3. n \in Me /\ n.pc = OnFailure[me[w].pc] /\ n.bad = "plain" /\ ~n.waiting /\ n.job = me[w].job
    BY <2>2, <1>types, WorkerTyped DEF Me
  <2>4. (me[w].pc = "open1" => n.pc = "over") /\ (me[w].pc = "open2" => n.pc = "abort")  BY <2>3, Routes
  <2>5. (n.pc \in Writes <=> me[w].pc \in Writes) /\ n.pc # "idle"  BY <2>4, <1>types DEF Writes
  <2>6. \A x : Before(me[w], x) => Before(n, x)
    BY <2>3, <2>4, <1>types, <1>before DEF Before, Writes, Held
  <2>7. hurt \subseteq hurt' /\ hurt' \subseteq File /\ troubles' \in 0..MaxTroubles
    BY <1>failed, <1>types, BoundsAssumption DEF Types, Trouble
  <2>8. WorkerOK(w)'
    <3>1. me'[w] = n  BY <2>1, <2>3, <1>types, MeSet
    <3>2. Crew' = Crew  BY <1>same DEF Crew
    <3>3. n.pc \in {"over", "abort"} /\ n.job \in hurt'  BY <2>3, <2>4, <1>failed, <1>types
    <3> QED  BY <3>1, <3>2, <3>3, <2>3, <1>types DEF WorkerOK, Reads, Writes
  <2> QED  BY <2>1, <2>3, <2>5, <2>6, <2>7, <2>8, <1>failed, <1>local
<1> QED  BY <1>remote, <1>opened, <1>failed, Routes DEF OpenRead

LEMMA Shift ==
  ASSUME NEW g \in Nat, NEW i \in Nat
  PROVE  (g + 1) + i = g + (i + 1) /\ \A a \in Nat : a >= 1 => g + a = (g + 1) + (a - 1)
OBVIOUS

LEMMA LastPlace ==
  ASSUME NEW a \in Nat, a >= 1, NEW b, b = a - 1
  PROVE  b \in Nat /\ b + 1 = a /\ (a # 1 => b \in 1..b /\ b >= 1)
OBVIOUS

\* A reader takes the next reply of its stream, the last one or not; n is the
\* worker m after it, and k the connection.
LEMMA StreamEnd ==
  ASSUME NEW m, NEW l \in Link, NEW h, Streams(m, l, h), l.replies # <<>>,
         l.replies[1].typ # "ReadData"
  PROVE  Tail(l.replies) = <<>> /\ (l.up => l.requests = <<>> /\ l.serving = Ready)
<1>1. l.replies \in Seq(Rep)  BY DEF Link
<1>2. 1 \in 1..Len(l.replies)  BY <1>1, Rest
<1>3. Len(l.replies) = 1  BY <1>2 DEF Streams, InOrder
<1>4. ~Sending(m, l) /\ ~Unserved(m, l)  BY <1>2 DEF Sending, Unserved
<1>5. l.up => AllSent(l)  BY <1>4 DEF Streams
<1> QED  BY <1>1, <1>3, <1>5, Rest DEF AllSent

LEMMA StreamRest ==
  ASSUME NEW m \in Me, NEW l \in Link, NEW h, Streams(m, l, h), l.replies # <<>>,
         l.replies[1].typ = "ReadData",
         NEW n \in Me, n.job = m.job, Closed(n) <=> Closed(m), ~Closed(m) => Len(n.got) = Len(m.got) + 1,
         NEW k \in Link, k.up = l.up, k.requests = l.requests, k.serving = l.serving,
         k.replies = Tail(l.replies)
  PROVE  Streams(n, k, h)
<1> DEFINE in == l.replies
           rest == k.replies
<1>1. /\ in \in Seq(Rep) /\ Len(in) \in Nat /\ Len(in) >= 1
      /\ rest \in Seq(Rep) /\ Len(rest) = Len(in) - 1
      /\ \A i \in 1..Len(rest) : rest[i] = in[i + 1]
  <2>1. in \in Seq(Rep) /\ in # <<>>  BY DEF Link
  <2> QED  BY <2>1, Rest
<1>2. InOrder(m, in, h) /\ (l.up => Unserved(m, l) \/ Sending(m, l) \/ AllSent(l))
  BY DEF Streams
<1>3. ~Unserved(m, l)  BY DEF Unserved
<1>typed. Len(m.got) \in Nat /\ Len(n.got) \in Nat  BY DEF Me
<1> PICK g, p, a, b : g = Len(m.got) /\ p = Len(n.got) /\ a = Len(in) /\ b = Len(rest)  OBVIOUS
<1>got. g \in Nat /\ p \in Nat /\ (~Closed(m) => p = g + 1)  BY <1>typed
<1>len. a \in Nat /\ a >= 1 /\ b \in Nat /\ b = a - 1  BY <1>1
<1>4. InOrder(n, rest, h)
  <2> SUFFICES ASSUME NEW i \in 1..Len(rest), NEW r, r = rest[i]
               PROVE  /\ r.op = "OpenRead" /\ r.file = n.job /\ r.typ \in {"ReadData", "OK", "Err"}
                      /\ r.typ # "ReadData" => i = Len(rest)
                      /\ ~Closed(n) => Follows(n, r, i, h)
    BY DEF InOrder
  <2>1. i \in Nat /\ i + 1 \in 1..Len(in) /\ r = in[i + 1]  BY <1>1
  <2> PICK j \in 1..Len(in) : j = i + 1 /\ r = in[j]  BY <2>1
  <2>2. /\ r.op = "OpenRead" /\ r.file = m.job /\ r.typ \in {"ReadData", "OK", "Err"}
        /\ r.typ # "ReadData" => j = Len(in)
        /\ ~Closed(m) => Follows(m, r, j, h)
    BY <1>2 DEF InOrder
  <2>3. r.typ # "ReadData" => i = Len(rest)  BY <2>1, <2>2, <1>1
  <2>4. ~Closed(m) => Len(n.got) + i = Len(m.got) + j
    <3>1. i \in Nat /\ j = i + 1  BY <2>1
    <3>2. ASSUME ~Closed(m)  PROVE p + i = g + j
      <4>1. p = g + 1  BY <3>2, <1>got
      <4>2. (g + 1) + i = g + (i + 1)  BY <3>1, <1>got, Shift
      <4> QED  BY <4>1, <4>2, <3>1
    <3> QED  BY <3>2
  <2>5. ~Closed(m) => Follows(n, r, i, h)
    <3> PICK x, y : x = Len(n.got) + i /\ y = Len(m.got) + j  OBVIOUS
    <3>1. ~Closed(m) => x = y  BY <2>4
    <3>2. Follows(m, r, j, h) => CASE r.typ = "ReadData" -> y <= Blocks /\ r.block = <<m.job, y>>
                                   [] r.typ = "OK"       -> y = Blocks + 1
                                   [] OTHER              -> m.job \in h
      BY DEF Follows
    <3>3. Follows(n, r, i, h) <=> CASE r.typ = "ReadData" -> x <= Blocks /\ r.block = <<n.job, x>>
                                    [] r.typ = "OK"       -> x = Blocks + 1
                                    [] OTHER              -> n.job \in h
      BY DEF Follows
    <3> QED  BY <3>1, <3>2, <3>3, <2>2
  <2> QED  BY <2>2, <2>3, <2>5
<1>5. Sending(m, l) => Sending(n, k)
  <2> SUFFICES ASSUME Sending(m, l)  PROVE Sending(n, k)  OBVIOUS
  <2>1. \A i \in 1..Len(rest) : rest[i].typ = "ReadData"
    <3> SUFFICES ASSUME NEW i \in 1..Len(rest)  PROVE rest[i].typ = "ReadData"  OBVIOUS
    <3>1. i + 1 \in 1..Len(in) /\ rest[i] = in[i + 1]  BY <1>1
    <3> QED  BY <3>1 DEF Sending
  <2>2. ~Closed(n) => k.serving.at = Len(n.got) + Len(rest)
    <3>1. ~Closed(m) => k.serving.at = g + a  BY DEF Sending
    <3>2. ASSUME ~Closed(m)  PROVE g + a = p + b
      <4>1. p = g + 1  BY <3>2, <1>got
      <4>2. g + a = (g + 1) + (a - 1)  BY <1>len, <1>got, Shift
      <4> QED  BY <4>1, <4>2, <1>len
    <3> QED  BY <3>1, <3>2
  <2> QED  BY <2>1, <2>2 DEF Sending
<1>6. AllSent(l) => AllSent(k)
  <2> SUFFICES ASSUME AllSent(l)  PROVE AllSent(k)  OBVIOUS
  <2>1. Len(in) # 1  BY DEF AllSent
  <2>2. b \in 1..b /\ b + 1 = a  BY <2>1, <1>len, LastPlace
  <2>3. rest[b] = in[b + 1]  BY <2>2, <1>1
  <2>4. rest[Len(rest)] = in[Len(in)]  BY <2>2, <2>3
  <2>5. rest # <<>>
    <3>1. b # 0  BY <2>1, <1>len
    <3> QED  BY <3>1, <1>1, Empty
  <2> QED  BY <2>4, <2>5 DEF AllSent
<1> QED  BY <1>2, <1>3, <1>4, <1>5, <1>6 DEF Streams

(* What a worker that reads from a remote source finds there. *)
Readers == {"read1", "close1", "read2", "close2"}

LEMMA ReaderFacts ==
  ASSUME IInv, NEW w \in Worker, me[w].pc \in Readers
  PROVE  /\ Types /\ Workers /\ WorkerOK(w) /\ w \in Crew /\ me[w] \in Me
         /\ me[w].pc # "idle" /\ me[w].job \in File /\ ~me[w].waiting
         /\ Upto(me[w].job, me[w].got) /\ me[w].got \in Seq(Block)
         /\ me[w].pc = "read2" => me[w].bad = "no" /\ me[w].sig = Source(me[w].job)
         /\ me[w].pc = "read1" => me[w].bad = "no"
         /\ me[w].bad # "no" => me[w].job \in hurt \/ canceled
         /\ link["src"].holder = w <=> "src" \in remote
         /\ "src" \in remote =>
              IF me[w].eof THEN Quiet("src") ELSE Streams(me[w], link["src"], hurt)
         /\ ~link["src"].up => me[w].job \in hurt
         /\ link["src"] \in Link
<1>1. /\ Types /\ Workers /\ WorkerOK(w) /\ me[w].pc # "idle" /\ me[w].pc \in Places /\ "src" \in Ends
      /\ me[w].pc \notin Calls
  BY Routes, PlaceFacts DEF IInv, Workers, Readers
<1>2. /\ w \in Crew /\ me[w].job \in File /\ ~me[w].waiting
      /\ Upto(me[w].job, me[w].got)
      /\ me[w].pc = "read2" => me[w].bad = "no" /\ me[w].sig = Source(me[w].job)
      /\ me[w].pc = "read1" => me[w].bad = "no"
      /\ me[w].bad # "no" => me[w].job \in hurt \/ canceled
  BY <1>1, Routes DEF WorkerOK, Readers, Reads, Writes
<1>3. me[w] \in Me /\ me[w].got \in Seq(Block) /\ link["src"] \in Link  BY <1>1, WorkerTyped, LinkTyped
<1>4. link["src"].holder = w <=> "src" \in remote
  BY <1>1, <1>2 DEF IInv, Holders, Holds, Calling, Reading, Reads, Readers
<1>5. "src" \in remote => IF me[w].eof THEN Quiet("src") ELSE Streams(me[w], link["src"], hurt)
  <2>1. ~Calling(w, "src")  BY <1>2 DEF Calling
  <2>2. "src" \in remote => Conv(w, "src")  BY <1>1, <1>4 DEF IInv, Talks, Talk
  <2> QED  BY <2>1, <2>2 DEF Conv, InStream
<1>6. ~link["src"].up => me[w].job \in hurt
  BY <1>1, <1>2 DEF IInv, Lost
<1> QED  BY <1>1, <1>2, <1>3, <1>4, <1>5, <1>6

\* It takes a reply.
NextOf(w, in) ==
    /\ link' \in [Ends -> Link] /\ link'["dst"] = link["dst"] /\ link'["src"].up = link["src"].up
    /\ link["src"].holder = w /\ link'["src"].holder = w /\ Limits("src")'
    /\ Head(in) = in[1] /\ Head(in) \in Rep /\ in[1].typ \in {"ReadData", "OK", "Err"}
    /\ ~Closed(me[w]) => Follows(me[w], in[1], 1, hurt)
    /\ in[1].typ # "ReadData" => Quiet("src")'
    /\ \A n \in Me : /\ in[1].typ = "ReadData" /\ n.job = me[w].job /\ (Closed(n) <=> Closed(me[w]))
                     /\ (~Closed(me[w]) => Len(n.got) = Len(me[w].got) + 1)
                     => Streams(n, link'["src"], hurt)

LEMMA NextReply ==
  ASSUME IInv, NEW w \in Worker, me[w].pc \in Readers, "src" \in remote, ~me[w].eof,
         NEW in, in = link["src"].replies, in # <<>>,
         link' = [link EXCEPT !["src"].replies = Tail(@)],
         UNCHANGED <<remote, sess, dest, queue, result, canceled, troubles, hurt>>,
         \A v \in Worker : me'[v].job = me[v].job
  PROVE  NextOf(w, in)
<1>1. /\ Types /\ link["src"] \in Link /\ link["src"].holder = w /\ me[w] \in Me
      /\ Streams(me[w], link["src"], hurt) /\ Ends = {"src", "dst"} /\ link \in [Ends -> Link]
  BY ReaderFacts, PlaceFacts DEF Types
<1> DEFINE k == [link["src"] EXCEPT !.replies = Tail(in)]
<1>2. /\ in \in Seq(Rep) /\ Head(in) = in[1] /\ Head(in) \in Rep /\ Tail(in) \in Seq(Rep)
      /\ Len(in) \in Nat /\ Len(Tail(in)) = Len(in) - 1 /\ 1 \in 1..Len(in)
  <2>1. in \in Seq(Rep)  BY <1>1 DEF Link
  <2> QED  BY <2>1, Rest
<1>3. k \in Link /\ k.up = link["src"].up /\ k.holder = w /\ k.requests = link["src"].requests
      /\ k.replies = Tail(in) /\ k.serving = link["src"].serving
  BY <1>1, <1>2 DEF Link
<1>4. link' = [link EXCEPT !["src"] = k]  BY <1>1
<1> HIDE DEF k
<1>5. link' \in [Ends -> Link] /\ link'["src"] = k /\ link'["dst"] = link["dst"]
  BY <1>1, <1>3, <1>4
<1>6. in[1].typ \in {"ReadData", "OK", "Err"} /\ (~Closed(me[w]) => Follows(me[w], in[1], 1, hurt))
  BY <1>1, <1>2 DEF Streams, InOrder
<1>7. in[1].typ # "ReadData" => Quiet("src")'
  <2>1. in[1].typ # "ReadData" => Tail(in) = <<>> /\ (k.up => k.requests = <<>> /\ k.serving = Ready)
    BY <1>1, <1>3, StreamEnd
  <2> QED  BY <2>1, <1>3, <1>5 DEF Quiet, Awake
<1>8. ASSUME NEW n \in Me, in[1].typ = "ReadData", n.job = me[w].job, Closed(n) <=> Closed(me[w]),
             ~Closed(me[w]) => Len(n.got) = Len(me[w].got) + 1
      PROVE  Streams(n, k, hurt)
  BY <1>1, <1>3, <1>8, StreamRest
<1>9. Limits("src")'
  <2>1. Limits("src")  BY <1>1 DEF IInv, Requests
  <2>2. Len(k.replies) <= ReplyRoom
    BY <2>1, <1>2, <1>3, BoundsAssumption DEF Limits
  <2>3. SameJobs /\ Grows  BY DEF SameJobs, Grows
  <2> QED  BY <2>1, <2>2, <2>3, <1>1, <1>3, <1>5, LimitsStay
<1> QED  BY <1>1, <1>2, <1>3, <1>5, <1>6, <1>7, <1>8, <1>9 DEF NextOf

\* What it is after a block, and after the last reply or the failure to get one.
LEMMA TookFacts ==
  ASSUME IInv, NEW w \in Worker, me[w].pc \in {"read1", "read2"},
         Len(me[w].got) + 1 \in 1..Blocks, NEW block, block = <<me[w].job, Len(me[w].got) + 1>>,
         NEW n, n = Took(w, block)
  PROVE  /\ n \in Me /\ ~n.waiting /\ ~n.eof /\ n.job = me[w].job /\ n.pc # "idle"
         /\ Len(n.got) = Len(me[w].got) + 1 /\ ~Closed(n) /\ ~Closed(me[w])
         /\ n.pc \in Writes <=> me[w].pc \in Writes
         /\ n.pc \in Reads
         /\ \A x : Before(me[w], x) => Before(n, x)
         /\ me' = [me EXCEPT ![w] = n] /\ UNCHANGED remote => WorkerOK(w)'
<1>w. /\ Types /\ WorkerOK(w) /\ me[w].job \in File /\ Upto(me[w].job, me[w].got) /\ me[w] \in Me
      /\ me[w].got \in Seq(Block) /\ me[w].bad = "no" /\ ~me[w].waiting /\ w \in Crew /\ ~me[w].eof
      /\ (me[w].pc = "read2" => me[w].sig = Source(me[w].job))
  BY ReaderFacts DEF Readers, WorkerOK
<1> PICK s : s = Append(me[w].got, block)  OBVIOUS
<1>s. /\ s \in Seq(Block) /\ Len(s) = Len(me[w].got) + 1 /\ s # <<>> /\ s[Len(me[w].got) + 1] = block
      /\ \A i \in 1..Len(me[w].got) : s[i] = me[w].got[i]
  <2> PICK got : got = me[w].got  OBVIOUS
  <2>1. block \in Block /\ got \in Seq(Block)  BY <1>w, BlockFacts
  <2>2. /\ Append(got, block) \in Seq(Block) /\ Len(Append(got, block)) = Len(got) + 1
        /\ Append(got, block) # <<>> /\ Append(got, block)[Len(got) + 1] = block
        /\ \A i \in 1..Len(got) : Append(got, block)[i] = got[i]
    BY <2>1, Appended
  <2> QED  BY <2>2
<1>upto. Upto(me[w].job, s)
  <2>1. Len(s) <= Blocks  BY <1>s, BoundsAssumption
  <2>2. Len(me[w].got) \in Nat  BY <1>w
  <2>3. ASSUME NEW i \in 1..Len(s)  PROVE s[i] = <<me[w].job, i>>
    <3>1. i \in 1..Len(me[w].got) \/ i = Len(me[w].got) + 1  BY <2>2, <1>s
    <3>2. \A j \in 1..Len(me[w].got) : me[w].got[j] = <<me[w].job, j>>  BY <1>w DEF Upto
    <3> QED  BY <3>1, <3>2, <1>s
  <2> QED  BY <2>1, <2>3 DEF Upto
<1> PICK l : l = IF me[w].pc = "read2" THEN "chunk" ELSE "read1"  OBVIOUS
<1>n. /\ n \in Me /\ n.pc = l /\ n.got = s /\ ~n.eof /\ ~n.waiting /\ n.job = me[w].job
      /\ n.sig = me[w].sig /\ n.bad = "no"
  <2>1. n = [me[w] EXCEPT !.got = s, !.pc = l]  BY <1>w DEF Took, Me
  <2>2. l \in Places  BY PlaceFacts
  <2> QED  BY <2>1, <2>2, <1>s, <1>w DEF Me
<1>1. /\ n.pc \in Reads /\ (n.pc \in Writes <=> me[w].pc \in Writes) /\ ~Closed(n) /\ ~Closed(me[w])
      /\ n.pc # "idle"
  BY <1>n DEF Reads, Writes, Closed
<1>2. \A x : Before(me[w], x) => Before(n, x)
  <2>1. me[w].pc = "read1" => n.pc \notin Writes /\ me[w].pc \notin Writes  BY <1>n DEF Writes
  <2>2. me[w].pc = "read2" => Written(me[w]) = Len(me[w].got)  BY DEF Written
  <2>3. Len(n.got) - 1 = Len(me[w].got)
    <3> PICK a, b : a = Len(me[w].got) /\ b = Len(s)  OBVIOUS
    <3>1. a \in Nat  BY <1>w
    <3>2. b = a + 1  BY <1>s
    <3>3. b - 1 = a  BY <3>1, <3>2
    <3>4. n.got = s  BY <1>n
    <3> QED  BY <3>3, <3>4
  <2>4. me[w].pc = "read2" => Written(n) = Len(me[w].got)  BY <2>3, <1>n DEF Written
  <2> QED  BY <2>1, <2>2, <2>4, <1>1, <1>n, <1>w DEF Before
<1>3. ASSUME me' = [me EXCEPT ![w] = n], UNCHANGED remote  PROVE WorkerOK(w)'
  <2>1. me'[w] = n  BY <1>3, <1>n, <1>w, MeSet
  <2>2. Crew' = Crew  BY <1>3 DEF Crew
  <2>3. n.pc \in {"read1", "chunk"} /\ (n.pc = "chunk" => n.sig = Source(n.job))  BY <1>n, <1>w
  <2> QED  BY <2>1, <2>2, <2>3, <1>n, <1>s, <1>upto, <1>w DEF WorkerOK, Writes
<1> QED  BY <1>n, <1>s, <1>1, <1>2, <1>3

LEMMA StopsReading ==
  ASSUME IInv, NEW w \in Worker, me[w].pc \in {"read1", "read2", "chunk"}, ~me[w].waiting,
         NEW n, n = [me[w] EXCEPT !.eof = n.eof, !.pc = n.pc, !.bad = n.bad], n.eof \in BOOLEAN,
         n.pc = IF me[w].pc = "read1" THEN "close1" ELSE "close2",
         \/ n.bad = "no" /\ Len(me[w].got) = Blocks /\ me[w].pc # "chunk"
         \/ n.bad = "plain" /\ (me[w].job \in hurt \/ canceled)
  PROVE  /\ n \in Me /\ ~n.waiting /\ n.job = me[w].job /\ n.got = me[w].got /\ n.pc # "idle"
         /\ Closed(n)
         /\ n.pc \in Writes <=> me[w].pc \in Writes
         /\ n.pc \in Reads
         /\ \A x : Before(me[w], x) => Before(n, x)
         /\ me' = [me EXCEPT ![w] = n] /\ UNCHANGED <<remote, hurt, canceled>> => WorkerOK(w)'
<1>w. /\ Types /\ WorkerOK(w) /\ me[w].job \in File /\ Upto(me[w].job, me[w].got) /\ me[w] \in Me
      /\ me[w].bad = "no" /\ w \in Crew
      /\ (me[w].pc \in {"read2", "chunk"} => me[w].sig = Source(me[w].job))
  BY WorkerTyped DEF IInv, Workers, WorkerOK, Reads, Writes
<1>n. /\ n \in Me /\ ~n.waiting /\ n.job = me[w].job /\ n.got = me[w].got /\ n.sig = me[w].sig
  <2> PICK eof, l, bad : eof = n.eof /\ l = n.pc /\ bad = n.bad  OBVIOUS
  <2>1. n = [me[w] EXCEPT !.eof = eof, !.pc = l, !.bad = bad]  OBVIOUS
  <2>2. eof \in BOOLEAN /\ l \in Places /\ bad \in {"no", "plain", "unstable"}  BY PlaceFacts
  <2> QED  BY <2>1, <2>2, <1>w DEF Me
<1>1. n.pc \in {"close1", "close2"} /\ n.pc \in Reads /\ (n.pc \in Writes <=> me[w].pc \in Writes) /\ n.pc # "idle"
  BY DEF Reads, Writes
<1>2. \A x : Before(me[w], x) => Before(n, x)
  <2>1. me[w].pc = "read1" => n.pc \notin Writes /\ me[w].pc \notin Writes  BY DEF Writes
  <2>2. me[w].pc = "read2" => Written(me[w]) = Len(me[w].got) /\ Written(n) = Len(me[w].got)
    BY <1>n DEF Written
  <2>3. \A x, i : x = Held(me[w].job, i) => x.file = me[w].job  BY DEF Held
  <2> QED  BY <2>1, <2>2, <2>3, <1>n, <1>1, <1>w DEF Before
<1>3. ASSUME me' = [me EXCEPT ![w] = n], UNCHANGED <<remote, hurt, canceled>>  PROVE WorkerOK(w)'
  <2>1. me'[w] = n  BY <1>3, <1>n, <1>w, MeSet
  <2>2. Crew' = Crew  BY <1>3 DEF Crew
  <2>3. n.pc = "close2" => n.sig = Source(n.job)  BY <1>n, <1>w
  <2> QED  BY <2>1, <2>2, <2>3, <1>1, <1>3, <1>n, <1>w DEF WorkerOK, Writes
<1> QED  BY <1>n, <1>1, <1>2, <1>3 DEF Closed

\* The connection, when nothing is taken from it.
LEMMA ReaderStays ==
  ASSUME IInv, NEW w \in Worker, me[w].pc \in Readers, link' = link, UNCHANGED hurt,
         NEW n, n.got = me[w].got, n.job = me[w].job, Closed(n), n.eof = me[w].eof
  PROVE  /\ link'["src"].holder = w <=> "src" \in remote
         /\ link'["src"].holder = w => IF n.eof THEN Quiet("src")' ELSE Streams(n, link'["src"], hurt')
<1>1. link["src"].holder = w <=> "src" \in remote  BY ReaderFacts
<1>2. "src" \in remote => IF me[w].eof THEN Quiet("src") ELSE Streams(me[w], link["src"], hurt)
  BY ReaderFacts
<1>3. Quiet("src") => Quiet("src")'  BY QuietStays, PlaceFacts
<1>4. Streams(me[w], link["src"], hurt) => Streams(n, link["src"], hurt)  BY StreamsStay
<1> QED  BY <1>1, <1>2, <1>3, <1>4

LEMMA ReadKeeps ==
  ASSUME IInv, NEW w \in Worker, Read(w)
  PROVE  IInv'
<1>pc. me[w].pc \in {"read1", "read2"} /\ me[w].pc \in Readers  BY Routes DEF Read, Readers
<1>w. /\ Types /\ WorkerOK(w) /\ me[w].job \in File /\ Upto(me[w].job, me[w].got) /\ me[w] \in Me
      /\ me[w].got \in Seq(Block) /\ me[w].bad = "no" /\ ~me[w].waiting /\ ~me[w].eof
      /\ (link["src"].holder = w <=> "src" \in remote)
      /\ (~link["src"].up => me[w].job \in hurt)
      /\ me[w].pc # "idle" /\ hurt \subseteq File /\ troubles \in 0..MaxTroubles
  BY <1>pc, ReaderFacts DEF WorkerOK, Types
<1>same. UNCHANGED <<remote, sess, dest, queue, result, canceled, troubles, hurt>>  BY DEF Read
<1>len. Len(me[w].got) \in Nat /\ Len(me[w].got) <= Blocks  BY <1>w DEF Upto
<1>closing. Closing[me[w].pc] = IF me[w].pc = "read1" THEN "close1" ELSE "close2"  BY <1>pc, Routes
<1>ended. ASSUME NEW n, n = Ended(w), Len(me[w].got) = Blocks
          PROVE  /\ n = [me[w] EXCEPT !.eof = n.eof, !.pc = n.pc, !.bad = n.bad]
                 /\ n.eof = TRUE /\ n.pc = Closing[me[w].pc] /\ n.bad = "no"
  BY <1>ended, <1>w DEF Ended, Me
<1>broke. ASSUME NEW eof \in BOOLEAN, NEW n, n = Broke(w, eof)
          PROVE  /\ n = [me[w] EXCEPT !.eof = n.eof, !.pc = n.pc, !.bad = n.bad]
                 /\ n.eof = eof /\ n.pc = Closing[me[w].pc] /\ n.bad = "plain"
  BY <1>broke, <1>w DEF Broke, Me
<1>eof. me[w].eof = FALSE  BY <1>w DEF Me
<1>reads. me[w].pc \in {"read1", "read2", "chunk"} /\ me[w].pc # "chunk"  BY <1>pc
<1>block. ASSUME Len(me[w].got) < Blocks  PROVE Len(me[w].got) + 1 \in 1..Blocks
  BY <1>block, <1>len, BoundsAssumption
<1>1. CASE "src" \in remote /\ link["src"].replies # <<>>
  <2> PICK in : in = link["src"].replies  OBVIOUS
  <2>1. link' = [link EXCEPT !["src"].replies = Tail(@)]
        /\ me' = [me EXCEPT ![w] = CASE Head(in).typ = "ReadData" -> Took(w, Head(in).block)
                                     [] Head(in).typ = "OK"       -> Ended(w)
                                     [] OTHER                     -> Broke(w, TRUE)]
    BY <1>1 DEF Read
  <2>2. /\ Head(in).typ = "ReadData" => me' = [me EXCEPT ![w] = Took(w, Head(in).block)]
        /\ Head(in).typ = "OK" => me' = [me EXCEPT ![w] = Ended(w)]
        /\ Head(in).typ = "Err" => me' = [me EXCEPT ![w] = Broke(w, TRUE)]
    BY <2>1
  <2>3. ASSUME NEW n \in Me, me' = [me EXCEPT ![w] = n], n.job = me[w].job
        PROVE  /\ link' \in [Ends -> Link] /\ link'["dst"] = link["dst"] /\ link'["src"].up = link["src"].up
               /\ link["src"].holder = w /\ link'["src"].holder = w /\ Limits("src")'
               /\ Head(in) = in[1] /\ Head(in) \in Rep /\ in[1].typ \in {"ReadData", "OK", "Err"}
               /\ ~Closed(me[w]) => Follows(me[w], in[1], 1, hurt)
               /\ in[1].typ # "ReadData" => Quiet("src")'
               /\ in[1].typ = "ReadData" /\ (Closed(n) <=> Closed(me[w]))
                  /\ (~Closed(me[w]) => Len(n.got) = Len(me[w].got) + 1)
                  => Streams(n, link'["src"], hurt)
    <3>1. \A v \in Worker : me'[v].job = me[v].job
      BY <2>3, <1>w, MeSet
    <3>2. /\ me[w].pc \in Readers /\ "src" \in remote /\ ~me[w].eof
          /\ in = link["src"].replies /\ in # <<>>
          /\ link' = [link EXCEPT !["src"].replies = Tail(@)]
      BY <2>1, <1>1, <1>pc, <1>w
    <3>3. NextOf(w, in)  BY <3>1, <3>2, <1>same, NextReply
    <3> QED  BY <3>3, <2>3 DEF NextOf
  <2>4. Head(in) = in[1] /\ in[1].typ \in {"ReadData", "OK", "Err"} /\ Follows(me[w], in[1], 1, hurt)
    <3>1. Streams(me[w], link["src"], hurt) /\ link["src"] \in Link  BY <1>1, <1>pc, <1>w, ReaderFacts
    <3>2. in \in Seq(Rep)  BY <3>1 DEF Link
    <3>3. Head(in) = in[1] /\ 1 \in 1..Len(in)  BY <3>2, <1>1, Rest
    <3>4. ~Closed(me[w])  BY <1>pc DEF Closed
    <3> QED  BY <3>1, <3>3, <3>4 DEF Streams, InOrder
  <2>5. CASE in[1].typ = "ReadData"
    <3>1. Len(me[w].got) + 1 <= Blocks /\ in[1].block = <<me[w].job, Len(me[w].got) + 1>>
      BY <2>4, <2>5 DEF Follows
    <3>2. Len(me[w].got) + 1 \in 1..Blocks  BY <3>1, <1>len, BoundsAssumption
    <3> PICK block : block = in[1].block  OBVIOUS
    <3> PICK n : n = Took(w, block)  OBVIOUS
    <3>3. me' = [me EXCEPT ![w] = n] /\ block = <<me[w].job, Len(me[w].got) + 1>>  BY <3>1, <2>2, <2>4, <2>5
    <3>4. /\ n \in Me /\ ~n.waiting /\ ~n.eof /\ n.job = me[w].job /\ n.pc # "idle"
          /\ Len(n.got) = Len(me[w].got) + 1 /\ ~Closed(n) /\ ~Closed(me[w])
          /\ n.pc \in Writes <=> me[w].pc \in Writes
          /\ n.pc \in Reads
          /\ \A x : Before(me[w], x) => Before(n, x)
          /\ WorkerOK(w)'
      BY <3>2, <3>3, <1>pc, <1>same, TookFacts
    <3>5. /\ link' \in [Ends -> Link] /\ link'["dst"] = link["dst"] /\ link'["src"].up = link["src"].up
          /\ link["src"].holder = w /\ link'["src"].holder = w /\ Limits("src")'
          /\ Streams(n, link'["src"], hurt)
      BY <2>3, <2>5, <3>3, <3>4
    <3> QED  BY <3>3, <3>4, <3>5, <1>1, <1>w, <1>same, BoundsAssumption, ReaderFrame
  <2>6. CASE in[1].typ # "ReadData"
    <3>1. PICK n :
          /\ me' = [me EXCEPT ![w] = n]
          /\ n = [me[w] EXCEPT !.eof = n.eof, !.pc = n.pc, !.bad = n.bad] /\ n.eof = TRUE
          /\ n.pc = IF me[w].pc = "read1" THEN "close1" ELSE "close2"
          /\ \/ n.bad = "no" /\ Len(me[w].got) = Blocks /\ me[w].pc # "chunk"
             \/ n.bad = "plain" /\ (me[w].job \in hurt \/ canceled)
      <4>1. CASE in[1].typ = "OK"
        <5>1. Len(me[w].got) = Blocks
          <6>1. Len(me[w].got) + 1 = Blocks + 1  BY <2>4, <4>1 DEF Follows
          <6> QED  BY <6>1, <1>len, BoundsAssumption
        <5> PICK n : n = Ended(w)  OBVIOUS
        <5>2. me' = [me EXCEPT ![w] = n]  BY <2>2, <2>4, <4>1
        <5> QED  BY <5>1, <5>2, <1>ended, <1>closing, <1>reads
      <4>2. CASE in[1].typ = "Err"
        <5>1. me[w].job \in hurt  BY <2>4, <4>2 DEF Follows
        <5> PICK n : n = Broke(w, TRUE)  OBVIOUS
        <5>2. me' = [me EXCEPT ![w] = n]  BY <2>2, <2>4, <4>2
        <5> QED  BY <5>1, <5>2, <1>broke, <1>closing
      <4> QED  BY <4>1, <4>2, <2>4, <2>6
    <3>2. /\ n \in Me /\ ~n.waiting /\ n.job = me[w].job /\ n.got = me[w].got /\ n.pc # "idle"
          /\ n.pc \in Writes <=> me[w].pc \in Writes
          /\ n.pc \in Reads
          /\ \A x : Before(me[w], x) => Before(n, x)
          /\ WorkerOK(w)'
      <4>1. n.eof \in BOOLEAN /\ ~me[w].waiting  BY <3>1, <1>w
      <4> QED  BY <3>1, <4>1, <1>reads, <1>same, StopsReading
    <3>3. /\ link' \in [Ends -> Link] /\ link'["dst"] = link["dst"] /\ link'["src"].up = link["src"].up
          /\ link["src"].holder = w /\ link'["src"].holder = w /\ Limits("src")'
          /\ Quiet("src")'
      BY <2>3, <2>6, <3>1, <3>2
    <3> QED  BY <3>1, <3>2, <3>3, <1>1, <1>w, <1>same, BoundsAssumption, ReaderFrame
  <2> QED  BY <2>5, <2>6
<1>2. CASE link' = link /\ "src" \in remote /\ ~link["src"].up /\ me' = [me EXCEPT ![w] = Broke(w, FALSE)]
  <2> PICK n : n = Broke(w, FALSE)  OBVIOUS
  <2>1. /\ n = [me[w] EXCEPT !.eof = n.eof, !.pc = n.pc, !.bad = n.bad] /\ n.eof = FALSE
        /\ n.pc = Closing[me[w].pc] /\ n.bad = "plain"
    BY <1>broke
  <2>2. me[w].job \in hurt  BY <1>2, <1>w
  <2>3. /\ n \in Me /\ ~n.waiting /\ n.job = me[w].job /\ n.got = me[w].got /\ n.pc # "idle" /\ Closed(n)
        /\ n.pc \in Writes <=> me[w].pc \in Writes
        /\ n.pc \in Reads
        /\ \A x : Before(me[w], x) => Before(n, x)
        /\ WorkerOK(w)'
    <3>1. /\ me[w].pc \in {"read1", "read2", "chunk"} /\ ~me[w].waiting /\ n.eof \in BOOLEAN
          /\ n.pc = IF me[w].pc = "read1" THEN "close1" ELSE "close2"
      BY <2>1, <1>pc, <1>w, <1>closing
    <3>2. me' = [me EXCEPT ![w] = n] /\ UNCHANGED <<remote, hurt, canceled>>  BY <1>2, <1>same
    <3> QED  BY <2>1, <2>2, <3>1, <3>2, StopsReading
  <2>4. /\ link'["src"].holder = w <=> "src" \in remote
        /\ link'["src"].holder = w => IF n.eof THEN Quiet("src")' ELSE Streams(n, link'["src"], hurt')
    <3>1. n.eof = me[w].eof  BY <2>1, <1>eof
    <3> QED  BY <2>3, <3>1, <1>2, <1>pc, <1>same, ReaderStays
  <2>5. link' \in [Ends -> Link]  BY <1>2, <1>w DEF Types
  <2> QED  BY <2>3, <2>4, <2>5, <1>2, <1>w, <1>same, ReaderFrame
<1>3. CASE /\ link' = link /\ "src" \notin remote
           /\ me' = [me EXCEPT ![w] = IF Len(me[w].got) < Blocks
                                      THEN Took(w, Source(me[w].job)[Len(me[w].got) + 1])
                                      ELSE Ended(w)]
  <2>1. link' \in [Ends -> Link]  BY <1>3, <1>w DEF Types
  <2>2. CASE Len(me[w].got) < Blocks
    <3>1. Len(me[w].got) + 1 \in 1..Blocks  BY <2>2, <1>block
    <3> PICK block : block = Source(me[w].job)[Len(me[w].got) + 1]  OBVIOUS
    <3>2. block = <<me[w].job, Len(me[w].got) + 1>>  BY <3>1 DEF Source
    <3> PICK n : n = Took(w, block)  OBVIOUS
    <3>3. me' = [me EXCEPT ![w] = n]  BY <1>3, <2>2
    <3>4. /\ n \in Me /\ ~n.waiting /\ n.job = me[w].job /\ n.pc # "idle"
          /\ n.pc \in Writes <=> me[w].pc \in Writes
          /\ \A x : Before(me[w], x) => Before(n, x)
          /\ WorkerOK(w)'
      BY <3>1, <3>2, <3>3, <1>pc, <1>same, TookFacts
    <3> QED  BY <3>3, <3>4, <2>1, <1>3, <1>w, <1>same, ReaderFrame
  <2>3. CASE ~(Len(me[w].got) < Blocks)
    <3>1. Len(me[w].got) = Blocks  BY <2>3, <1>len, BoundsAssumption
    <3> PICK n : n = Ended(w)  OBVIOUS
    <3>2. me' = [me EXCEPT ![w] = n]  BY <1>3, <2>3
    <3>3. /\ n = [me[w] EXCEPT !.eof = n.eof, !.pc = n.pc, !.bad = n.bad] /\ n.eof = TRUE
          /\ n.pc = (IF me[w].pc = "read1" THEN "close1" ELSE "close2") /\ n.bad = "no"
      BY <3>1, <1>ended, <1>closing
    <3>4. /\ n \in Me /\ ~n.waiting /\ n.job = me[w].job /\ n.pc # "idle"
          /\ n.pc \in Writes <=> me[w].pc \in Writes
          /\ \A x : Before(me[w], x) => Before(n, x)
          /\ WorkerOK(w)'
      <4>1. n.eof \in BOOLEAN /\ ~me[w].waiting  BY <3>3, <1>w
      <4> QED  BY <3>1, <3>2, <3>3, <4>1, <1>reads, <1>same, StopsReading
    <3> QED  BY <3>2, <3>4, <2>1, <1>3, <1>w, <1>same, ReaderFrame
  <2> QED  BY <2>2, <2>3
<1> QED  BY <1>1, <1>2, <1>3 DEF Read

LEMMA DrainKeeps ==
  ASSUME IInv, NEW w \in Worker, Drain(w)
  PROVE  IInv'
<1>pc. me[w].pc \in {"close1", "close2"} /\ me[w].pc \in Readers  BY DEF Drain, Readers
<1>w. /\ Types /\ WorkerOK(w) /\ me[w].job \in File /\ me[w] \in Me /\ ~me[w].waiting
      /\ "src" \in remote /\ ~me[w].eof
      /\ me[w].pc # "idle" /\ hurt \subseteq File /\ troubles \in 0..MaxTroubles
  BY <1>pc, ReaderFacts DEF WorkerOK, Types, Drain, Drained
<1>same. UNCHANGED <<remote, sess, dest, queue, result, canceled, troubles, hurt>>  BY DEF Drain
<1> PICK in : in = link["src"].replies  OBVIOUS
<1> PICK eof \in BOOLEAN : eof = (Head(in).typ # "ReadData")  OBVIOUS
<1> PICK n : n = [me[w] EXCEPT !.eof = eof]  OBVIOUS
<1>1. link' = [link EXCEPT !["src"].replies = Tail(@)] /\ in # <<>> /\ me' = [me EXCEPT ![w] = n]
  BY <1>w DEF Drain
<1>2. /\ n \in Me /\ n.pc = me[w].pc /\ n.eof = eof /\ ~n.waiting /\ n.job = me[w].job
      /\ n.got = me[w].got /\ n.sig = me[w].sig /\ n.bad = me[w].bad
  BY <1>w DEF Me
<1>3. NextOf(w, in)
  <2>1. \A v \in Worker : me'[v].job = me[v].job  BY <1>1, <1>2, <1>w, MeSet
  <2> QED  BY <2>1, <1>1, <1>pc, <1>w, <1>same, NextReply
<1>4. eof => Quiet("src")'  BY <1>3 DEF NextOf
<1>5. ~eof => Streams(n, link'["src"], hurt)
  <2>1. Closed(n) /\ Closed(me[w])  BY <1>2, <1>pc DEF Closed
  <2> QED  BY <2>1, <1>2, <1>3 DEF NextOf
<1>6. WorkerOK(w)'
  <2>1. me'[w] = n  BY <1>1, <1>2, <1>w, MeSet
  <2>2. Crew' = Crew  BY <1>same DEF Crew
  <2> QED  BY <2>1, <2>2, <1>2, <1>pc, <1>same, <1>w DEF WorkerOK
<1>7. n.pc \in Reads  BY <1>2, <1>pc DEF Reads
<1>8. \A x : Before(me[w], x) => Before(n, x)
  BY <1>2 DEF Before, Written
<1>9. /\ link' \in [Ends -> Link] /\ link'["dst"] = link["dst"] /\ link'["src"].up = link["src"].up
      /\ link["src"].holder = w /\ link'["src"].holder = w /\ Limits("src")'
  BY <1>3 DEF NextOf
<1>10. n.pc \in Writes <=> me[w].pc \in Writes  BY <1>2
<1>11. link'["src"].holder = w => IF n.eof THEN Quiet("src")' ELSE Streams(n, link'["src"], hurt')
  BY <1>2, <1>4, <1>5, <1>same
<1>12. /\ link'["src"].holder = w <=> ("src" \in remote /\ n.pc \in Reads)
       /\ link'["src"] # link["src"] =>
            /\ "src" \in remote /\ link["src"].holder \in {w, Nobody}
            /\ link'["src"].holder \in {w, Nobody} /\ Limits("src")'
            /\ link'["src"].holder = Nobody => Quiet("src")'
  BY <1>7, <1>9, <1>w, BoundsAssumption
<1>13. n \in Me /\ ~n.waiting /\ n.job = me[w].job /\ n.pc # "idle"  BY <1>2, <1>w
<1>14. hurt \subseteq hurt' /\ hurt' \subseteq File /\ troubles' \in 0..MaxTroubles  BY <1>same, <1>w
<1> QED
  BY <1>1, <1>6, <1>8, <1>9, <1>10, <1>11, <1>12, <1>13, <1>14, <1>w, <1>same, ReaderFrame

LEMMA CloseKeeps ==
  ASSUME IInv, NEW w \in Worker, Close(w)
  PROVE  IInv'
<1>pc. me[w].pc \in {"close1", "close2"} /\ me[w].pc \in Readers  BY DEF Close, Readers
<1>w. /\ Types /\ WorkerOK(w) /\ me[w].job \in File /\ me[w] \in Me /\ ~me[w].waiting /\ w \in Crew
      /\ Upto(me[w].job, me[w].got) /\ me[w].got \in Seq(Block)
      /\ (link["src"].holder = w <=> "src" \in remote)
      /\ ("src" \in remote => IF me[w].eof THEN Quiet("src") ELSE Streams(me[w], link["src"], hurt))
      /\ link["src"] \in Link /\ Ends = {"src", "dst"}
      /\ me[w].pc # "idle" /\ hurt \subseteq File /\ troubles \in 0..MaxTroubles
  BY <1>pc, ReaderFacts, PlaceFacts DEF Types
<1>same. UNCHANGED <<remote, sess, dest, queue, result, canceled, troubles, hurt>>  BY DEF Close
<1>whole. me[w].bad = "no" => Len(me[w].got) = Blocks /\ me[w].got = Source(me[w].job)
  <2>1. me[w].bad = "no" => Len(me[w].got) = Blocks  BY <1>pc, <1>w DEF WorkerOK
  <2> QED  BY <2>1, <1>w, WholeFile
<1>sig. me[w].pc = "close2" => me[w].sig = Source(me[w].job)  BY <1>w DEF WorkerOK, Writes
<1> PICK l : l = IF me[w].bad # "no" THEN OnFailure[me[w].pc]
                 ELSE IF me[w].pc = "close1" THEN "stat1" ELSE "stat2"  OBVIOUS
<1> PICK sig : sig = IF me[w].pc = "close1" THEN me[w].got ELSE me[w].sig  OBVIOUS
<1> PICK n : n = [me[w] EXCEPT !.pc = l, !.sig = sig]  OBVIOUS
<1>1. me' = [me EXCEPT ![w] = n]
  <2>1. n = [me[w] EXCEPT
         !.pc  = IF me[w].bad = "no" /\ (me[w].pc = "close2" => me[w].got = me[w].sig)
                    THEN (IF me[w].pc = "close1" THEN "stat1" ELSE "stat2")
                    ELSE OnFailure[me[w].pc],
         !.bad = IF @ = "no" /\ me[w].pc = "close2" /\ me[w].got # me[w].sig
                    THEN "unstable" ELSE @,
         !.sig = IF me[w].pc = "close1" THEN me[w].got ELSE @]
    BY <1>whole, <1>sig, <1>w DEF Me
  <2> QED  BY <2>1, <1>w DEF Close, Types
<1>2. /\ n \in Me /\ n.pc = l /\ n.sig = sig /\ n.eof = me[w].eof /\ ~n.waiting /\ n.job = me[w].job
      /\ n.got = me[w].got /\ n.bad = me[w].bad
  <2>1. l \in Places  BY <1>pc, Routes, PlaceFacts
  <2>2. sig \in Seq(Block)  BY <1>w DEF Me
  <2> QED  BY <2>1, <2>2, <1>w DEF Me
<1>3. /\ me[w].pc = "close1" => l = IF me[w].bad = "no" THEN "stat1" ELSE "over"
      /\ me[w].pc = "close2" => l = IF me[w].bad = "no" THEN "stat2" ELSE "abort"
  BY Routes
<1>4. l # "idle" /\ l \notin Reads /\ (l \in Writes <=> me[w].pc \in Writes)
  BY <1>3, <1>pc DEF Reads, Writes
<1>5. \A x : Before(me[w], x) => Before(n, x)
  <2>1. me[w].pc = "close2" => Written(me[w]) = Len(me[w].got)  BY DEF Written
  <2>2. l = "stat2" => Written(n) = Len(me[w].got)  BY <1>2 DEF Written
  <2> QED  BY <2>1, <2>2, <1>2, <1>3, <1>4, <1>pc DEF Before, Writes
<1>6. WorkerOK(w)'
  <2>1. me'[w] = n  BY <1>1, <1>2, <1>w, MeSet
  <2>2. Crew' = Crew  BY <1>same DEF Crew
  <2>3. me[w].bad = "no" => n.sig = Source(n.job)  BY <1>2, <1>whole, <1>sig, <1>pc
  <2>4. me[w].bad # "no" => me[w].job \in hurt \/ canceled  BY <1>w DEF WorkerOK
  <2>5. me[w].bad = "no" => n.pc \in {"stat1", "stat2"}  BY <1>2, <1>3, <1>pc
  <2>6. me[w].bad # "no" => n.pc \in {"over", "abort"}  BY <1>2, <1>3, <1>pc
  <2>7. CASE me[w].bad = "no"
    BY <2>1, <2>2, <2>3, <2>5, <2>7, <1>2, <1>same, <1>w, <1>whole DEF WorkerOK
  <2>8. CASE me[w].bad # "no"
    BY <2>1, <2>2, <2>4, <2>6, <2>8, <1>2, <1>same, <1>w DEF WorkerOK, Reads, Writes
  <2> QED  BY <2>7, <2>8
<1>9. /\ n \in Me /\ ~n.waiting /\ n.job = me[w].job /\ n.pc # "idle" /\ n.pc \notin Reads
      /\ n.pc \in Writes <=> me[w].pc \in Writes
      /\ hurt \subseteq hurt' /\ hurt' \subseteq File /\ troubles' \in 0..MaxTroubles
  BY <1>2, <1>4, <1>w, <1>same
<1>7. CASE "src" \in remote
  <2> DEFINE k == [link["src"] EXCEPT !.holder = Nobody]
  <2>1. link' = [link EXCEPT !["src"] = k]  BY <1>7, <1>w DEF Close, Types
  <2>2. k \in Link /\ k.up = link["src"].up /\ k.holder = Nobody /\ k.requests = link["src"].requests
        /\ k.replies = link["src"].replies /\ k.serving = link["src"].serving
    BY <1>w DEF Link
  <2> HIDE DEF k
  <2>3. link' \in [Ends -> Link] /\ link'["src"] = k /\ link'["dst"] = link["dst"]
    BY <2>1, <2>2, <1>w DEF Types
  <2>4. Quiet("src")
    BY <1>7, <1>w DEF Close, Drained, Quiet
  <2>5. Quiet("src")'  BY <2>2, <2>3, <2>4 DEF Quiet, Awake
  <2>6. Limits("src")'
    <3>1. Limits("src")  BY <1>w DEF IInv, Requests
    <3>2. SameJobs /\ Grows  BY <1>1, <1>2, <1>same, <1>w, MeSet DEF SameJobs, Grows
    <3>3. Len(link'["src"].replies) <= ReplyRoom /\ link'["src"].requests = link["src"].requests
      BY <3>1, <2>2, <2>3 DEF Limits
    <3> QED  BY <3>1, <3>2, <3>3, <1>w, LimitsStay
  <2>7. link["src"].holder = w /\ link'["src"].holder = Nobody /\ Nobody # w
        /\ link'["src"].up = link["src"].up
    BY <2>2, <2>3, <1>7, <1>w, BoundsAssumption
  <2>8. /\ ~(link'["src"].holder = w)
        /\ link'["src"].holder = w <=> ("src" \in remote /\ n.pc \in Reads)
        /\ link'["src"] # link["src"] =>
             /\ "src" \in remote /\ link["src"].holder \in {w, Nobody}
             /\ link'["src"].holder \in {w, Nobody} /\ Limits("src")'
             /\ link'["src"].holder = Nobody => Quiet("src")'
    BY <2>5, <2>6, <2>7, <1>7, <1>9
  <2> QED
    BY <2>3, <2>7, <2>8, <1>1, <1>5, <1>6, <1>9, <1>w, <1>same, ReaderFrame
<1>8. CASE "src" \notin remote
  <2>1. link' = link /\ link' \in [Ends -> Link]  BY <1>8, <1>w DEF Close, Types
  <2>2. /\ ~(link'["src"].holder = w)
        /\ link'["src"].holder = w <=> ("src" \in remote /\ n.pc \in Reads)
        /\ link'["src"] = link["src"] /\ link'["dst"] = link["dst"]
    BY <2>1, <1>8, <1>w
  <2> QED  BY <2>1, <2>2, <1>1, <1>5, <1>6, <1>9, <1>w, <1>same, ReaderFrame
<1> QED  BY <1>7, <1>8

LEMMA NoticeCancelKeeps ==
  ASSUME IInv, NEW w \in Worker, NoticeCancel(w)
  PROVE  IInv'
<1>w. /\ Types /\ WorkerOK(w) /\ me[w].pc = "chunk" /\ me[w] \in Me /\ me[w].waiting = FALSE
      /\ me[w].eof = FALSE /\ canceled /\ Ends = {"src", "dst"}
      /\ me[w].pc # "idle" /\ hurt \subseteq File /\ troubles \in 0..MaxTroubles
  BY WorkerTyped, PlaceFacts DEF IInv, Workers, WorkerOK, NoticeCancel, Types, Me
<1>same. UNCHANGED <<remote, link, sess, dest, queue, result, canceled, troubles, hurt>>
  BY DEF NoticeCancel
<1> PICK n : n = [me[w] EXCEPT !.pc = "close2", !.bad = "plain"]  OBVIOUS
<1>1. /\ n = [me[w] EXCEPT !.eof = n.eof, !.pc = n.pc, !.bad = n.bad] /\ n.eof = FALSE
      /\ n.pc = "close2" /\ n.bad = "plain"
  BY <1>w DEF Me
<1>2. me' = [me EXCEPT ![w] = n]  BY <1>w DEF NoticeCancel, Types
<1>3. /\ n \in Me /\ ~n.waiting /\ n.job = me[w].job /\ n.got = me[w].got /\ n.pc # "idle" /\ Closed(n)
      /\ n.pc \in Writes <=> me[w].pc \in Writes
      /\ n.pc \in Reads
      /\ \A x : Before(me[w], x) => Before(n, x)
      /\ WorkerOK(w)'
  <2>1. me[w].pc \in {"read1", "read2", "chunk"} /\ ~me[w].waiting /\ n.eof \in BOOLEAN
        /\ n.pc = (IF me[w].pc = "read1" THEN "close1" ELSE "close2")
    BY <1>w, <1>1
  <2> QED  BY <2>1, <1>1, <1>2, <1>w, <1>same, StopsReading
<1>4. link["src"].holder = w <=> "src" \in remote
  BY <1>w DEF IInv, Holders, Holds, Calling, Reading, Reads
<1>5. link["src"].holder = w => Streams(n, link["src"], hurt)
  <2>1. ~Calling(w, "src")  BY <1>w DEF Calling
  <2>2. link["src"].holder = w => Streams(me[w], link["src"], hurt)
    BY <2>1, <1>w DEF IInv, Talks, Talk, Conv, InStream
  <2> QED  BY <2>2, <1>3, StreamsStay
<1>6. link' \in [Ends -> Link]  BY <1>same, <1>w DEF Types
<1> QED  BY <1>1, <1>2, <1>3, <1>4, <1>5, <1>6, <1>w, <1>same, ReaderFrame
-----------------------------------------------------------------------------
(* The jobs: a worker takes one, tries it again, or is done with it. *)
LEMMA JobFrame ==
  ASSUME IInv, NEW w \in Worker, me[w].pc \in {"idle", "over"},
         NEW m \in Me, me' = [me EXCEPT ![w] = m], ~m.waiting, m.pc \in {"idle", "quick", "restat"},
         UNCHANGED <<remote, link, sess, dest, canceled, troubles, hurt>>,
         queue' \in Seq(File), result' \in [File -> {"none", "ok", "failed", "skipped"}],
         Jobs', FailureHasCause', Lost', WorkerOK(w)',
         \A f \in File : Begun(f) => Begun(f)'
  PROVE  IInv'
<1>types. Types /\ Workers /\ WorkerOK(w)  BY DEF IInv, Workers
<1>step. me' \in [Worker -> Me] /\ me'[w] = m /\ \A v \in Worker \ {w} : me'[v] = me[v]
  BY <1>types, MeSet
<1>grows. Grows  BY DEF Grows
<1>idle. ~me[w].waiting  BY <1>types, Routes DEF WorkerOK
<1>away. /\ me[w].pc \notin Reads \cup Writes /\ m.pc \notin Reads \cup Writes
  BY DEF Reads, Writes
<1>1. Types'  BY <1>types, <1>step DEF Types
<1>2. Workers'
  <2> SUFFICES ASSUME NEW v \in Worker, v # w  PROVE WorkerOK(v)'  BY DEF Workers
  <2> QED  BY <1>types, <1>step, <1>grows, WorkerStays DEF Workers
<1>3. \A e \in Ends : ~Holds(w, e) /\ ~Holds(w, e)' /\ link[e].holder # w
  BY <1>idle, <1>away, <1>step DEF Holds, Calling, Reading, Writing, IInv, Holders
<1>4. Holders'
  <2> SUFFICES ASSUME NEW e \in Ends, NEW v \in Worker  PROVE (link[e].holder = v <=> Holds(v, e))'
    BY DEF Holders
  <2>1. CASE v = w  BY <2>1, <1>3
  <2>2. CASE v # w
    <3>1. Holds(v, e)' = Holds(v, e)  BY <2>2, <1>step DEF Holds, Calling, Reading, Writing
    <3> QED  BY <3>1 DEF IInv, Holders
  <2> QED  BY <2>1, <2>2
<1>5. Talks'
  <2> SUFFICES ASSUME NEW e \in Ends  PROVE Talk(e)'  BY DEF Talks
  <2>1. Talk(e)  BY DEF IInv, Talks
  <2>2. link[e].holder = Nobody => Quiet(e)'  BY <2>1, QuietStays DEF Talk
  <2>3. ASSUME NEW v \in Worker, link[e].holder = v  PROVE Conv(v, e)'
    <3>1. me'[v] = me[v]  BY <2>3, <1>3, <1>step
    <3>2. Conv(v, e)  BY <2>1, <2>3 DEF Talk
    <3> QED  BY <3>1, <3>2, <1>types, <1>grows, ConvStays
  <2> QED  BY <2>2, <2>3 DEF Talk
<1>6. Requests'
  <2> SUFFICES ASSUME NEW e \in Ends  PROVE Limits(e)'  BY DEF Requests
  <2>1. Limits(e) /\ link[e].requests \in Seq(Req)  BY <1>types, LinkTyped DEF IInv, Requests
  <2>2. ASSUME NEW i \in 1..Len(link[e].requests), NEW q, q = link[e].requests[i]
        PROVE  RequestOK(e, q)'
    <3>1. q.file \in File
      <4>1. q \in Req  BY <2>1, <2>2
      <4> QED  BY <4>1 DEF Req
    <3>2. RequestOK(e, q)  BY <2>1, <2>2 DEF Limits
    <3>3. e = "dst" => Begun(q.file)'
      <4> DEFINE f == q.file
      <4>1. e = "dst" => Begun(f)  BY <3>2 DEF RequestOK
      <4> QED  BY <3>1, <4>1
    <3> QED  BY <3>2, <3>3 DEF RequestOK
  <2> QED  BY <2>1, <2>2 DEF Limits, RequestOK
<1>7. Sessions'
  <2>1. ASSUME "dst" \in remote => link["dst"].up, NEW v \in Crew  PROVE Session(v)'
    <3>1. Session(v) /\ v \in Worker  BY <2>1, CrewFacts DEF IInv, Sessions
    <3>2. CASE v = w
      <4>1. sess[Slot(w)] = NoSession
        BY <3>1, <3>2, <1>idle, <1>away DEF Session, Calling, Before
      <4> QED  BY <4>1, <3>2, <1>away, <1>step DEF Session, Calling, Before, Slot
    <3>3. CASE v # w
      <4>1. me'[v] = me[v]  BY <3>1, <3>3, <1>step
      <4> QED  BY <4>1, <3>1 DEF Session, Calling, Slot
    <3> QED  BY <3>2, <3>3
  <2>2. ASSUME NEW s \in Slots, sess[s] # NoSession, NEW f, f = sess[s].file  PROVE Begun(f)'
    <3>1. f \in File /\ Begun(f)  BY <1>types, <2>2 DEF IInv, Types, WriteSession, Sessions
    <3> QED  BY <3>1
  <2>3. Crew' = Crew  BY <1>grows, CrewStays
  <2> QED  BY <2>1, <2>2, <2>3 DEF Sessions
<1>8. Files'  BY DEF IInv, Files
<1> QED  BY <1>1, <1>2, <1>4, <1>5, <1>6, <1>7, <1>8 DEF IInv

LEMMA IdleFacts ==
  /\ Idle \in Me /\ Idle.pc = "idle" /\ ~Idle.waiting /\ Idle.job = NoFile /\ NoFile \notin File
  /\ Idle.bad = "no" /\ Idle.tries = 1
BY PlaceFacts, BoundsAssumption DEF Idle, Me

Starting(l, f, i) == [Idle EXCEPT !.pc = l, !.job = f, !.tries = i]

LEMMA IdleTyped ==
  ASSUME NEW l \in Places, NEW f \in File \cup {NoFile}, NEW i \in 1..MaxFileAttempts,
         NEW m, m = Starting(l, f, i)
  PROVE  m \in Me /\ m.pc = l /\ ~m.waiting /\ m.job = f /\ m.bad = "no"
BY IdleFacts DEF Starting, Me

LEMMA StartsFirst == ASSUME NEW f PROVE [Idle EXCEPT !.pc = "quick", !.job = f] = Starting("quick", f, 1)
BY IdleFacts DEF Starting, Me

LEMMA StartsAgain ==
  ASSUME NEW f, NEW i PROVE [Idle EXCEPT !.pc = "restat", !.job = f, !.tries = i] = Starting("restat", f, i)
BY DEF Starting

\* A file that has just been taken, or taken again.
LEMMA StartsOK ==
  ASSUME NEW w \in Worker, me'[w].pc \in {"quick", "restat"}, me'[w].job \in File, w \in Crew',
         ~me'[w].waiting, me'[w].bad = "no"
  PROVE  WorkerOK(w)'
BY DEF WorkerOK, Reads, Writes

LEMMA TakeKeeps ==
  ASSUME IInv, NEW w \in Worker, Take(w)
  PROVE  IInv'
<1>types. /\ Types /\ Jobs /\ WorkerOK(w) /\ me[w].pc = "idle" /\ me[w] = Idle /\ w \in Crew
          /\ queue \in Seq(File) /\ queue # <<>>
  BY DEF IInv, Workers, WorkerOK, Take, Types
<1>same. UNCHANGED <<remote, link, sess, dest, canceled, troubles, hurt>>  BY DEF Take
<1> PICK f : f = Head(queue)  OBVIOUS
<1>f. /\ f \in File /\ f = queue[1] /\ 1 \in 1..Len(queue) /\ queue' = Tail(queue)
      /\ Tail(queue) \in Seq(File)
      /\ \A i \in 1..Len(Tail(queue)) : i + 1 \in 1..Len(queue) /\ i + 1 # 1 /\ Tail(queue)[i] = queue[i + 1]
  <2>1. /\ Len(queue) \in Nat /\ Len(queue) >= 1 /\ Head(queue) = queue[1] /\ Head(queue) \in File
        /\ Tail(queue) \in Seq(File) /\ Len(Tail(queue)) = Len(queue) - 1
        /\ \A i \in 1..Len(Tail(queue)) : Tail(queue)[i] = queue[i + 1]
    BY <1>types, Rest
  <2> QED  BY <2>1 DEF Take
<1>free. result[f] = "none" /\ \A v \in Worker : me[v].job # f
  BY <1>types, <1>f DEF Jobs
<1>rest. \A i \in 1..Len(queue') : /\ queue'[i] # f /\ result[queue'[i]] = "none" /\ queue'[i] \in File
                                   /\ \A v \in Worker : me[v].job # queue'[i]
                                   /\ \A j \in 1..Len(queue') : queue'[i] = queue'[j] => i = j
  <2> SUFFICES ASSUME NEW i \in 1..Len(queue'), NEW j \in 1..Len(queue')
               PROVE  /\ queue'[i] # f /\ result[queue'[i]] = "none" /\ queue'[i] \in File
                      /\ \A v \in Worker : me[v].job # queue'[i]
                      /\ queue'[i] = queue'[j] => i = j
    OBVIOUS
  <2>1. /\ i + 1 \in 1..Len(queue) /\ i + 1 # 1 /\ queue'[i] = queue[i + 1]
        /\ j + 1 \in 1..Len(queue) /\ queue'[j] = queue[j + 1]
    BY <1>f
  <2>2. /\ queue[i + 1] # queue[1] /\ result[queue[i + 1]] = "none"
        /\ \A v \in Worker : me[v].job # queue[i + 1]
        /\ queue[i + 1] = queue[j + 1] => i + 1 = j + 1
    BY <2>1, <1>f, <1>types DEF Jobs
  <2>3. queue[i + 1] \in File  BY <2>1, <1>types
  <2>4. i + 1 = j + 1 => i = j  OBVIOUS
  <2> QED  BY <2>1, <2>2, <2>3, <2>4, <1>f
<1>lost. Lost'
  BY <1>types, <1>same DEF IInv, Lost
<1>1. CASE canceled /\ result' = [result EXCEPT ![f] = "skipped"] /\ me' = me
  <2>1. result' \in [File -> {"none", "ok", "failed", "skipped"}]  BY <1>1, <1>types DEF Types
  <2>2. \A g \in File : g # f => result'[g] = result[g]  BY <1>1, <1>types DEF Types
  <2>3. result'[f] = "skipped"  BY <1>1, <1>f, <1>types DEF Types
  <2>4. Jobs'
    <3>1. \A v \in Worker : me[v].job \in File => result'[me[v].job] = "none"
      BY <2>2, <1>free, <1>types DEF Jobs
    <3>2. \A i \in 1..Len(queue') : result'[queue'[i]] = "none"  BY <1>rest, <2>2
    <3> QED  BY <3>1, <3>2, <1>1, <1>rest, <1>types DEF Jobs
  <2>5. FailureHasCause'
    BY <2>2, <2>3, <1>same DEF IInv, FailureHasCause
  <2>6. \A g \in File : Begun(g) => Begun(g)'
    BY <2>2, <1>1, <1>free, <1>same DEF Begun
  <2>7. me' = [me EXCEPT ![w] = Idle]  BY <1>1, <1>types DEF Types
  <2>8. WorkerOK(w)'
    <3>1. Grows  BY <1>same DEF Grows
    <3> QED  BY <3>1, <1>1, <1>types, WorkerStays
  <2> QED  BY <2>1, <2>4, <2>5, <2>6, <2>7, <2>8, <1>lost, <1>f, <1>types, <1>same, IdleFacts, JobFrame
<1>2. CASE ~canceled /\ result' = result /\ me' = [me EXCEPT ![w] = [Idle EXCEPT !.pc = "quick", !.job = f]]
  <2> PICK m : m = Starting("quick", f, 1)  OBVIOUS
  <2>1. m \in Me /\ m.pc = "quick" /\ ~m.waiting /\ m.job = f /\ m.bad = "no"
    <3> PICK i : i = 1  OBVIOUS
    <3>1. m = Starting("quick", f, i)  OBVIOUS
    <3>2. i \in 1..MaxFileAttempts /\ "quick" \in Places /\ f \in File \cup {NoFile}
      BY <1>f, BoundsAssumption, PlaceFacts
    <3> QED  BY <3>1, <3>2, IdleTyped
  <2>2. me' = [me EXCEPT ![w] = m]  BY <1>2, StartsFirst
  <2>3. me'[w] = m /\ \A v \in Worker \ {w} : me'[v] = me[v]  BY <2>1, <2>2, <1>types, MeSet
  <2>4. WorkerOK(w)'
    <3>1. Crew' = Crew  BY <1>same DEF Crew
    <3> QED  BY <3>1, <2>1, <2>3, <1>f, <1>types, StartsOK
  <2>5. \A v \in Worker : IF v = w THEN me'[v].job = f ELSE me'[v].job = me[v].job  BY <2>1, <2>3
  <2>6. Jobs'
    <3>1. \A u, v \in Worker : me'[u].job \in File /\ me'[u].job = me'[v].job => u = v
      BY <2>5, <1>free, <1>types DEF Jobs
    <3>2. \A v \in Worker : me'[v].job \in File => result'[me'[v].job] = "none"
      BY <2>5, <1>2, <1>free, <1>types DEF Jobs
    <3>3. \A i \in 1..Len(queue') : /\ result'[queue'[i]] = "none"
                                    /\ \A v \in Worker : me'[v].job # queue'[i]
      BY <2>5, <1>2, <1>rest
    <3> QED  BY <3>1, <3>2, <3>3, <1>rest DEF Jobs
  <2>7. FailureHasCause'  BY <1>2, <1>same DEF IInv, FailureHasCause
  <2>8. \A g \in File : Begun(g) => Begun(g)'
    <3>1. me[w].job \notin File  BY <1>types, IdleFacts
    <3> QED  BY <3>1, <2>5, <1>2, <1>same DEF Begun
  <2>9. result' \in [File -> {"none", "ok", "failed", "skipped"}]  BY <1>2, <1>types DEF Types
  <2> QED  BY <2>1, <2>2, <2>4, <2>6, <2>7, <2>8, <2>9, <1>lost, <1>f, <1>types, <1>same, JobFrame
<1> QED  BY <1>1, <1>2 DEF Take

LEMMA FinishKeeps ==
  ASSUME IInv, NEW w \in Worker, Finish(w)
  PROVE  IInv'
<1>types. /\ Types /\ Jobs /\ Workers /\ WorkerOK(w) /\ me[w].pc = "over" /\ w \in Crew
          /\ me[w].job \in File /\ queue \in Seq(File) /\ me[w].tries \in 1..MaxFileAttempts
          /\ result \in [File -> {"none", "ok", "failed", "skipped"}]
          /\ me[w].bad \in {"no", "plain", "unstable"}
  BY WorkerTyped DEF IInv, Workers, WorkerOK, Finish, Types
<1>same. UNCHANGED <<remote, link, sess, dest, queue, canceled, troubles, hurt>>  BY DEF Finish
<1>lost. Lost'
  BY <1>types, <1>same DEF IInv, Lost
<1> PICK f : f = me[w].job  OBVIOUS
<1>f. f \in File /\ \A v \in Worker : me[v].job = f => v = w  BY <1>types DEF Jobs
<1>1. CASE Retries(w) /\ result' = result
           /\ me' = [me EXCEPT ![w] = [Idle EXCEPT !.pc = "restat", !.job = me[w].job, !.tries = me[w].tries + 1]]
  <2> PICK m : m = Starting("restat", f, me[w].tries + 1)  OBVIOUS
  <2>1. m \in Me /\ m.pc = "restat" /\ ~m.waiting /\ m.job = f /\ m.bad = "no"
    <3>1. me[w].tries + 1 \in 1..MaxFileAttempts  BY <1>1, <1>types, BoundsAssumption DEF Retries
    <3> PICK i : i = me[w].tries + 1  OBVIOUS
    <3>2. i \in 1..MaxFileAttempts /\ "restat" \in Places /\ f \in File \cup {NoFile}
      BY <3>1, <1>f, PlaceFacts
    <3>3. m = Starting("restat", f, i)  OBVIOUS
    <3> QED  BY <3>2, <3>3, IdleTyped
  <2>2. me' = [me EXCEPT ![w] = m]  BY <1>1, StartsAgain
  <2>3. me'[w] = m /\ \A v \in Worker \ {w} : me'[v] = me[v]  BY <2>1, <2>2, <1>types, MeSet
  <2>4. WorkerOK(w)'
    <3>1. Crew' = Crew  BY <1>same DEF Crew
    <3> QED  BY <3>1, <2>1, <2>3, <1>f, <1>types, StartsOK
  <2>5. SameJobs /\ Grows  BY <2>1, <2>3, <1>1, <1>same DEF SameJobs, Grows
  <2>6. Jobs'  BY <2>5, <1>types, JobsStay
  <2>7. FailureHasCause'  BY <1>1, <1>same DEF IInv, FailureHasCause
  <2>8. \A g \in File : Begun(g) => Begun(g)'  BY <2>5, BegunStays
  <2> QED  BY <2>1, <2>2, <2>4, <2>6, <2>7, <2>8, <1>1, <1>lost, <1>types, <1>same, JobFrame
<1>2. CASE /\ me' = [me EXCEPT ![w] = Idle]
           /\ result' = [result EXCEPT ![f] = IF me[w].bad = "no" THEN "ok" ELSE "failed"]
  <2>1. me'[w] = Idle /\ \A v \in Worker \ {w} : me'[v] = me[v]  BY <1>2, <1>types, IdleFacts, MeSet
  <2>2. result' \in [File -> {"none", "ok", "failed", "skipped"}]  BY <1>2, <1>types
  <2>3. \A g \in File : g # f => result'[g] = result[g]  BY <1>2, <1>types
  <2>4. result'[f] = IF me[w].bad = "no" THEN "ok" ELSE "failed"  BY <1>2, <1>f, <1>types
  <2>5. \A v \in Worker : IF v = w THEN me'[v].job \notin File ELSE me'[v].job = me[v].job
    BY <2>1, IdleFacts
  <2>6. Jobs'
    <3>1. \A u, v \in Worker : me'[u].job \in File /\ me'[u].job = me'[v].job => u = v
      BY <2>5, <1>types DEF Jobs
    <3>2. \A v \in Worker : me'[v].job \in File => result'[me'[v].job] = "none"
      BY <2>3, <2>5, <1>f, <1>types DEF Jobs
    <3>3. \A i \in 1..Len(queue) : queue[i] \in File /\ queue[i] # f  BY <1>types DEF Jobs
    <3>4. \A i \in 1..Len(queue) : /\ result'[queue[i]] = "none"
                                   /\ \A v \in Worker : me'[v].job # queue[i]
      BY <3>3, <2>3, <2>5, <1>types DEF Jobs
    <3>5. \A i, j \in 1..Len(queue) : queue[i] = queue[j] => i = j  BY <1>types DEF Jobs
    <3> QED  BY <3>1, <3>2, <3>4, <3>5, <1>same DEF Jobs
  <2>7. FailureHasCause'
    <3>1. me[w].bad # "no" => f \in hurt \/ canceled  BY <1>types DEF WorkerOK
    <3> QED  BY <3>1, <2>3, <2>4, <1>same DEF IInv, FailureHasCause
  <2>8. \A g \in File : Begun(g) => Begun(g)'
    <3> SUFFICES ASSUME NEW g \in File, Begun(g)  PROVE Begun(g)'  OBVIOUS
    <3>1. CASE g = f
      <4>1. me[w].bad = "no" => dest[f] = Source(f)  BY <1>types DEF WorkerOK
      <4> QED  BY <3>1, <4>1, <2>4, <1>same DEF Begun
    <3>2. CASE g # f
      <4>1. result'[g] = result[g]  BY <3>2, <2>3
      <4>2. \A v \in Worker : me[v].job = g => me'[v].job = g  BY <3>2, <2>5
      <4> QED  BY <4>1, <4>2, <1>same DEF Begun
    <3> QED  BY <3>1, <3>2
  <2>9. WorkerOK(w)'
    BY <2>1, IdleFacts DEF WorkerOK, Idle, Reads, Writes
  <2> QED
    BY <2>2, <2>6, <2>7, <2>8, <2>9, <1>2, <1>lost, <1>types, <1>same, IdleFacts, JobFrame
<1> QED  BY <1>1, <1>2 DEF Finish
-----------------------------------------------------------------------------
(* The helpers, and the connections. *)
OnlyEnd(e) == /\ link' \in [Ends -> Link] /\ \A d \in Ends \ {e} : link'[d] = link[d]
              /\ link'[e].holder = link[e].holder

LEMMA HelperFrame ==
  ASSUME IInv, NEW e \in Ends, e \in remote, OnlyEnd(e), UNCHANGED <<remote, me, queue, result, canceled>>,
         Grows, Talk(e)',
         link'[e].requests \in {link[e].requests, <<>>}, Len(link'[e].replies) <= ReplyRoom,
         e = "dst" /\ link'[e].requests # <<>> => sess'["helper"] \in {sess["helper"], NoSession},
         sess' \in [Slots -> WriteSession \cup {NoSession}],
         e = "src" => sess' = sess, \A s \in Slots \ {"helper"} : sess'[s] = sess[s],
         \A f \in File : sess'["helper"] # NoSession /\ f = sess'["helper"].file => Begun(f)',
         e = "dst" /\ link'["dst"].up => \A w \in Crew : Session(w)',
         dest' \in [File -> [1..Blocks -> Block]], Files',
         hurt' \subseteq File, troubles' \in 0..MaxTroubles,
         ~link'[e].up => \/ hurt' = File \/ ~link[e].up
                         \/ queue = <<>> /\ \A w \in Worker : me[w].pc = "idle"
  PROVE  IInv'
<1>types. Types /\ Jobs /\ Workers /\ Ends = {"src", "dst"}  BY PlaceFacts DEF IInv
<1>same. SameJobs  BY DEF SameJobs
<1>other. ASSUME NEW d \in Ends, d # e  PROVE link'[d] = link[d]  BY <1>other DEF OnlyEnd
<1>1. Types'  BY <1>types DEF Types, OnlyEnd
<1>2. Jobs'  BY <1>types, <1>same, JobsStay
<1>3. Workers'
  <2> SUFFICES ASSUME NEW v \in Worker  PROVE WorkerOK(v)'  BY DEF Workers
  <2> QED  BY <1>types, WorkerStays DEF Workers
<1>4. Holders'
  <2> SUFFICES ASSUME NEW d \in Ends, NEW v \in Worker  PROVE (link[d].holder = v <=> Holds(v, d))'
    BY DEF Holders
  <2>1. Holds(v, d)' = Holds(v, d)  BY DEF Holds, Calling, Reading, Writing
  <2>2. link'[d].holder = link[d].holder  BY <1>other DEF OnlyEnd
  <2> QED  BY <2>1, <2>2 DEF IInv, Holders
<1>5. Talks'
  <2> SUFFICES ASSUME NEW d \in Ends, d # e  PROVE Talk(d)'  BY DEF Talks
  <2>1. Talk(d) /\ link'[d] = link[d]  BY <1>other DEF IInv, Talks
  <2>2. link[d].holder = Nobody => Quiet(d)'  BY <2>1, QuietStays DEF Talk
  <2>3. ASSUME NEW v \in Worker, link[d].holder = v  PROVE Conv(v, d)'
    <3>1. me'[v] = me[v]  OBVIOUS
    <3>2. Conv(v, d)  BY <2>1, <2>3 DEF Talk
    <3> QED  BY <3>1, <3>2, <2>1, <1>types, ConvStays
  <2> QED  BY <2>1, <2>2, <2>3 DEF Talk
<1>6. Requests'
  <2> SUFFICES ASSUME NEW d \in Ends  PROVE Limits(d)'  BY DEF Requests
  <2>1. Limits(d)  BY DEF IInv, Requests
  <2>2. link'[d].requests \in {link[d].requests, <<>>}  BY <1>other
  <2>3. Len(link'[d].replies) <= ReplyRoom  BY <2>1, <1>other DEF Limits
  <2>4. d = "dst" /\ link'[d].requests # <<>> => sess'["helper"] \in {sess["helper"], NoSession}
    BY <1>types
  <2> QED  BY <2>1, <2>2, <2>3, <2>4, <1>types, <1>same, LimitsStay
<1>7. Sessions'
  <2>1. ASSUME "dst" \in remote => link'["dst"].up, NEW w \in Crew  PROVE Session(w)'
    <3>1. CASE e = "dst"  BY <3>1, <2>1
    <3>2. CASE e = "src"
      <4>1. link'["dst"] = link["dst"] /\ sess' = sess  BY <3>2, <1>types, <1>other
      <4>2. Session(w)  BY <2>1, <4>1 DEF IInv, Sessions
      <4> QED  BY <4>1, <4>2 DEF Session, Calling, Slot
    <3> QED  BY <3>1, <3>2, <1>types
  <2>2. ASSUME NEW s \in Slots, sess'[s] # NoSession, NEW f, f = sess'[s].file  PROVE Begun(f)'
    <3>1. CASE s = "helper"
      <4>1. f \in File  BY <2>2 DEF WriteSession
      <4> QED  BY <4>1, <3>1, <2>2
    <3>2. CASE s # "helper"
      <4>1. sess'[s] = sess[s]  BY <3>2
      <4>2. f \in File /\ Begun(f)  BY <4>1, <2>2, <1>types DEF IInv, Sessions, Types, WriteSession
      <4> QED  BY <4>2, <1>same, BegunStays
    <3> QED  BY <3>1, <3>2
  <2>3. Crew' = Crew  BY CrewStays
  <2>4. (\A w \in Crew : ("dst" \in remote => link'["dst"].up) => Session(w)')  BY <2>1
  <2> QED  BY <2>2, <2>3, <2>4 DEF Sessions
<1>8. Lost'
  <2> SUFFICES ASSUME NEW d \in Ends
               PROVE  /\ d \notin remote => link'[d].up /\ link'[d].holder = Nobody
                      /\ ~link'[d].up => \/ hurt' = File
                                         \/ queue = <<>> /\ \A w \in Worker : me[w].pc = "idle"
    BY DEF Lost
  <2>1. /\ d \notin remote => link[d].up /\ link[d].holder = Nobody
        /\ ~link[d].up => \/ hurt = File
                          \/ queue = <<>> /\ \A w \in Worker : me[w].pc = "idle"
    BY DEF IInv, Lost
  <2>2. hurt = File => hurt' = File  BY DEF Grows
  <2> QED  BY <2>1, <2>2, <1>other
<1>9. FailureHasCause'
  BY DEF IInv, FailureHasCause, Grows
<1> QED  BY <1>1, <1>2, <1>3, <1>4, <1>5, <1>6, <1>7, <1>8, <1>9 DEF IInv

(* On a connection that is lost, the replies that are still to be read are the
   ones that were, or the first of them. *)
LEMMA StreamCut ==
  ASSUME NEW m \in Me, NEW l \in Link, NEW h, Streams(m, l, h), NEW k \in Link, ~k.up,
         NEW b \in Nat, NEW a \in Nat, Len(k.replies) = b, Len(l.replies) = a, b <= a,
         \A i \in 1..b : k.replies[i] = l.replies[i], NEW g, h \subseteq g
  PROVE  Streams(m, k, g)
<1> SUFFICES ASSUME NEW i \in 1..b, NEW r, r = l.replies[i]
             PROVE  /\ r.op = "OpenRead" /\ r.file = m.job /\ r.typ \in {"ReadData", "OK", "Err"}
                    /\ r.typ # "ReadData" => i = b
                    /\ ~Closed(m) => Follows(m, r, i, g)
  BY DEF Streams, InOrder
<1>1. i \in 1..a  OBVIOUS
<1>2. /\ r.op = "OpenRead" /\ r.file = m.job /\ r.typ \in {"ReadData", "OK", "Err"}
      /\ r.typ # "ReadData" => i = a
      /\ ~Closed(m) => Follows(m, r, i, h)
  BY <1>1 DEF Streams, InOrder
<1>3. r.typ # "ReadData" => i = b  BY <1>2
<1>4. Follows(m, r, i, h) => Follows(m, r, i, g)  BY DEF Follows
<1> QED  BY <1>2, <1>3, <1>4

LEMMA TalkDown ==
  ASSUME IInv, NEW e \in Ends, OnlyEnd(e), me' = me, Grows, ~link'[e].up,
         Len(link'[e].replies) <= Len(link[e].replies),
         \A i \in 1..Len(link'[e].replies) : link'[e].replies[i] = link[e].replies[i]
  PROVE  Talk(e)'
<1>types. Types /\ Workers /\ link[e] \in Link /\ link'[e] \in Link /\ link'[e].holder = link[e].holder
  BY LinkTyped DEF IInv, OnlyEnd
<1> PICK in, rest : in = link[e].replies /\ rest = link'[e].replies  OBVIOUS
<1>in. /\ in \in Seq(Rep) /\ rest \in Seq(Rep) /\ Len(rest) <= Len(in)
       /\ \A i \in 1..Len(rest) : rest[i] = in[i]
       /\ (in = <<>> => rest = <<>>)
  <2>1. in \in Seq(Rep) /\ rest \in Seq(Rep)  BY <1>types DEF Link
  <2>2. in = <<>> => Len(in) = 0  OBVIOUS
  <2>3. Len(rest) \in Nat  BY <2>1
  <2>4. in = <<>> => Len(rest) = 0  BY <2>2, <2>3
  <2> QED  BY <2>1, <2>4, Empty
<1>1. Quiet(e) => Quiet(e)'  BY <1>in DEF Quiet
<1>2. ASSUME NEW w \in Worker, Calling(w, e), InCall(w, e)  PROVE InCall(w, e)'
  <2>1. Op(w)' = Op(w)  BY DEF Op
  <2>2. me[w].job \in File  BY <1>types, <1>2, Routes DEF Workers, WorkerOK, Calling
  <2>3. CASE rest = <<>>  BY <2>3 DEF InCall
  <2>4. CASE rest # <<>>
    <3>1. Len(in) = 1  BY <2>4, <1>in, <1>2 DEF InCall
    <3>2. Len(rest) >= 1  BY <2>4, <1>in, Rest
    <3>3. Len(rest) = 1 /\ rest[1] = in[1]  BY <3>1, <3>2, <1>in
    <3>4. in # <<>>  BY <2>4, <1>in
    <3>5. me[w].job \in hurt => me[w].job \in hurt'  BY DEF Grows
    <3>6. dest[me[w].job] = Source(me[w].job) => dest'[me[w].job] = Source(me[w].job)
      BY <2>2 DEF Grows
    <3> QED  BY <2>1, <3>3, <3>4, <3>5, <3>6, <1>2 DEF InCall
  <2> QED  BY <2>3, <2>4
<1>3. ASSUME NEW w \in Worker, e = "src", InStream(w)  PROVE InStream(w)'
  <2>1. me[w] \in Me  BY <1>types, WorkerTyped
  <2>2. Streams(me[w], link["src"], hurt) /\ hurt \subseteq hurt'  BY <1>3 DEF InStream, Grows
  <2> PICK a, b : a = Len(in) /\ b = Len(rest)  OBVIOUS
  <2>3. a \in Nat /\ b \in Nat /\ b <= a /\ \A i \in 1..b : rest[i] = in[i]  BY <1>in
  <2>4. Streams(me[w], link'["src"], hurt')  BY <2>1, <2>2, <2>3, <1>types, <1>3, StreamCut
  <2> QED  BY <2>4, <1>3 DEF InStream
<1>4. ASSUME NEW w \in Worker, Conv(w, e)  PROVE Conv(w, e)'
  <2>1. Calling(w, e)' = Calling(w, e)  BY DEF Calling
  <2> QED  BY <2>1, <1>1, <1>2, <1>3, <1>4 DEF Conv
<1>5. Talk(e)  BY DEF IInv, Talks
<1> QED  BY <1>1, <1>4, <1>5, <1>types DEF Talk

LEMMA OnlyOne == ASSUME NEW a \in Nat, a >= 1, a <= 1  PROVE a = 1
OBVIOUS

(* What the helper finds when there is a request. *)
LEMMA AtFront ==
  ASSUME IInv, NEW e \in Ends, link[e].requests # <<>>, NEW q, q = Head(link[e].requests)
  PROVE  /\ Types /\ e \in remote /\ q \in Req /\ Tail(link[e].requests) = <<>> /\ RequestOK(e, q)
         /\ link[e].up => \E w \in Worker :
              /\ link[e].holder = w
              /\ \/ Calling(w, e) /\ link[e].replies = <<>> /\ q = Request(w)
                 \/ e = "src" /\ ~me[w].eof /\ ~Calling(w, e) /\ InStream(w) /\ Unserved(me[w], link["src"])
<1>types. Types /\ link[e].requests \in Seq(Req) /\ link[e].holder \in Worker \cup {Nobody}
  BY LinkTyped DEF IInv
<1>1. /\ Len(link[e].requests) \in Nat /\ Len(link[e].requests) >= 1 /\ q = link[e].requests[1] /\ q \in Req
      /\ Len(link[e].requests) = 1 => Tail(link[e].requests) = <<>>
  BY <1>types, Rest
<1>2. Limits(e) /\ Talk(e)  BY DEF IInv, Requests, Talks
<1>3. Len(link[e].requests) = 1 /\ RequestOK(e, q)
  <2> PICK a : a = Len(link[e].requests)  OBVIOUS
  <2>1. a <= 1  BY <1>2 DEF Limits
  <2>4. a \in Nat /\ a >= 1  BY <1>1
  <2>5. a = 1  BY <2>1, <2>4, OnlyOne
  <2>2. Len(link[e].requests) = 1  BY <2>5
  <2>3. 1 \in 1..Len(link[e].requests)  BY <2>2
  <2> QED  BY <2>2, <2>3, <1>1, <1>2 DEF Limits
<1>4. link[e].up => link[e].holder # Nobody
  BY <1>2 DEF Talk, Quiet, Awake
<1>5. e \in remote  BY <1>4 DEF IInv, Lost
<1>6. ASSUME link[e].up, NEW w \in Worker, link[e].holder = w
      PROVE  \/ Calling(w, e) /\ link[e].replies = <<>> /\ q = Request(w)
             \/ e = "src" /\ ~me[w].eof /\ ~Calling(w, e) /\ InStream(w) /\ Unserved(me[w], link["src"])
  <2>1. Conv(w, e) /\ ~Awake(e) /\ ~Quiet(e)  BY <1>2, <1>6 DEF Talk, Awake, Quiet
  <2>2. CASE Calling(w, e)
    <3>1. InCall(w, e)  BY <2>1, <2>2 DEF Conv
    <3>2. link[e].replies = <<>> /\ link[e].requests = <<Request(w)>>
      BY <2>1, <3>1, <1>6 DEF InCall
    <3> QED  BY <2>2, <3>2
  <2>3. CASE ~Calling(w, e)
    <3>1. e = "src" /\ ~me[w].eof /\ InStream(w)  BY <2>1, <2>3 DEF Conv
    <3>2. Unserved(me[w], link["src"])  BY <3>1, <1>6 DEF InStream, Streams, Sending, AllSent
    <3> QED  BY <2>3, <3>1, <3>2
  <2> QED  BY <2>2, <2>3
<1> QED  BY <1>types, <1>1, <1>3, <1>4, <1>5, <1>6

Serves(e, r) == link' = [link EXCEPT ![e].requests = Tail(@), ![e].replies = Replied(e, r),
                                     ![e].serving = StaysUp(e)]

\* Request q is answered with reply r.
Answers(e, q, typ, r) ==
    /\ link[e].requests # <<>> /\ q = Head(link[e].requests)
    /\ link[e].serving = Ready /\ (link[e].up => Room(e))
    /\ r = Reply(q, typ, Blank) /\ Serves(e, r)
Served(e, q, typ, r) ==
    /\ OnlyEnd(e) /\ link'[e].up = link[e].up /\ link'[e].requests = <<>>
    /\ r \in Rep /\ r.typ = typ /\ r.op = q.op /\ r.file = q.file
    /\ link[e].up => link'[e].serving = Ready /\ link'[e].replies = Append(link[e].replies, r)
    /\ ~link[e].up => link'[e].replies = link[e].replies
    /\ Len(link'[e].replies) <= ReplyRoom

LEMMA ServeStep ==
  ASSUME IInv, NEW e \in Ends, NEW q, NEW typ \in {"StatOK", "SigOK", "OK", "Err"}, NEW r,
         Answers(e, q, typ, r)
  PROVE  Served(e, q, typ, r)
<1> /\ link[e].requests # <<>> /\ q = Head(link[e].requests)
    /\ link[e].serving = Ready /\ (link[e].up => Room(e))
    /\ r = Reply(q, typ, Blank) /\ Serves(e, r)
  BY DEF Answers
<1>types. Types /\ q \in Req /\ Tail(link[e].requests) = <<>> /\ link[e] \in Link /\ link \in [Ends -> Link]
          /\ link[e].replies \in Seq(Rep)
  BY AtFront, LinkTyped DEF Types
<1>r. r \in Rep /\ r.typ = typ /\ r.op = q.op /\ r.file = q.file
  BY <1>types, BlockFacts DEF Reply, Rep, Req
<1> PICK in : in = Replied(e, r)  OBVIOUS
<1> PICK s : s = StaysUp(e)  OBVIOUS
<1>in. /\ in \in Seq(Rep) /\ s \in Serving
       /\ link[e].up => in = Append(link[e].replies, r) /\ s = Ready
       /\ ~link[e].up => in = link[e].replies
       /\ Len(in) <= ReplyRoom
  <2>1. Append(link[e].replies, r) \in Seq(Rep) /\ Len(Append(link[e].replies, r)) = Len(link[e].replies) + 1
    BY <1>types, <1>r, Appended
  <2>2. s \in Serving  BY DEF StaysUp, Serving
  <2>3. Len(link[e].replies) <= ReplyRoom  BY DEF IInv, Requests, Limits
  <2>4. link[e].up => Len(link[e].replies) + 1 <= ReplyRoom
    BY <1>types, BoundsAssumption DEF Room
  <2> QED  BY <2>1, <2>2, <2>3, <2>4, <1>types DEF Replied, StaysUp
<1> DEFINE l == [link[e] EXCEPT !.requests = <<>>, !.replies = in, !.serving = s]
<1>1. link' = [link EXCEPT ![e] = l]  BY <1>types DEF Serves
<1>2. /\ l \in Link /\ l.up = link[e].up /\ l.holder = link[e].holder /\ l.requests = <<>>
      /\ l.replies = in /\ l.serving = s
  <2>1. <<>> \in Seq(Req)  OBVIOUS
  <2> QED  BY <2>1, <1>types, <1>in DEF Link
<1> HIDE DEF l
<1>3. IsLink(e, l.up, l.holder, l.requests, l.replies, l.serving)
  <2>1. l \in Link  BY <1>2
  <2> QED  BY <2>1, <1>1, <1>types, LinkSet
<1>4. /\ link' \in [Ends -> Link] /\ link'[e].up = link[e].up /\ link'[e].holder = link[e].holder
      /\ link'[e].requests = <<>> /\ link'[e].replies = in /\ link'[e].serving = s
      /\ \A d \in Ends \ {e} : link'[d] = link[d]
  BY <1>2, <1>3 DEF IsLink
<1> QED  BY <1>r, <1>in, <1>4 DEF OnlyEnd, Served

LEMMA ServeKeeps ==
  ASSUME IInv, NEW e \in Ends, Serve(e)
  PROVE  IInv'
<1> PICK q : q = Head(link[e].requests)  OBVIOUS
<1>q. link[e].requests # <<>> /\ q.op # "OpenRead" /\ link[e].serving = Ready /\ (link[e].up => Room(e))
  BY DEF Serve
<1> PICK r : /\ Does("helper", q, r)
             /\ sess' = [sess EXCEPT !["helper"] = IF e = "dst" /\ ~link[e].up THEN NoSession ELSE r.sess]
             /\ Serves(e, Reply(q, r.typ, Blank))
  BY DEF Serve, Serves
<1>same. UNCHANGED <<remote, me, queue, result, canceled>>  BY DEF Serve
<1>types. /\ Types /\ Files /\ Workers /\ Sessions /\ e \in remote /\ q \in Req /\ RequestOK(e, q)
          /\ q.op \in Ops /\ q.file \in File /\ "helper" \in Slots /\ e \in {"src", "dst"}
          /\ sess \in [Slots -> WriteSession \cup {NoSession}]
  BY <1>q, AtFront, PlaceFacts DEF IInv, Req, Slots, Types
<1> PICK x : x = sess["helper"]  OBVIOUS
<1>op. /\ e = "src" => q.op = "Stat"
       /\ q.op = "Commit" /\ x # NoSession => x.file = q.file /\ q.sig = Source(q.file)
  BY <1>q, <1>types DEF RequestOK
<1>does. /\ r.typ \in {AnswerTo(q.op), "Err"}
         /\ r.sess \in WriteSession \cup {NoSession}
         /\ r.sess # NoSession => r.sess.file = IF x = NoSession THEN q.file ELSE x.file
         /\ q.op \in {"Stat", "GetSig"} => r.sess = x
         /\ dest' \in [File -> [1..Blocks -> Block]] /\ Files'
         /\ \A f \in File : dest[f] = Source(f) => dest'[f] = Source(f)
         /\ hurt \subseteq hurt' /\ hurt' \subseteq File /\ troubles' \in 0..MaxTroubles
  BY <1>types, <1>op, DoesFacts
<1>typ. r.typ \in {"StatOK", "SigOK", "OK", "Err"}
  BY <1>does, <1>types, AnswerFacts DEF Ops
<1> PICK p : p = Reply(q, r.typ, Blank)  OBVIOUS
<1>step. /\ OnlyEnd(e) /\ link'[e].up = link[e].up /\ link'[e].requests = <<>>
         /\ p \in Rep /\ p.typ = r.typ /\ p.op = q.op /\ p.file = q.file
         /\ link[e].up => link'[e].serving = Ready /\ link'[e].replies = Append(link[e].replies, p)
         /\ ~link[e].up => link'[e].replies = link[e].replies
         /\ Len(link'[e].replies) <= ReplyRoom
  <2>1. Serves(e, p)  OBVIOUS
  <2> PICK typ \in {"StatOK", "SigOK", "OK", "Err"} : typ = r.typ  BY <1>typ
  <2>2. p = Reply(q, typ, Blank)  OBVIOUS
  <2>3. Answers(e, q, typ, p)  BY <2>1, <2>2, <1>q DEF Answers
  <2>4. Served(e, q, typ, p)  BY <2>3, ServeStep
  <2> QED  BY <2>4 DEF Served
<1>jobs. SameJobs /\ Grows  BY <1>same, <1>does DEF SameJobs, Grows
<1>sess. /\ sess' \in [Slots -> WriteSession \cup {NoSession}]
         /\ sess'["helper"] = (IF e = "dst" /\ ~link[e].up THEN NoSession ELSE r.sess)
         /\ \A s \in Slots \ {"helper"} : sess'[s] = sess[s]
  BY <1>types, <1>does
<1>src. e = "src" => sess' = sess
  <2>1. e = "src" => r.sess = sess["helper"]  BY <1>op, <1>does
  <2> QED  BY <2>1, <1>types
<1>begun. ASSUME NEW f \in File, sess'["helper"] # NoSession, f = sess'["helper"].file  PROVE Begun(f)'
  <2>1. f = IF x = NoSession THEN q.file ELSE x.file  BY <1>begun, <1>sess, <1>does
  <2>2. CASE x = NoSession
    <3>1. e = "dst"  BY <1>begun, <1>src, <1>types, <2>2
    <3>2. Begun(f)  BY <2>1, <2>2, <3>1, <1>types DEF RequestOK
    <3> QED  BY <3>2, <1>jobs, BegunStays
  <2>3. CASE x # NoSession
    <3>1. Begun(f)  BY <2>1, <2>3, <1>types DEF Sessions
    <3> QED  BY <3>1, <1>jobs, BegunStays
  <2> QED  BY <2>2, <2>3
<1>up. ASSUME link[e].up  PROVE Talk(e)' /\ (e = "dst" => \A v \in Crew : Session(v)')
  <2>1. PICK w \in Worker : /\ link[e].holder = w
                            /\ Calling(w, e) /\ link[e].replies = <<>> /\ q = Request(w)
    <3>1. PICK w \in Worker :
            /\ link[e].holder = w
            /\ \/ Calling(w, e) /\ link[e].replies = <<>> /\ q = Request(w)
               \/ e = "src" /\ ~me[w].eof /\ ~Calling(w, e) /\ InStream(w) /\ Unserved(me[w], link["src"])
      BY <1>up, <1>q, AtFront
    <3>2. e # "src" \/ ~Unserved(me[w], link["src"])
      <4>1. link[e].requests[1] = q
        <5>1. link[e].requests \in Seq(Req)  BY <1>types, LinkTyped
        <5> QED  BY <5>1, <1>q, Rest
      <4> QED  BY <4>1, <1>q DEF Unserved
    <3> QED  BY <3>1, <3>2
  <2>2. me[w].pc \in Calls /\ w \in Crew /\ EndOf(me[w].pc) = e /\ WorkerOK(w) /\ me[w].pc # "idle"
    BY <2>1, <1>types, Routes DEF Calling, Workers, WorkerOK
  <2>3. me[w].pc \in Stats <=> e = "src"
    <3>1. EndOf(me[w].pc) = "src" <=> me[w].pc \in Stats  BY <2>2, PlaceFacts, Routes DEF Stats
    <3> QED  BY <3>1, <2>2
  <2>4. me[w].pc \notin Stats => Before(me[w], x)
    <3> SUFFICES ASSUME e = "dst"  PROVE Before(me[w], x)  BY <2>3, <1>types
    <3>1. Session(w) /\ Slot(w) = "helper"  BY <1>up, <2>2, <1>types DEF Sessions, Slot
    <3>2. link["dst"].replies = <<>>  BY <2>1
    <3> QED  BY <3>1, <3>2 DEF Session
  <2>5. /\ r.typ \in {AnswerTo(Op(w)), "Err"} /\ r.sess \in WriteSession \cup {NoSession}
        /\ r.typ = "Err" => me[w].job \in hurt'
        /\ me[w].pc \in Stats => r.sess = x
        /\ me[w].pc \notin Stats => After(me[w], r.typ, r.sess)
        /\ r.typ = "OK" /\ me[w].pc = "commit" => dest'[me[w].job] = Source(me[w].job)
    <3>1. Does("helper", Request(w), r)  BY <2>1
    <3> QED  BY <3>1, <2>2, <2>4, <1>types, CallFacts
  <2>6. q.op = Op(w) /\ q.file = me[w].job  BY <2>1, <2>2, <1>types, RequestTyped
  <2>7. link'[e].replies = <<p>> /\ Len(link'[e].replies) = 1 /\ link'[e].replies[1] = p
        /\ link'[e].replies # <<>>
    <3>1. link'[e].replies = Append(<<>>, p) /\ p \in Rep  BY <1>up, <1>step, <2>1
    <3>2. Append(<<>>, p) = <<p>>  BY <3>1
    <3> QED  BY <3>1, <3>2, Single
  <2>8. Talk(e)'
    <3>1. Awake(e)'  BY <1>step, <1>up DEF Awake
    <3>2. Op(w)' = Op(w) /\ me'[w] = me[w]  BY <1>same DEF Op
    <3>3. InCall(w, e)'
      BY <3>1, <3>2, <2>5, <2>6, <2>7, <1>step DEF InCall
    <3>4. Calling(w, e)' /\ link'[e].holder = w  BY <2>1, <1>same, <1>step DEF Calling, OnlyEnd
    <3> QED  BY <3>3, <3>4, BoundsAssumption DEF Talk, Conv
  <2>9. ASSUME e = "dst", NEW v \in Crew  PROVE Session(v)'
    <3>1. v = w  BY <2>9, <2>2, <1>types, CrewFacts
    <3>2. sess'["helper"] = r.sess  BY <1>up, <1>sess
    <3>3. Slot(w)' = "helper"  BY <2>9, <1>types, <1>same DEF Slot
    <3>4. After(me'[w], p.typ, sess'["helper"])  BY <2>3, <2>5, <2>9, <3>2, <1>same, <1>step
    <3>5. Calling(w, "dst")'  BY <2>1, <2>9, <1>same DEF Calling
    <3>6. link'["dst"].replies # <<>> /\ link'["dst"].replies[1] = p  BY <2>7, <2>9
    <3> QED  BY <3>1, <3>3, <3>4, <3>5, <3>6 DEF Session
  <2> QED  BY <2>8, <2>9
<1>down. ASSUME ~link[e].up  PROVE Talk(e)'
  <2>1. link'[e].replies = link[e].replies  BY <1>down, <1>step
  <2>2. link[e].replies \in Seq(Rep)  BY <1>types, LinkTyped
  <2>3. Len(link'[e].replies) <= Len(link[e].replies)
        /\ \A i \in 1..Len(link'[e].replies) : link'[e].replies[i] = link[e].replies[i]
    <3> PICK in : in = link[e].replies  OBVIOUS
    <3>1. in \in Seq(Rep) /\ link'[e].replies = in  BY <2>1, <2>2
    <3>2. Len(in) \in Nat /\ Len(in) <= Len(in)  BY <3>1
    <3> QED  BY <3>1, <3>2
  <2> QED  BY <2>3, <1>down, <1>step, <1>jobs, <1>same, TalkDown
<1>talk. Talk(e)'  BY <1>up, <1>down
<1>last. e = "dst" /\ link'["dst"].up => \A v \in Crew : Session(v)'  BY <1>up, <1>step
<1> QED
  BY <1>talk, <1>last, <1>begun, <1>src, <1>sess, <1>step, <1>jobs, <1>same, <1>does, <1>types, HelperFrame

LEMMA OneEnd ==
  ASSUME Types, NEW e \in Ends, NEW l \in Link, link' = [link EXCEPT ![e] = l], l.holder = link[e].holder
  PROVE  OnlyEnd(e) /\ link'[e] = l
BY DEF Types, OnlyEnd

LEMMA SourceFrame ==
  ASSUME IInv, "src" \in remote, OnlyEnd("src"), link'["src"].up = link["src"].up,
         UNCHANGED <<remote, sess, dest, me, queue, result, canceled>>,
         hurt \subseteq hurt', hurt' \subseteq File, troubles' \in 0..MaxTroubles,
         link'["src"].requests \in {link["src"].requests, <<>>}, Len(link'["src"].replies) <= ReplyRoom,
         Talk("src")'
  PROVE  IInv'
<1> PICK e : e = "src"  OBVIOUS
<1>1. e \in Ends /\ "dst" # e /\ Types  BY PlaceFacts DEF IInv
<1>2. SameJobs /\ Grows  BY DEF SameJobs, Grows
<1>3. ASSUME NEW f \in File, sess'["helper"] # NoSession, f = sess'["helper"].file  PROVE Begun(f)'
  <2>1. Begun(f)  BY <1>3 DEF IInv, Sessions, Slots
  <2> QED  BY <2>1, <1>2, BegunStays
<1>4. dest' \in [File -> [1..Blocks -> Block]] /\ sess' \in [Slots -> WriteSession \cup {NoSession}]
  BY <1>1 DEF Types
<1>5. Files'  BY DEF IInv, Files
<1> QED  BY <1>1, <1>2, <1>3, <1>4, <1>5, HelperFrame

LEMMA DownFrame ==
  ASSUME IInv, NEW e \in Ends, e \in remote, OnlyEnd(e), ~link'[e].up,
         UNCHANGED <<remote, dest, me, queue, result, canceled>>,
         hurt \subseteq hurt', hurt' \subseteq File, troubles' \in 0..MaxTroubles,
         link'[e].requests \in {link[e].requests, <<>>},
         Len(link'[e].replies) <= Len(link[e].replies),
         \A i \in 1..Len(link'[e].replies) : link'[e].replies[i] = link[e].replies[i],
         \/ sess' = sess
         \/ e = "dst" /\ sess' = [sess EXCEPT !["helper"] = NoSession],
         \/ hurt' = File \/ ~link[e].up
         \/ queue = <<>> /\ \A w \in Worker : me[w].pc = "idle"
  PROVE  IInv'
<1>1. Types /\ "helper" \in Slots /\ e \in {"src", "dst"}  BY PlaceFacts DEF IInv, Slots
<1>2. SameJobs /\ Grows  BY DEF SameJobs, Grows
<1>3. /\ sess' \in [Slots -> WriteSession \cup {NoSession}]
      /\ sess'["helper"] \in {sess["helper"], NoSession}
      /\ \A s \in Slots \ {"helper"} : sess'[s] = sess[s]
      /\ e = "src" => sess' = sess
  BY <1>1 DEF Types
<1>4. ASSUME NEW f \in File, sess'["helper"] # NoSession, f = sess'["helper"].file  PROVE Begun(f)'
  <2>1. sess["helper"] # NoSession /\ f = sess["helper"].file  BY <1>3, <1>4
  <2>2. Begun(f)  BY <2>1, <1>1 DEF IInv, Sessions
  <2> QED  BY <2>2, <1>2, BegunStays
<1>5. Len(link'[e].replies) <= ReplyRoom
  <2> PICK a, b : a = Len(link'[e].replies) /\ b = Len(link[e].replies)  OBVIOUS
  <2>1. link'[e] \in Link /\ link[e] \in Link  BY <1>1, LinkTyped DEF OnlyEnd
  <2>2. a \in Nat /\ b \in Nat  BY <2>1 DEF Link
  <2>3. b <= ReplyRoom /\ a <= b  BY DEF IInv, Requests, Limits
  <2> QED  BY <2>2, <2>3, BoundsAssumption
<1>6. Talk(e)'  BY <1>2, TalkDown
<1>7. dest' \in [File -> [1..Blocks -> Block]] /\ Files'  BY <1>1 DEF Types, IInv, Files
<1>8. ~link'[e].up => \/ hurt' = File \/ ~link[e].up
                      \/ queue = <<>> /\ \A w \in Worker : me[w].pc = "idle"
  OBVIOUS
<1>9. e = "dst" /\ link'["dst"].up => \A w \in Crew : Session(w)'  OBVIOUS
<1> QED  BY <1>2, <1>3, <1>4, <1>5, <1>6, <1>7, <1>8, <1>9, HelperFrame

LEMMA ServeOpenReadKeeps ==
  ASSUME IInv, NEW e \in Ends, ServeOpenRead(e)
  PROVE  IInv'
<1> PICK q : q = Head(link[e].requests)  OBVIOUS
<1>q. /\ link[e].requests # <<>> /\ q.op = "OpenRead" /\ link[e].serving = Ready
      /\ link' = [link EXCEPT ![e].requests = Tail(@),
                              ![e].serving = [op |-> q.op, file |-> q.file, at |-> 0]]
  BY DEF ServeOpenRead
<1>same. UNCHANGED <<remote, sess, dest, me, queue, result, canceled, troubles, hurt>>
  BY DEF ServeOpenRead
<1>types. /\ Types /\ e \in remote /\ q \in Req /\ RequestOK(e, q) /\ Tail(link[e].requests) = <<>>
          /\ q.file \in File /\ e \in {"src", "dst"} /\ link[e] \in Link /\ link \in [Ends -> Link]
          /\ hurt \subseteq File /\ troubles \in 0..MaxTroubles
  <2>1. Types /\ e \in remote /\ q \in Req /\ RequestOK(e, q) /\ Tail(link[e].requests) = <<>>
    BY <1>q, AtFront
  <2>2. q.file \in File  BY <2>1 DEF Req
  <2> QED  BY <2>1, <2>2, PlaceFacts, LinkTyped DEF Types
<1>src. e = "src"  BY <1>q, <1>types DEF RequestOK
<1> PICK s : s = [op |-> "OpenRead", file |-> q.file, at |-> 0]  OBVIOUS
<1>s. s \in Serving /\ s # Ready /\ s # Gone /\ s.file = q.file /\ s.at = 0
  <2>1. 0 \in 0..Blocks  BY BoundsAssumption
  <2>2. s.op = "OpenRead" /\ Ready.op = "ready" /\ Gone.op = "gone"  BY DEF Ready, Gone
  <2> QED  BY <2>1, <2>2, <1>types DEF Serving
<1> DEFINE l == [link[e] EXCEPT !.requests = <<>>, !.serving = s]
<1>1. link' = [link EXCEPT ![e] = l]  BY <1>q, <1>types
<1>2. /\ l \in Link /\ l.up = link[e].up /\ l.holder = link[e].holder /\ l.requests = <<>>
      /\ l.replies = link[e].replies /\ l.serving = s
  <2>1. <<>> \in Seq(Req)  OBVIOUS
  <2> QED  BY <2>1, <1>s, <1>types DEF Link
<1> HIDE DEF l
<1>3. OnlyEnd(e) /\ link'[e] = l  BY <1>1, <1>2, <1>types, OneEnd
<1>4. link[e].replies \in Seq(Rep) /\ Len(link[e].replies) \in Nat /\ Len(link[e].replies) <= ReplyRoom
  BY <1>types DEF Link, IInv, Requests, Limits
<1>5. CASE ~link[e].up
  <2>1. ~link'[e].up /\ link'[e].replies = link[e].replies /\ link'[e].requests = <<>>
    BY <1>2, <1>3, <1>5
  <2>2. Len(link'[e].replies) <= Len(link[e].replies)
        /\ \A i \in 1..Len(link'[e].replies) : link'[e].replies[i] = link[e].replies[i]
    <3> PICK in : in = link[e].replies  OBVIOUS
    <3>1. Len(in) \in Nat /\ Len(in) <= Len(in)  BY <1>4
    <3> QED  BY <2>1, <3>1
  <2> QED  BY <2>1, <2>2, <1>3, <1>5, <1>types, <1>same, DownFrame
<1>6. CASE link[e].up
  <2>1. PICK w \in Worker :
          /\ link[e].holder = w
          /\ \/ Calling(w, e) /\ link[e].replies = <<>> /\ q = Request(w)
             \/ e = "src" /\ ~me[w].eof /\ ~Calling(w, e) /\ InStream(w) /\ Unserved(me[w], link["src"])
    BY <1>6, <1>q, AtFront
  <2>2. ~(Calling(w, e) /\ q = Request(w))
    <3>1. Calling(w, e) => me[w].pc \in Calls  BY <1>types DEF Calling, IInv, Workers, WorkerOK
    <3>2. me[w].pc \in Calls => Request(w).op = Op(w) /\ Op(w) # "OpenRead"
      BY OpFacts, Routes DEF Request
    <3> QED  BY <3>1, <3>2, <1>q
  <2>3. /\ ~me[w].eof /\ ~Calling(w, "src") /\ InStream(w) /\ Unserved(me[w], link["src"])
    BY <2>1, <2>2, <1>src
  <2>4. link["src"].requests[1] = q
    <3>1. link["src"].requests \in Seq(Req)  BY <1>types, <1>src DEF Link
    <3> QED  BY <3>1, <1>q, <1>src, Rest
  <2>5. q.file = me[w].job /\ link["src"].replies = <<>> /\ (~Closed(me[w]) => me[w].got = <<>>)
    BY <2>3, <2>4 DEF Unserved
  <2>6. Sending(me[w], l)
    <3>1. l.replies = <<>> /\ Len(l.replies) = 0  BY <2>5, <1>2, <1>src
    <3>2. ~Closed(me[w]) => Len(me[w].got) = 0  BY <2>5
    <3> QED  BY <3>1, <3>2, <2>5, <1>2, <1>s DEF Sending
  <2>7. Streams(me[w], l, hurt)
    <3>1. InOrder(me[w], l.replies, hurt)
      <4>1. l.replies = link["src"].replies  BY <1>2, <1>src
      <4> QED  BY <4>1, <2>3 DEF InStream, Streams
    <3> QED  BY <3>1, <2>6 DEF Streams
  <2>8. Talk("src")'
    <3>1. InStream(w)'  BY <2>7, <1>3, <1>src, <1>same DEF InStream
    <3>2. ~Calling(w, "src")' /\ ~me'[w].eof /\ link'["src"].holder = w
      BY <2>1, <2>3, <1>3, <1>src, <1>same DEF Calling, OnlyEnd
    <3> QED  BY <3>1, <3>2, BoundsAssumption DEF Talk, Conv
  <2>9. /\ link'["src"].up = link["src"].up /\ link'["src"].requests = <<>>
        /\ Len(link'["src"].replies) <= ReplyRoom /\ OnlyEnd("src")
    BY <1>2, <1>3, <1>4, <1>src
  <2> QED  BY <2>8, <2>9, <1>src, <1>types, <1>same, SourceFrame
<1> QED  BY <1>5, <1>6

LEMMA OneMore == ASSUME NEW x \in Nat, NEW y \in Nat  PROVE (x + y) + 1 = x + (y + 1)
OBVIOUS

\* The helper sends the next part of a stream.
LEMMA StreamGrows ==
  ASSUME NEW m \in Me, NEW l \in Link, NEW h, Streams(m, l, h), Sending(m, l),
         NEW r \in Rep, r.op = "OpenRead", r.file = m.job, r.typ \in {"ReadData", "OK", "Err"},
         NEW k \in Link, k.requests = l.requests, k.replies = Append(l.replies, r), NEW g, h \subseteq g,
         NEW a \in Nat, a = Len(l.replies), ~Closed(m) => Follows(m, r, a + 1, g),
         IF r.typ = "ReadData"
         THEN /\ k.serving \notin {Ready, Gone} /\ k.serving.file = l.serving.file
              /\ k.serving.at = l.serving.at + 1
         ELSE k.serving = Ready
  PROVE  Streams(m, k, g)
<1> PICK in, all : in = l.replies /\ all = k.replies  OBVIOUS
<1>1. /\ all \in Seq(Rep) /\ Len(all) = a + 1 /\ all # <<>> /\ all[a + 1] = r
      /\ \A i \in 1..a : all[i] = in[i]
  <2>1. in \in Seq(Rep)  BY DEF Link
  <2>2. /\ Append(in, r) \in Seq(Rep) /\ Len(Append(in, r)) = Len(in) + 1 /\ Append(in, r) # <<>>
        /\ Append(in, r)[Len(in) + 1] = r /\ \A i \in 1..Len(in) : Append(in, r)[i] = in[i]
    BY <2>1, Appended
  <2> QED  BY <2>2
<1>2. \A i \in 1..(a + 1) : i \in 1..a \/ i = a + 1
  OBVIOUS
<1>3. \A i \in 1..a : /\ in[i].typ = "ReadData" /\ in[i].op = "OpenRead" /\ in[i].file = m.job
                      /\ ~Closed(m) => Follows(m, in[i], i, g)
  <2> SUFFICES ASSUME NEW i \in 1..a, NEW p, p = in[i]
               PROVE  /\ p.typ = "ReadData" /\ p.op = "OpenRead" /\ p.file = m.job
                      /\ ~Closed(m) => Follows(m, p, i, g)
    OBVIOUS
  <2>1. p.typ = "ReadData"  BY DEF Sending
  <2>2. p.op = "OpenRead" /\ p.file = m.job /\ (~Closed(m) => Follows(m, p, i, h))
    BY DEF Streams, InOrder
  <2>3. Follows(m, p, i, h) => Follows(m, p, i, g)  BY DEF Follows
  <2> QED  BY <2>1, <2>2, <2>3
<1>4. InOrder(m, all, g)
  <2> SUFFICES ASSUME NEW i \in 1..(a + 1), NEW p, p = all[i]
               PROVE  /\ p.op = "OpenRead" /\ p.file = m.job /\ p.typ \in {"ReadData", "OK", "Err"}
                      /\ p.typ # "ReadData" => i = a + 1
                      /\ ~Closed(m) => Follows(m, p, i, g)
    BY <1>1 DEF InOrder
  <2>1. CASE i = a + 1  BY <2>1, <1>1
  <2>2. CASE i \in 1..a  BY <2>2, <1>1, <1>3
  <2> QED  BY <2>1, <2>2, <1>2
<1>5. CASE r.typ = "ReadData"
  <2>1. \A i \in 1..Len(all) : all[i].typ = "ReadData"
    <3> SUFFICES ASSUME NEW i \in 1..(a + 1)  PROVE all[i].typ = "ReadData"  BY <1>1
    <3>1. CASE i = a + 1  BY <3>1, <1>1, <1>5
    <3>2. CASE i \in 1..a  BY <3>2, <1>1, <1>3
    <3> QED  BY <3>1, <3>2, <1>2
  <2>2. ~Closed(m) => k.serving.at = Len(m.got) + Len(all)
    <3> PICK b : b = Len(m.got)  OBVIOUS
    <3>1. b \in Nat  BY DEF Me
    <3>2. ~Closed(m) => l.serving.at = b + a  BY DEF Sending
    <3>3. (b + a) + 1 = b + (a + 1)  BY <3>1, OneMore
    <3> QED  BY <3>2, <3>3, <1>1, <1>5
  <2>3. Sending(m, k)  BY <2>1, <2>2, <1>5 DEF Sending
  <2> QED  BY <2>3, <1>4 DEF Streams
<1>6. CASE r.typ # "ReadData"
  <2>1. AllSent(k)  BY <1>1, <1>6 DEF AllSent, Sending
  <2> QED  BY <2>1, <1>4 DEF Streams
<1> QED  BY <1>5, <1>6

LEMMA StreamKeeps ==
  ASSUME IInv, NEW e \in Ends, Stream(e)
  PROVE  IInv'
<1> PICK s : s = link[e].serving  OBVIOUS
<1>s. s \notin {Ready, Gone}  BY DEF Stream
<1>same. UNCHANGED <<remote, sess, dest, me, queue, result, canceled>>  BY DEF Stream
<1>types. /\ Types /\ e \in {"src", "dst"} /\ link[e] \in Link /\ link \in [Ends -> Link]
          /\ hurt \subseteq File /\ troubles \in 0..MaxTroubles /\ s \in Serving
          /\ link[e].replies \in Seq(Rep) /\ Len(link[e].replies) \in Nat
          /\ link[e].holder \in Worker \cup {Nobody}
  BY PlaceFacts, LinkTyped DEF IInv, Types
<1>served. s.op = "OpenRead" /\ s.file \in File /\ s.at \in 0..Blocks /\ s.at \in Nat
  BY <1>s, <1>types, BoundsAssumption DEF Serving
<1>remote. e \in remote
  <2>1. link[e].up => ~Quiet(e)  BY <1>s DEF Quiet, Awake
  <2> QED  BY <2>1 DEF IInv, Lost, Talks, Talk
<1> PICK in : in = link[e].replies  OBVIOUS
<1> PICK a : a = Len(in)  OBVIOUS
<1>down. ASSUME ~link[e].up  PROVE IInv'
  <2>1. link' = [link EXCEPT ![e].serving = Gone] /\ UNCHANGED <<troubles, hurt>>
    BY <1>down DEF Stream
  <2> DEFINE l == [link[e] EXCEPT !.serving = Gone]
  <2>2. link' = [link EXCEPT ![e] = l]  BY <2>1, <1>types
  <2>3. /\ l \in Link /\ ~l.up /\ l.holder = link[e].holder /\ l.requests = link[e].requests
        /\ l.replies = in
    BY <1>types, <1>down DEF Link, Serving
  <2> HIDE DEF l
  <2>4. OnlyEnd(e) /\ link'[e] = l  BY <2>2, <2>3, <1>types, OneEnd
  <2>5. Len(link'[e].replies) <= Len(link[e].replies)
        /\ \A i \in 1..Len(link'[e].replies) : link'[e].replies[i] = link[e].replies[i]
    <3>1. Len(in) \in Nat /\ Len(in) <= Len(in)  BY <1>types
    <3> QED  BY <2>3, <2>4, <3>1
  <2>6. ~link'[e].up /\ link'[e].requests \in {link[e].requests, <<>>}  BY <2>3, <2>4
  <2> QED  BY <2>1, <2>4, <2>5, <2>6, <1>down, <1>remote, <1>types, <1>same, DownFrame
<1>up. ASSUME link[e].up
       PROVE  /\ e = "src"
              /\ \E w \in Worker : /\ link["src"].holder = w /\ ~Calling(w, "src") /\ ~me[w].eof
                                   /\ Streams(me[w], link["src"], hurt) /\ Sending(me[w], link["src"])
  <2>1. ~Awake(e) /\ ~Quiet(e) /\ Talk(e)  BY <1>s, <1>up DEF Quiet, Awake, IInv, Talks
  <2>2. PICK w \in Worker : link[e].holder = w /\ Conv(w, e)  BY <2>1, <1>types DEF Talk
  <2>3. ~Calling(w, e)  BY <2>1, <2>2, <1>s, <1>up DEF Conv, InCall
  <2>4. e = "src" /\ ~me[w].eof /\ Streams(me[w], link["src"], hurt)
    BY <2>1, <2>2, <2>3 DEF Conv, InStream
  <2>5. Sending(me[w], link["src"])
    BY <2>4, <1>s, <1>up DEF Streams, Unserved, AllSent
  <2> QED  BY <2>2, <2>3, <2>4, <2>5
<1>send. ASSUME link[e].up, Room(e), NEW r \in Rep, r.op = "OpenRead", r.file = s.file,
                NEW t \in Serving, link' = [link EXCEPT ![e].serving = t, ![e].replies = Append(@, r)],
                r.typ \in {"ReadData", "OK", "Err"},
                hurt \subseteq hurt', hurt' \subseteq File, troubles' \in 0..MaxTroubles,
                r.typ = "ReadData" => /\ s.at + 1 <= Blocks /\ r.block = <<s.file, s.at + 1>>
                                      /\ t \notin {Ready, Gone} /\ t.file = s.file /\ t.at = s.at + 1,
                r.typ # "ReadData" => t = Ready,
                r.typ = "OK" => s.at = Blocks,
                r.typ = "Err" => s.file \in hurt'
         PROVE  IInv'
  <2>1. PICK w \in Worker : /\ link["src"].holder = w /\ ~Calling(w, "src") /\ ~me[w].eof
                            /\ Streams(me[w], link["src"], hurt) /\ Sending(me[w], link["src"])
    BY <1>send, <1>up
  <2>src. e = "src"  BY <1>send, <1>up
  <2> DEFINE l == [link[e] EXCEPT !.serving = t, !.replies = Append(in, r)]
  <2>2. link' = [link EXCEPT ![e] = l]  BY <1>send, <1>types
  <2>3. Append(in, r) \in Seq(Rep) /\ Len(Append(in, r)) = a + 1
    BY <1>send, <1>types, Appended
  <2>4. /\ l \in Link /\ l.up = link[e].up /\ l.holder = link[e].holder
        /\ l.requests = link[e].requests /\ l.replies = Append(in, r) /\ l.serving = t
    BY <2>3, <1>send, <1>types DEF Link
  <2> HIDE DEF l
  <2>5. OnlyEnd(e) /\ link'[e] = l  BY <2>2, <2>4, <1>types, OneEnd
  <2>6. Len(link'["src"].replies) <= ReplyRoom
    BY <2>3, <2>4, <2>5, <2>src, <1>send, <1>types, BoundsAssumption DEF Room
  <2>7. s.file = me[w].job /\ (~Closed(me[w]) => s.at = Len(me[w].got) + a)
    BY <2>1, <2>src DEF Sending
  <2>8. me[w] \in Me  BY <1>types, WorkerTyped
  <2>9. ~Closed(me[w]) => Follows(me[w], r, a + 1, hurt')
    <3> PICK b : b = Len(me[w].got)  OBVIOUS
    <3>1. b \in Nat /\ a \in Nat  BY <2>8, <1>types DEF Me
    <3>2. ~Closed(me[w]) => b + (a + 1) = s.at + 1
      <4>1. (b + a) + 1 = b + (a + 1)  BY <3>1, OneMore
      <4> QED  BY <2>7, <4>1
    <3> QED  BY <2>7, <3>2, <1>send DEF Follows
  <2>10. Streams(me[w], l, hurt')
    <3>1. /\ a \in Nat /\ a = Len(link["src"].replies) /\ l.requests = link["src"].requests
          /\ l.replies = Append(link["src"].replies, r) /\ link["src"] \in Link /\ r.file = me[w].job
          /\ link["src"].serving = s /\ l.serving = t
      BY <2>4, <2>7, <2>src, <1>send, <1>types
    <3> QED  BY <3>1, <2>1, <2>4, <2>8, <2>9, <1>send, StreamGrows
  <2>11. Talk("src")'
    <3>1. InStream(w)'  BY <2>10, <2>5, <2>src, <1>same DEF InStream
    <3>2. ~Calling(w, "src")' /\ ~me'[w].eof /\ link'["src"].holder = w
      BY <2>1, <2>5, <2>src, <1>same DEF Calling, OnlyEnd
    <3> QED  BY <3>1, <3>2, BoundsAssumption DEF Talk, Conv
  <2>12. /\ link'["src"].up = link["src"].up /\ OnlyEnd("src") /\ "src" \in remote
         /\ link'["src"].requests \in {link["src"].requests, <<>>}
    BY <2>4, <2>5, <2>src, <1>remote
  <2> QED  BY <2>6, <2>11, <2>12, <1>send, <1>same, SourceFrame
<1>1. CASE /\ link[e].up /\ Room(e) /\ s.at < Blocks /\ UNCHANGED <<troubles, hurt>>
           /\ link' = [link EXCEPT
                ![e].serving.at = s.at + 1,
                ![e].replies = Append(@, Reply(s, "ReadData", Source(s.file)[s.at + 1]))]
  <2> PICK b : b = Source(s.file)[s.at + 1]  OBVIOUS
  <2>1. s.at + 1 \in 1..Blocks /\ s.at + 1 \in 0..Blocks  BY <1>1, <1>served, BoundsAssumption
  <2>2. b = <<s.file, s.at + 1>> /\ b \in Block  BY <2>1, <1>served, BlockFacts DEF Source
  <2> PICK r : r = Reply(s, "ReadData", b)  OBVIOUS
  <2>3. r \in Rep /\ r.op = "OpenRead" /\ r.file = s.file /\ r.typ = "ReadData" /\ r.block = b
    BY <2>2, <1>served DEF Reply, Rep, Ops
  <2> PICK t : t = [s EXCEPT !.at = s.at + 1]  OBVIOUS
  <2>4. s \in [op : {"OpenRead"}, file : File, at : 0..Blocks]  BY <1>s, <1>types DEF Serving
  <2>5. t \in [op : {"OpenRead"}, file : File, at : 0..Blocks] /\ t.file = s.file /\ t.at = s.at + 1
    BY <2>1, <2>4
  <2>6. t \in Serving /\ t \notin {Ready, Gone}
    <3>1. t.op = "OpenRead" /\ Ready.op = "ready" /\ Gone.op = "gone"  BY <2>5 DEF Ready, Gone
    <3> QED  BY <2>5, <3>1 DEF Serving
  <2>7. link' = [link EXCEPT ![e].serving = t, ![e].replies = Append(@, r)]
    BY <1>1, <1>types
  <2>8. hurt \subseteq hurt' /\ hurt' \subseteq File /\ troubles' \in 0..MaxTroubles  BY <1>1, <1>types
  <2>9. s.at + 1 <= Blocks  BY <2>1
  <2>10. /\ r.typ \in {"ReadData", "OK", "Err"}
         /\ r.typ = "ReadData" => /\ s.at + 1 <= Blocks /\ r.block = <<s.file, s.at + 1>>
                                  /\ t \notin {Ready, Gone} /\ t.file = s.file /\ t.at = s.at + 1
         /\ r.typ # "ReadData" => t = Ready
         /\ r.typ = "OK" => s.at = Blocks
         /\ r.typ = "Err" => s.file \in hurt'
    BY <2>2, <2>3, <2>5, <2>6, <2>9
  <2>11. r \in Rep /\ r.op = "OpenRead" /\ r.file = s.file /\ t \in Serving /\ link[e].up /\ Room(e)
    BY <2>3, <2>6, <1>1
  <2> QED  BY <2>7, <2>8, <2>10, <2>11, <1>send
<1>end. ASSUME NEW typ \in {"OK", "Err"}, NEW r, r = Reply(s, typ, Blank)
        PROVE  /\ r \in Rep /\ r.op = "OpenRead" /\ r.file = s.file /\ r.typ = typ
               /\ in \o LastReplies(s, typ) = Append(in, r)
               /\ Ready \in Serving
  <2>1. r \in Rep /\ r.op = "OpenRead" /\ r.file = s.file /\ r.typ = typ
    BY <1>end, <1>served, BlockFacts DEF Reply, Rep, Ops
  <2>2. in \o <<r>> = Append(in, r)  BY <2>1, <1>types, Appended
  <2> QED  BY <2>1, <2>2, <1>end DEF LastReplies, Serving
<1>2. CASE /\ link[e].up /\ Room(e) /\ s.at = Blocks /\ UNCHANGED <<troubles, hurt>>
           /\ link' = [link EXCEPT ![e].serving = Ready, ![e].replies = @ \o LastReplies(s, "OK")]
  <2> PICK r : r = Reply(s, "OK", Blank)  OBVIOUS
  <2>1. /\ r \in Rep /\ r.op = "OpenRead" /\ r.file = s.file /\ r.typ = "OK"
        /\ in \o LastReplies(s, "OK") = Append(in, r) /\ Ready \in Serving
    BY <1>end
  <2>2. link' = [link EXCEPT ![e].serving = Ready, ![e].replies = Append(@, r)]
    BY <2>1, <1>2, <1>types
  <2>3. hurt \subseteq hurt' /\ hurt' \subseteq File /\ troubles' \in 0..MaxTroubles  BY <1>2, <1>types
  <2> QED  BY <2>1, <2>2, <2>3, <1>2, <1>send
<1>3. CASE /\ link[e].up /\ Room(e) /\ Trouble /\ hurt' = hurt \cup {s.file}
           /\ link' = [link EXCEPT ![e].serving = Ready, ![e].replies = @ \o LastReplies(s, "Err")]
  <2> PICK r : r = Reply(s, "Err", Blank)  OBVIOUS
  <2>1. /\ r \in Rep /\ r.op = "OpenRead" /\ r.file = s.file /\ r.typ = "Err"
        /\ in \o LastReplies(s, "Err") = Append(in, r) /\ Ready \in Serving
    BY <1>end
  <2>2. link' = [link EXCEPT ![e].serving = Ready, ![e].replies = Append(@, r)]
    BY <2>1, <1>3, <1>types
  <2>3. hurt \subseteq hurt' /\ hurt' \subseteq File /\ troubles' \in 0..MaxTroubles /\ s.file \in hurt'
    BY <1>3, <1>types, <1>served, BoundsAssumption DEF Trouble
  <2> QED  BY <2>1, <2>2, <2>3, <1>3, <1>send
<1> QED  BY <1>1, <1>2, <1>3, <1>down DEF Stream

LEMMA ReadEOFKeeps ==
  ASSUME IInv, NEW e \in Ends, ReadEOF(e)
  PROVE  IInv'
<1>same. UNCHANGED <<remote, dest, me, queue, result, canceled, troubles, hurt>>  BY DEF ReadEOF
<1>types. /\ Types /\ link[e] \in Link /\ hurt \subseteq File /\ troubles \in 0..MaxTroubles
  BY LinkTyped DEF IInv, Types
<1>remote. e \in remote  BY DEF IInv, Lost, ReadEOF
<1> DEFINE l == [link[e] EXCEPT !.serving = Gone]
<1>1. link' = [link EXCEPT ![e] = l]  BY <1>types DEF ReadEOF, Types
<1>2. /\ l \in Link /\ ~l.up /\ l.holder = link[e].holder /\ l.requests = link[e].requests
      /\ l.replies = link[e].replies
  BY <1>types DEF Link, Serving, ReadEOF
<1> HIDE DEF l
<1>3. OnlyEnd(e) /\ link'[e] = l  BY <1>1, <1>2, <1>types, OneEnd
<1>4. Len(link'[e].replies) <= Len(link[e].replies)
      /\ \A i \in 1..Len(link'[e].replies) : link'[e].replies[i] = link[e].replies[i]
  <2> PICK in : in = link[e].replies  OBVIOUS
  <2>1. Len(in) \in Nat /\ Len(in) <= Len(in)  BY <1>types DEF Link
  <2> QED  BY <2>1, <1>2, <1>3
<1>5. sess' = sess \/ (e = "dst" /\ sess' = [sess EXCEPT !["helper"] = NoSession])  BY DEF ReadEOF
<1>6. ~link'[e].up /\ link'[e].requests \in {link[e].requests, <<>>} /\ ~link[e].up
  BY <1>2, <1>3 DEF ReadEOF
<1> QED  BY <1>3, <1>4, <1>5, <1>6, <1>remote, <1>types, <1>same, DownFrame

LEMMA HangUpKeeps ==
  ASSUME IInv, NEW e \in Ends, HangUp(e)
  PROVE  IInv'
<1>same. UNCHANGED <<remote, sess, dest, me, queue, result, canceled, troubles, hurt>>  BY DEF HangUp
<1>types. /\ Types /\ link[e] \in Link /\ hurt \subseteq File /\ troubles \in 0..MaxTroubles /\ e \in remote
  BY LinkTyped DEF IInv, Types, HangUp
<1> DEFINE l == [link[e] EXCEPT !.up = FALSE, !.replies = <<>>]
<1>1. link' = [link EXCEPT ![e] = l]  BY <1>types DEF HangUp, Types
<1>2. /\ l \in Link /\ ~l.up /\ l.holder = link[e].holder /\ l.requests = link[e].requests
      /\ l.replies = <<>>
  <2>1. <<>> \in Seq(Rep)  OBVIOUS
  <2> QED  BY <2>1, <1>types DEF Link
<1> HIDE DEF l
<1>3. OnlyEnd(e) /\ link'[e] = l  BY <1>1, <1>2, <1>types, OneEnd
<1>4. Len(link'[e].replies) <= Len(link[e].replies)
      /\ \A i \in 1..Len(link'[e].replies) : link'[e].replies[i] = link[e].replies[i]
  <2> PICK in : in = link[e].replies  OBVIOUS
  <2>1. Len(in) \in Nat /\ Len(in) >= 0  BY <1>types DEF Link
  <2>2. link'[e].replies = <<>> /\ Len(link'[e].replies) = 0  BY <1>2, <1>3
  <2> QED  BY <2>1, <2>2
<1>5. queue = <<>> /\ \A w \in Worker : me[w].pc = "idle"  BY DEF HangUp
<1>6. ~link'[e].up /\ link'[e].requests \in {link[e].requests, <<>>}  BY <1>2, <1>3
<1> QED  BY <1>3, <1>4, <1>5, <1>6, <1>types, <1>same, DownFrame

LEMMA Cut ==
  ASSUME NEW S, NEW s \in Seq(S), NEW n \in 0..Len(s)
  PROVE  /\ SubSeq(s, 1, n) \in Seq(S) /\ Len(SubSeq(s, 1, n)) = n /\ n <= Len(s)
         /\ \A i \in 1..n : SubSeq(s, 1, n)[i] = s[i]
OBVIOUS

\* The record of an end whose connection broke.
Severed(l, left, n, t) == [l EXCEPT !.up = FALSE, !.requests = left,
                                    !.replies = SubSeq(l.replies, 1, n), !.serving = t]

LEMMA SeveredFacts ==
  ASSUME NEW l \in Link, NEW n \in 0..Len(l.replies), NEW left \in {l.requests, <<>>}, NEW t \in Serving
  PROVE  LET x == Severed(l, left, n, t) IN
         /\ x \in Link /\ ~x.up /\ x.holder = l.holder /\ x.requests = left
         /\ x.replies = SubSeq(l.replies, 1, n)
<1>1. l.replies \in Seq(Rep) /\ l.requests \in Seq(Req)  BY DEF Link
<1>2. SubSeq(l.replies, 1, n) \in Seq(Rep)  BY <1>1, Cut
<1>3. <<>> \in Seq(Req)  OBVIOUS
<1>4. left \in Seq(Req)  BY <1>1, <1>3
<1> QED  BY <1>2, <1>4 DEF Severed, Link

LEMMA BreakKeeps ==
  ASSUME IInv, NEW e \in Ends, Break(e)
  PROVE  IInv'
<1>same. UNCHANGED <<remote, dest, me, queue, result, canceled>>  BY DEF Break
<1>types. /\ Types /\ link[e] \in Link /\ hurt \subseteq File /\ e \in remote
          /\ hurt' = File /\ troubles' \in 0..MaxTroubles
          /\ link[e].requests \in Seq(Req) /\ link[e].replies \in Seq(Rep) /\ Gone \in Serving
  BY LinkTyped, BoundsAssumption DEF IInv, Types, Break, Trouble, Serving
<1>any. ASSUME NEW n \in 0..Len(link[e].replies), NEW left \in {link[e].requests, <<>>}, NEW l,
               NEW t \in Serving, l = Severed(link[e], left, n, t), link' = [link EXCEPT ![e] = l],
               sess' = sess \/ (e = "dst" /\ sess' = [sess EXCEPT !["helper"] = NoSession])
        PROVE  IInv'
  <2>0. /\ l \in Link /\ ~l.up /\ l.holder = link[e].holder /\ l.requests = left
        /\ l.replies = SubSeq(link[e].replies, 1, n)
    BY <1>types, <1>any, SeveredFacts
  <2> PICK in : in = SubSeq(link[e].replies, 1, n)  OBVIOUS
  <2>1. /\ in \in Seq(Rep) /\ Len(in) = n /\ n <= Len(link[e].replies)
        /\ \A i \in 1..n : in[i] = link[e].replies[i]
    BY <1>types, Cut
  <2>4. OnlyEnd(e) /\ link'[e] = l  BY <1>any, <2>0, <1>types, OneEnd
  <2>5. Len(link'[e].replies) <= Len(link[e].replies)
        /\ \A i \in 1..Len(link'[e].replies) : link'[e].replies[i] = link[e].replies[i]
    BY <2>1, <2>4, <2>0
  <2>6. ~link'[e].up /\ link'[e].requests \in {link[e].requests, <<>>}  BY <2>0, <2>4
  <2>7. link'[e].holder = link[e].holder  BY <2>0, <2>4
  <2> QED  BY <2>4, <2>5, <2>6, <2>7, <1>any, <1>types, <1>same, DownFrame
<1> PICK n \in 0..Len(link[e].replies) :
      \/ /\ \E left \in {link[e].requests, <<>>} :
              link' = [link EXCEPT ![e].up = FALSE, ![e].requests = left, ![e].replies = SubSeq(@, 1, n)]
         /\ UNCHANGED sess
      \/ /\ link' = [link EXCEPT ![e].up = FALSE, ![e].requests = <<>>,
                                 ![e].replies = SubSeq(@, 1, n), ![e].serving = Gone]
         /\ sess' = IF e = "dst" THEN [sess EXCEPT !["helper"] = NoSession] ELSE sess
  BY DEF Break
<1>1. ASSUME NEW left \in {link[e].requests, <<>>}, UNCHANGED sess,
             link' = [link EXCEPT ![e].up = FALSE, ![e].requests = left, ![e].replies = SubSeq(@, 1, n)]
      PROVE  IInv'
  <2> PICK t : t = link[e].serving  OBVIOUS
  <2> PICK l : l = Severed(link[e], left, n, t)  OBVIOUS
  <2>1. t \in Serving  BY <1>types DEF Link
  <2>2. l = [link[e] EXCEPT !.up = FALSE, !.requests = left, !.replies = SubSeq(link[e].replies, 1, n)]
    BY <1>types DEF Severed, Link
  <2>3. link' = [link EXCEPT ![e] = l]  BY <1>1, <2>2
  <2> QED  BY <2>1, <2>3, <1>1, <1>any
<1>2. ASSUME link' = [link EXCEPT ![e].up = FALSE, ![e].requests = <<>>,
                                  ![e].replies = SubSeq(@, 1, n), ![e].serving = Gone],
             sess' = IF e = "dst" THEN [sess EXCEPT !["helper"] = NoSession] ELSE sess
      PROVE  IInv'
  <2> PICK l : l = Severed(link[e], <<>>, n, Gone)  OBVIOUS
  <2>1. link' = [link EXCEPT ![e] = l]  BY <1>2 DEF Severed
  <2>2. sess' = sess \/ (e = "dst" /\ sess' = [sess EXCEPT !["helper"] = NoSession])  BY <1>2
  <2> QED  BY <2>1, <2>2, <1>types, <1>any
<1> QED  BY <1>1, <1>2

\* A canceled run, and a step that changes nothing.
LEMMA StillKeeps ==
  ASSUME IInv, UNCHANGED <<remote, link, sess, dest, me, queue, result, hurt>>,
         canceled => canceled', canceled' \in BOOLEAN, troubles' \in 0..MaxTroubles
  PROVE  IInv'
<1>types. Types /\ Jobs /\ Workers  BY DEF IInv
<1>1. SameJobs /\ Grows  BY DEF SameJobs, Grows
<1>2. Types'  BY <1>types DEF Types
<1>3. Jobs'  BY <1>types, <1>1, JobsStay
<1>4. Workers'
  <2> SUFFICES ASSUME NEW v \in Worker  PROVE WorkerOK(v)'  BY DEF Workers
  <2> QED  BY <1>types, <1>1, WorkerStays DEF Workers
<1>5. Holders'  BY DEF IInv, Holders, Holds, Calling, Reading, Writing
<1>6. Talks'
  <2> SUFFICES ASSUME NEW e \in Ends  PROVE Talk(e)'  BY DEF Talks
  <2>1. Talk(e)  BY DEF IInv, Talks
  <2>2. link[e].holder = Nobody => Quiet(e)'  BY <2>1, QuietStays DEF Talk
  <2>3. ASSUME NEW v \in Worker, link[e].holder = v  PROVE Conv(v, e)'
    <3>1. me'[v] = me[v] /\ link'[e] = link[e]  OBVIOUS
    <3>2. Conv(v, e)  BY <2>1, <2>3 DEF Talk
    <3> QED  BY <3>1, <3>2, <1>types, <1>1, ConvStays
  <2> QED  BY <2>2, <2>3 DEF Talk
<1>7. Requests'
  <2> SUFFICES ASSUME NEW e \in Ends  PROVE Limits(e)'  BY DEF Requests
  <2>1. Limits(e) /\ Len(link'[e].replies) <= ReplyRoom  BY DEF IInv, Requests, Limits
  <2> QED  BY <2>1, <1>types, <1>1, LimitsStay
<1>8. Sessions'
  <2>1. ASSUME "dst" \in remote => link["dst"].up, NEW w \in Crew  PROVE Session(w)'
    <3>1. Session(w)  BY <2>1 DEF IInv, Sessions
    <3> QED  BY <3>1 DEF Session, Calling, Slot
  <2>2. ASSUME NEW s \in Slots, sess[s] # NoSession, NEW f, f = sess[s].file  PROVE Begun(f)'
    <3>1. f \in File /\ Begun(f)  BY <2>2, <1>types DEF IInv, Sessions, Types, WriteSession
    <3> QED  BY <3>1, <1>1, BegunStays
  <2>3. Crew' = Crew  BY <1>1, CrewStays
  <2> QED  BY <2>1, <2>2, <2>3 DEF Sessions
<1>9. Files' /\ Lost'  BY DEF IInv, Files, Lost
<1>10. FailureHasCause'  BY DEF IInv, FailureHasCause
<1> QED  BY <1>2, <1>3, <1>4, <1>5, <1>6, <1>7, <1>8, <1>9, <1>10 DEF IInv

LEMMA Ordered ==
  ASSUME queue \in SetToSeqs(File)
  PROVE  queue \in Seq(File) /\ \A i, j \in 1..Len(queue) : queue[i] = queue[j] => i = j
<1>1. Cardinality(File) \in Nat  BY BoundsAssumption, FS_CardinalityType
<1> PICK n : n = Cardinality(File)  OBVIOUS
<1>2. queue \in [1..n -> File] /\ \A i, j \in 1..n : i # j => queue[i] # queue[j]
  BY DEF SetToSeqs
<1>3. queue \in Seq(File) /\ Len(queue) = n  BY <1>1, <1>2
<1> QED  BY <1>2, <1>3

(* The invariant holds at the start, and every step keeps it. *)
LEMMA Starts == Init => IInv
<1> SUFFICES ASSUME Init  PROVE IInv
  OBVIOUS
<1>1. /\ remote \in SUBSET Ends /\ \A s \in Slots : sess[s] = NoSession
      /\ \A f \in File : dest[f] = Old(f) /\ result[f] = "none"
      /\ \A w \in Worker : me[w] = Idle
      /\ canceled = FALSE /\ troubles = 0 /\ hurt = {}
  BY DEF Init
<1>2. \A e \in Ends : /\ link[e].up /\ link[e].holder = Nobody /\ link[e].requests = <<>>
                      /\ link[e].replies = <<>> /\ link[e].serving = Ready /\ link[e] \in Link
  <2> PICK first : first = [up |-> TRUE, holder |-> Nobody, requests |-> <<>>,
                            replies |-> <<>>, serving |-> Ready]
    OBVIOUS
  <2>1. <<>> \in Seq(Req) /\ <<>> \in Seq(Rep)  OBVIOUS
  <2>2. Ready \in Serving  BY DEF Serving
  <2>3. first \in Link  BY <2>1, <2>2 DEF Link
  <2>4. link = [e \in Ends |-> first]  BY DEF Init
  <2> QED  BY <2>3, <2>4
<1>3. queue \in Seq(File) /\ \A i, j \in 1..Len(queue) : queue[i] = queue[j] => i = j
  BY Ordered DEF Init
<1>4. /\ Idle.pc = "idle" /\ Idle.waiting = FALSE /\ Idle.job = NoFile /\ Idle.bad = "no" /\ Idle \in Me
      /\ Idle.eof = FALSE
  <2>1. <<>> \in Seq(Block)  OBVIOUS
  <2>2. 1 \in 1..MaxFileAttempts  BY BoundsAssumption
  <2> QED  BY <2>1, <2>2 DEF Idle, Me, Places
<1>5. NoFile \notin File /\ Nobody \notin Worker  BY BoundsAssumption
<1>6. Types
  <2>1. link \in [Ends -> Link]  BY <1>2 DEF Init
  <2>2. sess \in [Slots -> WriteSession \cup {NoSession}]  BY DEF Init
  <2>3. dest \in [File -> [1..Blocks -> Block]]  BY BlockFacts DEF Init
  <2>4. me \in [Worker -> Me]  BY <1>4 DEF Init
  <2>5. result \in [File -> {"none", "ok", "failed", "skipped"}]  BY DEF Init
  <2>6. troubles \in 0..MaxTroubles  BY <1>1, BoundsAssumption
  <2> QED  BY <1>1, <1>3, <2>1, <2>2, <2>3, <2>4, <2>5, <2>6 DEF Types
<1>7. Jobs
  <2>1. \A i \in 1..Len(queue) : queue[i] \in File  BY <1>3
  <2> QED  BY <1>1, <1>3, <1>4, <1>5, <2>1 DEF Jobs
<1>8. Workers
  <2> SUFFICES ASSUME NEW w \in Worker  PROVE WorkerOK(w)  BY DEF Workers
  <2>1. /\ "idle" \notin Calls /\ "idle" \notin Reads \cup {"stat2", "commit"}
        /\ "idle" \notin (Writes \ {"abort"}) \cup {"stat1", "sign", "begin"}
    BY Routes DEF Reads, Writes
  <2> QED  BY <1>1, <1>4, <2>1 DEF WorkerOK
<1>9. \A w \in Worker, e \in Ends : ~Calling(w, e) /\ ~Reading(w) /\ ~Writing(w)
  BY <1>1, <1>4 DEF Calling, Reading, Writing, Reads, Writes
<1>10. Holders  BY <1>2, <1>5, <1>9 DEF Holders, Holds
<1>11. Talks  BY <1>2, <1>5 DEF Talks, Talk, Quiet, Awake
<1>12. Requests
  <2>1. Len(<<>>) = 0  OBVIOUS
  <2> QED  BY <1>2, <2>1, BoundsAssumption DEF Requests, Limits
<1>13. Sessions
  <2> SUFFICES ASSUME NEW w \in Crew  PROVE Session(w)  BY <1>1 DEF Sessions
  <2>1. w \in Worker /\ Slot(w) \in Slots  BY CrewFacts DEF Slot, Slots
  <2>2. "dst" \in Ends /\ "idle" \notin Writes  BY DEF Ends, Writes
  <2> QED  BY <1>1, <1>4, <1>9, <2>1, <2>2 DEF Session, Before
<1>14. Files /\ Lost /\ FailureHasCause
  BY <1>1, <1>2 DEF Files, Lost, FailureHasCause
<1> QED  BY <1>6, <1>7, <1>8, <1>10, <1>11, <1>12, <1>13, <1>14 DEF IInv

LEMMA Inductive == IInv /\ [Next]_vars => IInv'
<1> SUFFICES ASSUME IInv, [Next]_vars  PROVE IInv'
  OBVIOUS
<1>1. canceled \in BOOLEAN /\ troubles \in 0..MaxTroubles /\ MaxTroubles \in Nat
  BY BoundsAssumption DEF IInv, Types
<1>2. ASSUME NEW w \in Worker, WorkerStep(w)  PROVE IInv'
  <2>1. CASE Take(w)  BY <2>1, TakeKeeps
  <2>2. CASE Ask(w)
    <3> PICK e : e = EndOf(me[w].pc)  OBVIOUS
    <3> QED  BY <2>2, AskKeeps
  <2>3. CASE Hear(w)
    <3> PICK e : e = EndOf(me[w].pc)  OBVIOUS
    <3> PICK ok : ok = Good(w, link[e].replies)  OBVIOUS
    <3> QED  BY <2>3, HearKeeps
  <2>4. CASE LocalCall(w)  BY <2>4, LocalCallKeeps
  <2>5. CASE OpenRead(w)  BY <2>5, OpenReadKeeps
  <2>6. CASE Read(w)  BY <2>6, ReadKeeps
  <2>7. CASE Drain(w)  BY <2>7, DrainKeeps
  <2>8. CASE Close(w)  BY <2>8, CloseKeeps
  <2>9. CASE NoticeCancel(w)  BY <2>9, NoticeCancelKeeps
  <2>10. CASE Finish(w)  BY <2>10, FinishKeeps
  <2> QED  BY <1>2, <2>1, <2>2, <2>3, <2>4, <2>5, <2>6, <2>7, <2>8, <2>9, <2>10 DEF WorkerStep
<1>3. ASSUME NEW e \in Ends, HelperStep(e)  PROVE IInv'
  BY <1>3, ServeKeeps, ServeOpenReadKeeps, StreamKeeps, ReadEOFKeeps DEF HelperStep
<1>4. ASSUME NEW e \in Ends, HangUp(e) \/ Break(e)  PROVE IInv'
  BY <1>4, HangUpKeeps, BreakKeeps
<1>5. CASE Cancel
  <2>1. UNCHANGED <<remote, link, sess, dest, me, queue, result, hurt>> /\ canceled' = TRUE
        /\ troubles' \in 0..MaxTroubles
    BY <1>1, <1>5 DEF Cancel, Trouble
  <2> QED  BY <2>1, StillKeeps
<1>6. CASE UNCHANGED vars
  <2>1. UNCHANGED <<remote, link, sess, dest, me, queue, result, hurt>>
        /\ canceled' = canceled /\ troubles' = troubles
    BY <1>6 DEF vars
  <2> QED  BY <1>1, <2>1, StillKeeps
<1> QED  BY <1>2, <1>3, <1>4, <1>5, <1>6 DEF Next

(* IInv holds in every state of every behaviour: what is on the way between a
   client and a helper, and what the helper's session is, always fits what the
   one holder of the mutex waits for. *)
THEOREM Invariance == Spec => []IInv
BY Starts, Inductive, PTL DEF Spec
-----------------------------------------------------------------------------
(* What a worker's step leaves alone: its file, and unless it reads, what it
   has read. *)
Goes(m, n) == n.job = m.job /\ (n.got = m.got \/ n.got = <<>> \/ n.pc \in Reads)
SameFiles == UNCHANGED <<dest, result>> /\ \A v \in Worker : Goes(me[v], me'[v])

LEMMA OneGoes ==
  ASSUME Types, NEW w \in Worker, NEW m, me' = [me EXCEPT ![w] = m], Goes(me[w], m)
  PROVE  \A v \in Worker : Goes(me[v], me'[v])
<1>1. me'[w] = m /\ \A v \in Worker \ {w} : me'[v] = me[v]  BY DEF Types
<1> QED  BY <1>1 DEF Goes

LEMMA AnsweredGoes ==
  ASSUME Types, NEW w \in Worker, NEW ok
  PROVE  Goes(me[w], Answered(w, ok))
<1>1. me[w] \in Me  BY WorkerTyped
<1> QED  BY <1>1 DEF Answered, Goes, Me

LEMMA Quietly ==
  ASSUME IInv, NEW w \in Worker,
         Ask(w) \/ Hear(w) \/ OpenRead(w) \/ Read(w) \/ Drain(w) \/ Close(w) \/ NoticeCancel(w)
  PROVE  SameFiles
<1>types. Types /\ me[w] \in Me /\ me \in [Worker -> Me]  BY WorkerTyped DEF IInv, Types
<1>same. UNCHANGED <<dest, result>>
  BY DEF Ask, Hear, OpenRead, Read, Drain, Close, NoticeCancel
<1>1. CASE Ask(w)
  <2> PICK m : m = [me[w] EXCEPT !.waiting = TRUE]  OBVIOUS
  <2>1. me' = [me EXCEPT ![w] = m]  BY <1>1, <1>types DEF Ask
  <2>2. Goes(me[w], m)  BY <1>types DEF Goes, Me
  <2> QED  BY <2>1, <2>2, <1>types, <1>same, OneGoes DEF SameFiles
<1>2. CASE Hear(w)
  <2> PICK ok : me' = [me EXCEPT ![w] = Answered(w, ok)]  BY <1>2 DEF Hear
  <2> PICK m : m = Answered(w, ok)  OBVIOUS
  <2>1. me' = [me EXCEPT ![w] = m] /\ Goes(me[w], m)  BY <1>types, AnsweredGoes
  <2> QED  BY <2>1, <1>types, <1>same, OneGoes DEF SameFiles
<1>3. CASE OpenRead(w)
  <2>1. ASSUME me' = [me EXCEPT ![w].pc = Opening[me[w].pc], ![w].got = <<>>, ![w].eof = FALSE]
        PROVE  SameFiles
    <3> PICK m : m = [me[w] EXCEPT !.pc = Opening[me[w].pc], !.got = <<>>, !.eof = FALSE]  OBVIOUS
    <3>1. me' = [me EXCEPT ![w] = m]  BY <2>1, <1>types
    <3>2. Goes(me[w], m)  BY <1>types DEF Goes, Me
    <3> QED  BY <3>1, <3>2, <1>types, <1>same, OneGoes DEF SameFiles
  <2>2. ASSUME me' = [me EXCEPT ![w].pc = OnFailure[me[w].pc], ![w].bad = "plain"]
        PROVE  SameFiles
    <3> PICK m : m = [me[w] EXCEPT !.pc = OnFailure[me[w].pc], !.bad = "plain"]  OBVIOUS
    <3>1. me' = [me EXCEPT ![w] = m]  BY <2>2, <1>types
    <3>2. Goes(me[w], m)  BY <1>types DEF Goes, Me
    <3> QED  BY <3>1, <3>2, <1>types, <1>same, OneGoes DEF SameFiles
  <2> QED  BY <2>1, <2>2, <1>3 DEF OpenRead
<1>4. CASE Read(w)
  <2>0. me[w].pc \in {"read1", "read2"}  BY <1>4, Routes DEF Read
  <2>1. \A block : Goes(me[w], Took(w, block))
    BY <2>0, <1>types DEF Took, Goes, Me, Reads
  <2>2. Goes(me[w], Ended(w)) /\ \A eof : Goes(me[w], Broke(w, eof))
    BY <1>types DEF Ended, Broke, Goes, Me
  <2>3. PICK m : me' = [me EXCEPT ![w] = m] /\ ((\E block : m = Took(w, block)) \/ m = Ended(w)
                                                \/ \E eof : m = Broke(w, eof))
    BY <1>4 DEF Read
  <2>4. Goes(me[w], m)  BY <2>1, <2>2, <2>3
  <2> QED  BY <2>3, <2>4, <1>types, <1>same, OneGoes DEF SameFiles
<1>5. CASE Drain(w)
  <2> PICK m : m = [me[w] EXCEPT !.eof = (Head(link["src"].replies).typ # "ReadData")]  OBVIOUS
  <2>1. me' = [me EXCEPT ![w] = m]  BY <1>5, <1>types DEF Drain
  <2>2. Goes(me[w], m)  BY <1>types DEF Goes, Me
  <2> QED  BY <2>1, <2>2, <1>types, <1>same, OneGoes DEF SameFiles
<1>6. CASE Close(w)
  <2> PICK l, bad, sig : me' = [me EXCEPT ![w].pc = l, ![w].bad = bad, ![w].sig = sig]
    BY <1>6 DEF Close
  <2> PICK m : m = [me[w] EXCEPT !.pc = l, !.bad = bad, !.sig = sig]  OBVIOUS
  <2>1. me' = [me EXCEPT ![w] = m]  BY <1>types
  <2>2. Goes(me[w], m)  BY <1>types DEF Goes, Me
  <2> QED  BY <2>1, <2>2, <1>types, <1>same, OneGoes DEF SameFiles
<1>7. CASE NoticeCancel(w)
  <2> PICK m : m = [me[w] EXCEPT !.pc = "close2", !.bad = "plain"]  OBVIOUS
  <2>1. me' = [me EXCEPT ![w] = m]  BY <1>7, <1>types DEF NoticeCancel
  <2>2. Goes(me[w], m)  BY <1>types DEF Goes, Me
  <2> QED  BY <2>1, <2>2, <1>types, <1>same, OneGoes DEF SameFiles
<1> QED  BY <1>1, <1>2, <1>3, <1>4, <1>5, <1>6, <1>7

\* All that changes a file or a result: a call, a reply, and the workers' loop.
LEMMA FourSteps ==
  ASSUME IInv, [Next]_vars
  PROVE  \/ SameFiles
         \/ \E w \in Worker : LocalCall(w) \/ Take(w) \/ Finish(w)
         \/ \E e \in Ends : Serve(e)
<1>1. ASSUME NEW w \in Worker, WorkerStep(w), ~(LocalCall(w) \/ Take(w) \/ Finish(w))  PROVE SameFiles
  BY <1>1, Quietly DEF WorkerStep
<1>2. ASSUME UNCHANGED <<dest, result, me>>  PROVE SameFiles
  BY <1>2 DEF SameFiles, Goes
<1>3. ASSUME NEW e \in Ends, HelperStep(e) \/ HangUp(e) \/ Break(e), ~Serve(e)  PROVE SameFiles
  BY <1>2, <1>3 DEF HelperStep, ServeOpenRead, Stream, ReadEOF, HangUp, Break
<1>4. CASE Cancel \/ UNCHANGED vars  BY <1>2, <1>4 DEF Cancel, vars
<1> QED  BY <1>1, <1>3, <1>4 DEF Next

\* A local call, and a new start of a worker.
LEMMA CallGoes ==
  ASSUME Types, NEW w \in Worker, LocalCall(w)
  PROVE  \A v \in Worker : Goes(me[v], me'[v])
<1> PICK r : me' = [me EXCEPT ![w] = Answered(w, r.typ = AnswerTo(Op(w)))]  BY DEF LocalCall
<1> PICK ok : ok = (r.typ = AnswerTo(Op(w)))  OBVIOUS
<1> PICK m : m = Answered(w, ok)  OBVIOUS
<1>1. me' = [me EXCEPT ![w] = m] /\ Goes(me[w], m)  BY AnsweredGoes
<1> QED  BY <1>1, OneGoes

LEMMA NewStart ==
  ASSUME Types, NEW w \in Worker, Take(w) \/ Finish(w)
  PROVE  /\ \A v \in Worker \ {w} : me'[v] = me[v]
         /\ me'[w] = me[w] \/ me'[w].got = <<>>
<1>1. Idle.got = <<>>  BY DEF Idle
<1>2. ASSUME NEW m, me' = [me EXCEPT ![w] = m], m.got = <<>>
      PROVE  /\ \A v \in Worker \ {w} : me'[v] = me[v]
             /\ me'[w] = me[w] \/ me'[w].got = <<>>
  BY <1>2 DEF Types
<1>3. ASSUME NEW l, NEW f, me' = [me EXCEPT ![w] = [Idle EXCEPT !.pc = l, !.job = f]]
      PROVE  /\ \A v \in Worker \ {w} : me'[v] = me[v]
             /\ me'[w] = me[w] \/ me'[w].got = <<>>
  <2> PICK m : m = [Idle EXCEPT !.pc = l, !.job = f]  OBVIOUS
  <2>1. m.got = <<>>  BY DEF Idle
  <2> QED  BY <2>1, <1>2, <1>3
<1>4. ASSUME NEW l, NEW f, NEW i, me' = [me EXCEPT ![w] = [Idle EXCEPT !.pc = l, !.job = f, !.tries = i]]
      PROVE  /\ \A v \in Worker \ {w} : me'[v] = me[v]
             /\ me'[w] = me[w] \/ me'[w].got = <<>>
  <2> PICK m : m = [Idle EXCEPT !.pc = l, !.job = f, !.tries = i]  OBVIOUS
  <2>1. m.got = <<>>  BY DEF Idle
  <2> QED  BY <2>1, <1>2, <1>4
<1>5. CASE Take(w)  BY <1>3, <1>5 DEF Take
<1>6. CASE Finish(w)
  <2>1. \/ me' = [me EXCEPT ![w] = Idle]
        \/ me' = [me EXCEPT ![w] = [Idle EXCEPT !.pc = "restat", !.job = me[w].job, !.tries = me[w].tries + 1]]
    BY <1>6 DEF Finish
  <2>2. CASE me' = [me EXCEPT ![w] = Idle]
    <3> PICK m : m = Idle  OBVIOUS
    <3> QED  BY <2>2, <1>1, <1>2
  <2>3. CASE me' = [me EXCEPT ![w] = [Idle EXCEPT !.pc = "restat", !.job = me[w].job, !.tries = me[w].tries + 1]]
    <3> PICK f, i, l : f = me[w].job /\ i = me[w].tries + 1 /\ l = "restat"  OBVIOUS
    <3> QED  BY <2>3, <1>4
  <2> QED  BY <2>1, <2>2, <2>3
<1> QED  BY <1>5, <1>6

Short == \A w \in Worker : Len(me[w].got) <= Blocks

LEMMA ShortStays ==
  ASSUME IInv, Short, [Next]_vars
  PROVE  Short'
<1>types. Types /\ Types' /\ Workers' /\ Len(<<>>) = 0 /\ Blocks \in Nat
  BY Inductive, BoundsAssumption DEF IInv
<1>1. ASSUME \A v \in Worker : Goes(me[v], me'[v])  PROVE Short'
  <2> SUFFICES ASSUME NEW v \in Worker  PROVE Len(me'[v].got) <= Blocks  BY DEF Short
  <2>1. me'[v].pc \in Reads => Len(me'[v].got) <= Blocks  BY <1>types DEF Workers, WorkerOK, Upto
  <2>2. me'[v].got = me[v].got => Len(me'[v].got) <= Blocks  BY DEF Short
  <2>3. me'[v].got = <<>> => Len(me'[v].got) <= Blocks  BY <1>types
  <2> QED  BY <1>1, <2>1, <2>2, <2>3 DEF Goes
<1>2. ASSUME NEW w \in Worker, Take(w) \/ Finish(w)  PROVE Short'
  <2> SUFFICES ASSUME NEW v \in Worker  PROVE Len(me'[v].got) <= Blocks  BY DEF Short
  <2>1. me'[v] = me[v] \/ me'[v].got = <<>>  BY <1>2, <1>types, NewStart
  <2> QED  BY <2>1, <1>types DEF Short
<1>3. ASSUME NEW e \in Ends, Serve(e)  PROVE Short'  BY <1>3 DEF Serve, Short
<1> QED  BY <1>1, <1>2, <1>3, <1>types, CallGoes, FourSteps DEF SameFiles

LEMMA TypeFollows == IInv /\ Short => TypeOK
<1> SUFFICES ASSUME IInv, Short  PROVE TypeOK
  OBVIOUS
<1>1. /\ remote \subseteq Ends /\ result \in [File -> {"none", "ok", "failed", "skipped"}]
      /\ sess \in [Slots -> WriteSession \cup {NoSession}]
      /\ canceled \in BOOLEAN /\ troubles \in 0..MaxTroubles /\ hurt \subseteq File
  BY DEF IInv, Types
<1>2. \A e \in Ends : /\ link[e].up \in BOOLEAN /\ link[e].holder \in Worker \cup {Nobody}
                      /\ Len(link[e].requests) <= 1 /\ Len(link[e].replies) <= ReplyRoom
  BY LinkTyped DEF IInv, Requests, Limits
<1>3. \A f \in File : \A i \in 1..Blocks : dest[f][i] \in {<<f, i>>, Stale}
  <2> SUFFICES ASSUME NEW f \in File, NEW i \in 1..Blocks  PROVE dest[f][i] \in {<<f, i>>, Stale}
    OBVIOUS
  <2>1. dest[f] = Old(f) \/ dest[f] = Source(f)  BY DEF IInv, Files
  <2>2. Old(f)[i] \in {<<f, i>>, Stale}  BY DEF Old
  <2>3. Source(f)[i] = <<f, i>>  BY DEF Source
  <2> QED  BY <2>1, <2>2, <2>3
<1>4. \A w \in Worker :
         /\ me[w].pc \in Calls \cup DOMAIN Opening \cup DOMAIN Closing
                           \cup {"idle", "close1", "close2", "over"}
         /\ me[w].job \in File \cup {NoFile} /\ Len(me[w].got) <= Blocks
         /\ me[w].bad \in {"no", "plain", "unstable"} /\ me[w].tries \in 1..MaxFileAttempts
  <2> SUFFICES ASSUME NEW w \in Worker
               PROVE  /\ me[w].pc \in Calls \cup DOMAIN Opening \cup DOMAIN Closing
                                        \cup {"idle", "close1", "close2", "over"}
                      /\ me[w].job \in File \cup {NoFile} /\ Len(me[w].got) <= Blocks
                      /\ me[w].bad \in {"no", "plain", "unstable"} /\ me[w].tries \in 1..MaxFileAttempts
    OBVIOUS
  <2>1. /\ me[w].pc \in Places /\ me[w].job \in File \cup {NoFile}
        /\ me[w].bad \in {"no", "plain", "unstable"} /\ me[w].tries \in 1..MaxFileAttempts
    BY WorkerTyped DEF IInv
  <2>2. Places \subseteq Calls \cup DOMAIN Opening \cup DOMAIN Closing
                           \cup {"idle", "close1", "close2", "over"}
    BY Routes DEF Places, Reads
  <2>3. Len(me[w].got) <= Blocks  BY DEF Short
  <2> QED  BY <2>1, <2>2, <2>3
<1> QED  BY <1>1, <1>2, <1>3, <1>4 DEF TypeOK

(* Every variable has its type, the one request of a connection and the room
   for its replies included, for any crew of workers and files of any size. *)
THEOREM TypeCorrect == Spec => []TypeOK
<1>1. Init => Short
  <2> SUFFICES ASSUME Init  PROVE Short
    OBVIOUS
  <2>1. \A w \in Worker : me[w].got = <<>>  BY DEF Init, Idle
  <2>2. Len(<<>>) = 0 /\ Blocks >= 0  BY BoundsAssumption
  <2> QED  BY <2>1, <2>2 DEF Short
<1> QED  BY <1>1, Starts, Inductive, ShortStays, TypeFollows, PTL DEF Spec
-----------------------------------------------------------------------------
LEMMA HolderIsWorker ==
  ASSUME IInv, NEW e \in Ends, link[e].replies # <<>>
  PROVE  link[e].holder \in Worker /\ Conv(link[e].holder, e)
<1>1. link[e].holder \in Worker \cup {Nobody} /\ Talk(e)  BY LinkTyped DEF IInv, Talks
<1> QED  BY <1>1 DEF Talk, Quiet

LEMMA InStepFollows == IInv => RepliesInStep
<1> SUFFICES ASSUME IInv, NEW e \in remote, NEW i \in 1..Len(link[e].replies), link[e].up,
                    NEW w, w = link[e].holder
             PROVE  /\ w \in Worker
                    /\ EndOf(me[w].pc) = e \/ (e = "src" /\ me[w].pc = "chunk")
                    /\ \/ link[e].replies[i].op = Op(w)
                       \/ me[w].pc = "chunk" /\ link[e].replies[i].op = "OpenRead"
                    /\ link[e].replies[i].file = me[w].job
  BY DEF RepliesInStep
<1>1. e \in Ends /\ link[e].replies # <<>>
  <2>1. e \in Ends  BY DEF IInv, Types
  <2>2. Len(<<>>) = 0  OBVIOUS
  <2> QED  BY <2>1, <2>2
<1>2. w \in Worker /\ Conv(w, e)  BY <1>1, HolderIsWorker
<1>3. CASE Calling(w, e)
  <2>1. InCall(w, e) /\ EndOf(me[w].pc) = e  BY <1>2, <1>3 DEF Conv, Calling
  <2>2. Len(link[e].replies) = 1 /\ link[e].replies[1].op = Op(w) /\ link[e].replies[1].file = me[w].job
    BY <1>1, <2>1 DEF InCall
  <2>3. i = 1  BY <2>2
  <2> QED  BY <1>2, <2>1, <2>2, <2>3
<1>4. CASE ~Calling(w, e)
  <2>1. e = "src" /\ InStream(w)  BY <1>1, <1>2, <1>4 DEF Conv, Quiet
  <2>2. link[e].replies[i].op = "OpenRead" /\ link[e].replies[i].file = me[w].job
    BY <2>1 DEF InStream, Streams, InOrder
  <2>3. Reading(w)  BY <1>1, <1>2, <1>4, <2>1 DEF IInv, Holders, Holds
  <2>4. me[w].pc = "chunk" \/ (EndOf(me[w].pc) = "src" /\ Op(w) = "OpenRead")
    BY <1>2, <2>3, OpFacts, PlaceFacts DEF Reading, Reads
  <2> QED  BY <1>2, <2>1, <2>2, <2>4
<1> QED  BY <1>3, <1>4

(* What is on the way to a client is the answer to the one call, or the stream
   of the one reader, that holds the mutex; whatever calls failed, were cut
   short or canceled before. *)
THEOREM RepliesStayInStep == Spec => []RepliesInStep
BY InStepFollows, Invariance, PTL

LEMMA OwnerFollows == IInv => SessionHasOwner
<1> SUFFICES ASSUME IInv, "dst" \in remote, link["dst"].up, sess["helper"] # NoSession
             PROVE  /\ link["dst"].holder \in Worker
                    /\ me[link["dst"].holder].job = sess["helper"].file
  BY DEF SessionHasOwner
<1> PICK x : x = sess["helper"]  OBVIOUS
<1>1. PICK w \in Crew : w \in Worker  BY BoundsAssumption DEF Crew
<1>2. Session(w) /\ Slot(w) = "helper" /\ "dst" \in Ends /\ WorkerOK(w)
  BY <1>1 DEF IInv, Sessions, Slot, Ends, Workers
<1>3. ASSUME Holds(w, "dst")  PROVE link["dst"].holder = w  BY <1>1, <1>2, <1>3 DEF IInv, Holders
<1>4. CASE Calling(w, "dst") /\ link["dst"].replies # <<>>
  <2>1. After(me[w], link["dst"].replies[1].typ, x)  BY <1>2, <1>4 DEF Session
  <2>2. x = Held(me[w].job, 0) \/ x = Held(me[w].job, Len(me[w].got))  BY <2>1 DEF After
  <2>3. x.file = me[w].job  BY <2>2 DEF Held
  <2> QED  BY <1>1, <1>3, <1>4, <2>3 DEF Holds
<1>5. CASE ~(Calling(w, "dst") /\ link["dst"].replies # <<>>)
  <2>1. Before(me[w], x)  BY <1>2, <1>5 DEF Session
  <2>2. me[w].pc \in Writes  BY <2>1 DEF Before
  <2>3. x.file = me[w].job  BY <2>1, <2>2 DEF Before, Held
  <2> QED  BY <1>1, <1>3, <2>2, <2>3 DEF Holds, Writing
<1> QED  BY <1>4, <1>5

(* As long as its connection is up, a session at the helper belongs to the file
   of the worker that holds the mutex: no file ever meets another's session. *)
THEOREM SessionsHaveOwners == Spec => []SessionHasOwner
BY OwnerFollows, Invariance, PTL

(* A file fails only for an error of one of its own requests, a connection that
   broke, or a canceled run. *)
THEOREM FailuresHaveCauses == Spec => []FailureHasCause
<1>1. IInv => FailureHasCause  BY DEF IInv
<1> QED  BY <1>1, Invariance, PTL
-----------------------------------------------------------------------------
(* The refinement of StagedWrite.  A destination that has every block of a file
   before the run shows no change when the file is installed, so the mapping
   asks that some block is missing. *)
LEMMA SameProgress ==
  ASSUME result' = result, \A v \in Worker : me'[v].job = me[v].job
  PROVE  Progress' = Progress
BY DEF Progress

LEMMA StutterMaps ==
  ASSUME SameFiles
  PROVE  UNCHANGED Staged!vars
<1>1. Progress' = Progress  BY SameProgress DEF SameFiles, Goes
<1> QED  BY <1>1 DEF SameFiles, Staged!vars

LEMMA InstallMaps ==
  ASSUME Types, Jobs, NEW f \in File, Begun(f), dest' = [dest EXCEPT ![f] = Source(f)],
         result' = result, \A v \in Worker : me'[v].job = me[v].job
  PROVE  Staged!Next \/ UNCHANGED Staged!vars
<1>1. Progress' = Progress  BY SameProgress
<1>2. dest \in [File -> [1..Blocks -> Block]]  BY DEF Types
<1>3. CASE dest[f] = Source(f)
  <2>1. dest' = dest  BY <1>2, <1>3
  <2> QED  BY <1>1, <2>1 DEF Staged!vars
<1>4. CASE dest[f] # Source(f)
  <2>1. Progress[f] \in {"open", "failed"}
    <3>1. CASE result[f] = "failed"  BY <3>1 DEF Progress
    <3>2. CASE \E w \in Worker : me[w].job = f
      <4>1. result[f] = "none"  BY <3>2 DEF Jobs
      <4> QED  BY <3>2, <4>1 DEF Progress
    <3> QED  BY <1>4, <3>1, <3>2 DEF Begun
  <2>2. \A g \in File : dest'[g] = IF g = f THEN Source(f) ELSE dest[g]  BY <1>2
  <2>3. {g \in File : dest'[g] = Source(g)} = {g \in File : dest[g] = Source(g)} \cup {f}  BY <2>2
  <2>4. Staged!Install(f)
    BY <1>1, <1>4, <2>1, <2>3 DEF Staged!Install
  <2> QED  BY <2>4 DEF Staged!Next
<1> QED  BY <1>3, <1>4

\* What a request may do to the files.
LEMMA Installs ==
  ASSUME Types, NEW s \in Slots, NEW q \in Req, NEW r, Does(s, q, r), NEW x, x = sess[s],
         q.op = "Commit" /\ x # NoSession => x.file = q.file /\ q.sig = Source(q.file)
  PROVE  dest' = dest \/ dest' = [dest EXCEPT ![q.file] = Source(q.file)]
<1>1. dest' = r.dest /\ q.op \in Ops  BY DEF Does, Req
<1>2. \A typ, y : Leaves(r, typ, y) => dest' = dest  BY <1>1 DEF Leaves
<1>3. CASE r = Refused(s, q)  BY <1>1, <1>3, RefusedFacts
<1>4. CASE r = Done(s, q)
  <2>1. CASE q.op \in {"Stat", "GetSig", "BeginWrite", "Abort", "OpenRead"}
    BY <1>2, <1>4, <2>1, DoneOther
  <2>2. CASE q.op \in Puts /\ x = NoSession  BY <1>2, <1>4, <2>2, DoneOther
  <2>3. CASE q.op \in Puts /\ x # NoSession  BY <1>2, <1>4, <2>3, DonePut
  <2>4. CASE q.op = "Commit" /\ x = NoSession  BY <1>2, <1>4, <2>4, DoneOther
  <2>5. CASE q.op = "Commit" /\ x # NoSession  BY <1>1, <1>2, <1>4, <2>5, DoneCommit
  <2> QED  BY <1>1, <2>1, <2>2, <2>3, <2>4, <2>5 DEF Ops, Puts
<1> QED  BY <1>3, <1>4 DEF Does

LEMMA LocalCallMaps ==
  ASSUME IInv, NEW w \in Worker, LocalCall(w)
  PROVE  Staged!Next \/ UNCHANGED Staged!vars
<1>types. /\ Types /\ Jobs /\ Workers /\ WorkerOK(w) /\ me[w].pc \in Calls /\ me[w].pc # "idle"
          /\ me[w].job \in File /\ w \in Crew /\ w \in Slots
  BY Routes DEF IInv, Workers, WorkerOK, LocalCall, Slots
<1> PICK q : q = Request(w)  OBVIOUS
<1>1. PICK r : Does(w, q, r)  BY DEF LocalCall
<1>2. q \in Req /\ q.file = me[w].job /\ q.op = Op(w) /\ (me[w].pc = "commit" => q.sig = me[w].sig)
  BY <1>types, RequestTyped
<1>3. q.op = "Commit" => me[w].pc = "commit"  BY <1>2, <1>types, Routes, OpFacts
<1> PICK x : x = sess[w]  OBVIOUS
<1>4. ASSUME me[w].pc = "commit", x # NoSession  PROVE x.file = q.file /\ q.sig = Source(q.file)
  <2>1. "dst" \notin remote /\ Slot(w) = w  BY <1>4, PlaceFacts DEF LocalCall, Slot
  <2>2. Session(w) /\ ~Calling(w, "dst")  BY <2>1, <1>types DEF IInv, Sessions, Calling, WorkerOK
  <2>3. Before(me[w], x)  BY <2>1, <2>2 DEF Session
  <2>4. x.file = me[w].job  BY <1>4, <2>3 DEF Before, Held
  <2>5. me[w].sig = Source(me[w].job)  BY <1>4, <1>types DEF WorkerOK, Writes
  <2> QED  BY <1>2, <1>4, <2>4, <2>5
<1>5. dest' = dest \/ dest' = [dest EXCEPT ![q.file] = Source(q.file)]
  BY <1>1, <1>2, <1>3, <1>4, <1>types, Installs
<1>6. result' = result /\ \A v \in Worker : me'[v].job = me[v].job
  <2>1. \A v \in Worker : Goes(me[v], me'[v])  BY <1>types, CallGoes
  <2> QED  BY <2>1 DEF LocalCall, Goes
<1>7. Begun(q.file)  BY <1>2 DEF Begun
<1>8. CASE dest' = dest
  <2>1. Progress' = Progress  BY <1>6, SameProgress
  <2> QED  BY <1>8, <2>1 DEF Staged!vars
<1> QED  BY <1>2, <1>5, <1>6, <1>7, <1>8, <1>types, InstallMaps

LEMMA ServeMaps ==
  ASSUME IInv, NEW e \in Ends, Serve(e)
  PROVE  Staged!Next \/ UNCHANGED Staged!vars
<1> PICK q : q = Head(link[e].requests)  OBVIOUS
<1>q. link[e].requests # <<>> /\ link[e].serving = Ready  BY DEF Serve
<1>1. PICK r : Does("helper", q, r)  BY DEF Serve
<1>2. /\ Types /\ Jobs /\ q \in Req /\ RequestOK(e, q) /\ "helper" \in Slots /\ q.file \in File
      /\ e \in {"src", "dst"} /\ q.op # "OpenRead"
  BY <1>q, AtFront, PlaceFacts DEF IInv, Req, Slots, Serve
<1>3. result' = result /\ \A v \in Worker : me'[v].job = me[v].job  BY DEF Serve
<1>4. dest' = dest \/ (e = "dst" /\ dest' = [dest EXCEPT ![q.file] = Source(q.file)])
  <2> PICK x : x = sess["helper"]  OBVIOUS
  <2>1. q.op = "Commit" /\ x # NoSession => x.file = q.file /\ q.sig = Source(q.file)
    BY <1>2 DEF RequestOK
  <2>2. dest' = dest \/ dest' = [dest EXCEPT ![q.file] = Source(q.file)]
    BY <1>1, <1>2, <2>1, Installs
  <2>3. ASSUME e = "src"  PROVE dest' = dest
    <3>1. q.op = "Stat"  BY <1>2, <2>3 DEF RequestOK
    <3>2. r = Done("helper", q) \/ r = Refused("helper", q)  BY <1>1 DEF Does
    <3>3. r.dest = dest  BY <1>2, <3>1, <3>2, DoneOther, RefusedFacts DEF Leaves
    <3> QED  BY <1>1, <3>3 DEF Does
  <2> QED  BY <1>2, <2>2, <2>3
<1>5. CASE dest' = dest
  <2>1. Progress' = Progress  BY <1>3, SameProgress
  <2> QED  BY <1>5, <2>1 DEF Staged!vars
<1>6. CASE e = "dst" /\ dest' = [dest EXCEPT ![q.file] = Source(q.file)]
  <2>1. Begun(q.file)  BY <1>2, <1>6 DEF RequestOK
  <2> QED  BY <2>1, <1>2, <1>3, <1>6, InstallMaps
<1> QED  BY <1>4, <1>5, <1>6

LEMMA TakeMaps ==
  ASSUME IInv, NEW w \in Worker, Take(w)
  PROVE  Staged!Next \/ UNCHANGED Staged!vars
<1>types. /\ Types /\ Jobs /\ me[w] = Idle /\ queue \in Seq(File) /\ queue # <<>>
          /\ me \in [Worker -> Me] /\ result \in [File -> {"none", "ok", "failed", "skipped"}]
  BY DEF IInv, Types, Workers, WorkerOK, Take
<1> PICK f : f = Head(queue)  OBVIOUS
<1>f. f \in File /\ result[f] = "none" /\ \A v \in Worker : me[v].job # f
  <2>1. Len(queue) \in Nat /\ Len(queue) >= 1 /\ f = queue[1] /\ f \in File  BY <1>types, Rest
  <2>2. 1 \in 1..Len(queue)  BY <2>1
  <2> QED  BY <2>1, <2>2, <1>types DEF Jobs
<1>dest. dest' = dest  BY DEF Take
<1>1. CASE result' = [result EXCEPT ![f] = "skipped"] /\ me' = me
  <2>1. \A g \in File : result'[g] = IF g = f THEN "skipped" ELSE result[g]  BY <1>1, <1>types
  <2>2. Progress' = Progress  BY <1>1, <1>f, <2>1 DEF Progress
  <2> QED  BY <2>2, <1>dest DEF Staged!vars
<1>2. CASE result' = result /\ me' = [me EXCEPT ![w] = [Idle EXCEPT !.pc = "quick", !.job = f]]
  <2> PICK m : m = [Idle EXCEPT !.pc = "quick", !.job = f]  OBVIOUS
  <2>1. m.job = f  BY DEF Idle
  <2>2. \A v \in Worker : me'[v].job = IF v = w THEN f ELSE me[v].job  BY <1>2, <2>1, <1>types
  <2>3. me[w].job \notin File  BY <1>types, IdleFacts
  <2>4. \A g \in File : (\E v \in Worker : me'[v].job = g) <=> g = f \/ \E v \in Worker : me[v].job = g
    BY <2>2, <2>3
  <2>5. Progress[f] = "idle" /\ Progress' = [Progress EXCEPT ![f] = "open"]
    BY <1>2, <1>f, <2>4 DEF Progress
  <2>6. Staged!Open(f)  BY <1>dest, <2>5 DEF Staged!Open
  <2> QED  BY <1>f, <2>6 DEF Staged!Next
<1> QED  BY <1>1, <1>2 DEF Take

LEMMA FinishMaps ==
  ASSUME IInv, NEW w \in Worker, Finish(w)
  PROVE  Staged!Next \/ UNCHANGED Staged!vars
<1>types. /\ Types /\ Jobs /\ WorkerOK(w) /\ me[w].pc = "over" /\ me[w].job \in File
          /\ me \in [Worker -> Me] /\ result \in [File -> {"none", "ok", "failed", "skipped"}]
  BY DEF IInv, Types, Workers, WorkerOK, Finish
<1> PICK f : f = me[w].job  OBVIOUS
<1>f. f \in File /\ result[f] = "none" /\ \A v \in Worker : me[v].job = f => v = w
  BY <1>types DEF Jobs
<1>dest. dest' = dest  BY DEF Finish
<1>1. CASE /\ result' = result
           /\ me' = [me EXCEPT ![w] = [Idle EXCEPT !.pc = "restat", !.job = me[w].job, !.tries = me[w].tries + 1]]
  <2> PICK m : m = [Idle EXCEPT !.pc = "restat", !.job = me[w].job, !.tries = me[w].tries + 1]  OBVIOUS
  <2>1. m.job = f  BY DEF Idle
  <2>2. \A v \in Worker : me'[v].job = me[v].job  BY <1>1, <2>1, <1>types
  <2>3. Progress' = Progress  BY <1>1, <2>2, SameProgress
  <2> QED  BY <2>3, <1>dest DEF Staged!vars
<1>2. CASE /\ me' = [me EXCEPT ![w] = Idle]
           /\ result' = [result EXCEPT ![f] = IF me[w].bad = "no" THEN "ok" ELSE "failed"]
  <2> PICK res : res = IF me[w].bad = "no" THEN "ok" ELSE "failed"  OBVIOUS
  <2>1. \A v \in Worker : me'[v].job = IF v = w THEN NoFile ELSE me[v].job
    BY <1>2, <1>types, IdleFacts
  <2>2. \A g \in File : result'[g] = IF g = f THEN res ELSE result[g]  BY <1>2, <1>types
  <2>3. \A g \in File \ {f} : (\E v \in Worker : me'[v].job = g) <=> \E v \in Worker : me[v].job = g
    BY <2>1, IdleFacts
  <2>4. Progress[f] = "open"  BY <1>f DEF Progress
  <2>5. Progress' = [Progress EXCEPT ![f] = res]
    <3>1. res \in {"ok", "failed"}  OBVIOUS
    <3>2. ASSUME NEW g \in File, g # f  PROVE Progress'[g] = Progress[g]
      BY <2>2, <2>3, <3>2 DEF Progress
    <3>3. Progress'[f] = res  BY <1>f, <2>2, <3>1 DEF Progress
    <3>4. /\ Progress = [g \in File |-> Progress[g]] /\ Progress' = [g \in File |-> Progress'[g]]
      BY DEF Progress
    <3> QED  BY <3>2, <3>3, <3>4
  <2>6. CASE me[w].bad = "no"
    <3>1. dest[f] = Source(f) /\ res = "ok"  BY <2>6, <1>types DEF WorkerOK
    <3>2. f \in {g \in File : dest[g] = Source(g)}  BY <3>1, <1>f
    <3>3. Staged!Succeed(f)  BY <1>dest, <2>4, <2>5, <3>1, <3>2 DEF Staged!Succeed
    <3> QED  BY <1>f, <3>3 DEF Staged!Next
  <2>7. CASE me[w].bad # "no"
    <3>1. Staged!Fail(f)  BY <1>dest, <2>4, <2>5, <2>7 DEF Staged!Fail
    <3> QED  BY <1>f, <3>1 DEF Staged!Next
  <2> QED  BY <2>6, <2>7
<1> QED  BY <1>1, <1>2 DEF Finish

LEMMA StepMaps == IInv /\ [Next]_vars => [Staged!Next]_(Staged!vars)
<1> SUFFICES ASSUME IInv, [Next]_vars  PROVE Staged!Next \/ UNCHANGED Staged!vars
  OBVIOUS
<1> QED  BY FourSteps, StutterMaps, LocalCallMaps, ServeMaps, TakeMaps, FinishMaps

LEMMA InitMaps == Init /\ Known # 1..Blocks => Staged!Init
<1> SUFFICES ASSUME Init, Known # 1..Blocks  PROVE Staged!Init
  OBVIOUS
<1>1. \A w \in Worker : me[w].job = NoFile  BY DEF Init, Idle
<1>2. Progress = [f \in File |-> "idle"]  BY <1>1, IdleFacts DEF Init, Progress
<1>3. PICK i \in 1..Blocks : i \notin Known  BY BoundsAssumption
<1>4. \A f \in File : dest[f] # Source(f)
  <2> SUFFICES ASSUME NEW f \in File  PROVE dest[f] # Source(f)
    OBVIOUS
  <2>1. dest[f][i] = Stale  BY <1>3 DEF Init, Old
  <2>2. Source(f)[i] = <<f, i>> /\ <<f, i>> # Stale  BY BlockFacts DEF Source
  <2> QED  BY <2>1, <2>2
<1>5. {f \in File : dest[f] = Source(f)} = {}  BY <1>4
<1> QED  BY <1>2, <1>5 DEF Staged!Init

(* Across a connection and its losses a write session keeps the promise of
   transport.go: the whole content in one step, no success without it, and at
   most one replacement after a failure. *)
THEOREM Refinement == (Known # 1..Blocks) => (Spec => ImplementsStagedWrite)
<1> SUFFICES ASSUME Known # 1..Blocks  PROVE Spec => ImplementsStagedWrite
  OBVIOUS
<1>1. Init => Staged!Init  BY InitMaps
<1> QED  BY <1>1, StepMaps, Starts, Inductive, PTL DEF Spec, ImplementsStagedWrite, Staged!Spec
=============================================================================
