------------------------ MODULE ClangdProvider_proofs ------------------------
(***************************************************************************)
(* Theorems about ClangdProvider and their proofs.                         *)
(*                                                                         *)
(* What clangd has open is behind what the client believes by the frames   *)
(* in the pipe, and an answer may come long after its request was given    *)
(* up.  The inductive invariant says that the frames in the pipe lead from *)
(* the one view to the other without ever leaving the window, and that     *)
(* nothing on its way to the shutdown worker bears its id before clangd    *)
(* has been shut down.                                                     *)
(***************************************************************************)
EXTENDS ClangdProvider, SequenceTheorems, FiniteSetTheorems, WellFoundedInduction, TLAPS

-----------------------------------------------------------------------------
ControlOK ==
    /\ pc \in Asking => tasks # <<>>
    /\ process = "gone" => out = <<>>
    /\ pc \in {"start", "abort", "query", "idle", "left"} => worker.pc = "none"
    /\ pc \in {"rejoin", "release", "closed"} => process = "gone"
    /\ pc = "release" => worker.pc = "done"
    /\ pc = "closed" => streams = "closed" /\ worker.pc \in {"none", "done"}

(* No id is ahead of the counter: in the pipes and in the queue.           *)
Orders(n) == {f \in ToServer : f.kind \in {"request", "shutdown"} => f.id <= n}
Sent(n)   == {m \in FromServer : m.kind \in Answers => m.id <= n}
Queued(n) == {m \in Response : m.kind \in Answers => m.id <= n}

IdsOK ==
    /\ out \in Seq(Orders(issued))
    /\ in \in Seq(Sent(issued))
    /\ responses \in Seq(Queued(issued))

(* The worker's id is its own, and no answer bears it before the shutdown. *)
OrdersOfOthers(id)  == {f \in ToServer : f.kind = "request" => f.id # id}
SentToOthers(id)    == {m \in FromServer : m.kind \in Answers => m.id # id}
QueuedForOthers(id) == {m \in Response : m.kind \in Answers => m.id # id}

ShutdownOK ==
    /\ worker.pc = "wait" =>
         /\ worker.id \in Nat /\ worker.id <= issued
         /\ out \in Seq(OrdersOfOthers(worker.id))
         /\ ~server.down => /\ in \in Seq(SentToOthers(worker.id))
                            /\ responses \in Seq(QueuedForOthers(worker.id))
    /\ worker.pc \in {"exit", "reap"} => server.down

(* A frame finds the documents as its writer believed them to be.          *)
Finds(frame, open) ==
    frame.doc # None => IF frame.kind = "didOpen" THEN frame.doc \notin open
                                                  ELSE frame.doc \in open

(* The client still knows which documents are open.                        *)
Tracking == process = "running" /\ pc \in {"start", "query", "idle"}

(* h: what clangd has open once it has taken so many of the frames.        *)
Leads(h) ==
    /\ h \in [0..Len(out) -> SUBSET Docs]
    /\ h[0] = server.open
    /\ \A i \in 0..Len(out) : Cardinality(h[i]) <= MaxOpenDocuments
    /\ \A i \in 1..Len(out) : Finds(out[i], h[i - 1]) /\ h[i] = OpenAfter(out[i], h[i - 1])
    /\ Tracking => h[Len(out)] = opened

DocumentsOK == \E h \in [0..Len(out) -> SUBSET Docs] : Leads(h)

ProviderInv == ProviderTypeOK /\ ControlOK /\ IdsOK /\ ShutdownOK /\ DocumentsOK

-----------------------------------------------------------------------------
(* Sequences, numbers and documents.                                       *)

(* Appending keeps a sequence one of its set.                               *)
LEMMA Queued1 ==
    ASSUME NEW S, NEW q \in Seq(S), NEW x \in S
    PROVE  Append(q, x) \in Seq(S)
  OBVIOUS

(* So does taking the head off.                                             *)
LEMMA Taken1 ==
    ASSUME NEW S, NEW q \in Seq(S), q # <<>>
    PROVE  Head(q) \in S /\ Tail(q) \in Seq(S)
  BY HeadTailProperties, EmptySeq

(* What a reader may do to a pipe: nothing, empty it, or take its head.     *)
LEMMA Shortened ==
    ASSUME NEW S, NEW q \in Seq(S), NEW r,
           r = q \/ r = <<>> \/ (q # <<>> /\ r = Tail(q))
    PROVE  r \in Seq(S)
<1>1. CASE r = q
  BY <1>1
<1>2. CASE r = <<>>
  BY <1>2
<1>3. CASE q # <<>> /\ r = Tail(q)
  BY <1>3, Taken1
<1> QED BY <1>1, <1>2, <1>3

(* What a writer may do to it: nothing, or append.                          *)
LEMMA Lengthened ==
    ASSUME NEW S, NEW q \in Seq(S), NEW r, r = q \/ \E x \in S : r = Append(q, x)
    PROVE  r \in Seq(S)
  OBVIOUS

(* A sequence of a subset is one of the set.                                *)
LEMMA Widened ==
    ASSUME NEW S, NEW U, S \subseteq U, NEW q \in Seq(S)
    PROVE  q \in Seq(U)
  OBVIOUS

(* A set of documents has a first one.                                     *)
LEMMA MinOfDocs ==
    ASSUME NEW D \in SUBSET Docs, D # {}
    PROVE  Min(D) \in D
<1> DEFINE Less == {ss \in Nat \X Nat : ss[1] < ss[2]}
<1>1. D \subseteq Nat
  BY DEF Docs
<1>2. IsWellFoundedOn(Less, Nat)
  BY NatLessThanWellFounded DEF OpToRel
<1>3. \A x, y \in Nat : <<y, x>> \in Less \/ x =< y
  OBVIOUS
<1> HIDE DEF Less
<1>4. PICK x \in D : \A y \in D : ~ (<<y, x>> \in Less)
  BY <1>1, <1>2, WFMin
<1>5. ASSUME NEW y \in D PROVE x =< y
  <2>1. x \in Nat /\ y \in Nat /\ ~ (<<y, x>> \in Less)
    BY <1>1, <1>4
  <2> QED BY <1>3, <2>1
<1> QED BY <1>5 DEF Min

(* Sets of documents are finite, and one more or one less counts by one.    *)
LEMMA SetsOfDocs ==
    ASSUME NEW D \in SUBSET Docs
    PROVE  /\ IsFiniteSet(D) /\ Cardinality(D) \in Nat
           /\ \A d : Cardinality(D \cup {d}) <= Cardinality(D) + 1
           /\ \A d \in D : Cardinality(D \ {d}) < Cardinality(D)
           /\ Cardinality(D) > 0 => D # {}
<1>1. IsFiniteSet(Docs)
  BY FS_Interval, TransportBounds DEF Docs
<1>2. IsFiniteSet(D) /\ Cardinality(D) \in Nat
  BY <1>1, FS_Subset, FS_CardinalityType
<1>3. ASSUME NEW d
      PROVE  /\ Cardinality(D \cup {d}) <= Cardinality(D) + 1
             /\ d \in D => Cardinality(D \ {d}) < Cardinality(D)
  <2>1. Cardinality(D \cup {d}) \in {Cardinality(D), Cardinality(D) + 1}
    BY <1>2, FS_AddElement
  <2>2. d \in D => Cardinality(D \ {d}) = Cardinality(D) - 1
    BY <1>2, FS_RemoveElement
  <2> QED BY <1>2, <2>1, <2>2
<1>4. Cardinality(D) > 0 => D # {}
  BY <1>2, FS_EmptySet
<1> QED BY <1>2, <1>3, <1>4

-----------------------------------------------------------------------------
(* Tasks.                                                                  *)
LEMMA TaskTypes ==
    /\ \A op \in Methods \cup {"initialized"}, doc \in Docs \cup {None}, sym \in Symbols \cup {None} :
          T(op, doc, sym) \in Task
    /\ \A op \in {"open", "collect"}, doc \in Docs : T(op, doc, None) \in Task
    /\ \A op \in {"identify", "handle", "relate"}, doc \in Docs, sym \in Symbols : T(op, doc, sym) \in Task
    /\ \A t \in Task :
          /\ t.doc \in Docs \cup {None}
          /\ t.op \in {"open", "collect", "identify", "handle", "relate"} => t.doc \in Docs
          /\ t.op \in {"identify", "handle", "relate"} => t.sym \in Symbols
          /\ t.sym \in Symbols \cup {None}
  BY DEF Task, T, Methods

(* A thread that is about to ask has a task to ask for.                     *)
LEMMA NextTask ==
    ASSUME ProviderTypeOK, ControlOK, pc \in Asking
    PROVE  Next1 \in Task /\ Tail(tasks) \in Seq(Task)
  BY Taken1 DEF ProviderTypeOK, ClientTypeOK, ControlOK, Next1

(* The tasks of a list of documents are tasks.                              *)
LEMMA EachTyped ==
    ASSUME NEW files \in Ordered, NEW k \in {1, 2, 3}, NEW ops \in Seq(Methods \cup {"open", "collect"}),
           Len(ops) = k
    PROVE  Each(files, ops) \in Seq(Task)
<1>1. PICK n \in 0..NDocs : files \in [1..n -> Docs]
  BY DEF Ordered
<1>2. n \in Nat /\ Len(files) = n
  BY <1>1, TransportBounds
<1>3. ASSUME NEW i \in 1..(k * n)
      PROVE  T(ops[((i - 1) % k) + 1], files[((i - 1) \div k) + 1], None) \in Task
  <2>1. ((i - 1) % k) + 1 \in 1..k /\ ((i - 1) \div k) + 1 \in 1..n
    <3>1. CASE k = 1
      BY <1>2, <3>1
    <3>2. CASE k = 2
      BY <1>2, <3>2
    <3>3. CASE k = 3
      BY <1>2, <3>3
    <3> QED BY <3>1, <3>2, <3>3
  <2>2. ops[((i - 1) % k) + 1] \in Methods \cup {"open", "collect"}
    BY <2>1
  <2>3. files[((i - 1) \div k) + 1] \in Docs
    BY <1>1, <2>1
  <2> QED BY <2>2, <2>3, TaskTypes
<1>4. k * n \in Nat
  BY <1>2
<1>5. Each(files, ops) = [i \in 1..(k * n) |-> T(ops[((i - 1) % k) + 1], files[((i - 1) \div k) + 1], None)]
  BY <1>2 DEF Each
<1> QED BY <1>3, <1>4, <1>5

-----------------------------------------------------------------------------
(* What a step of the client's threads does to the transport.              *)

Quiet == UNCHANGED <<process, out, issued>>

Kills == process' = "gone" /\ out' = <<>> /\ UNCHANGED issued

(* A request gets the next id.                                             *)
Sends(f) ==
    /\ f \in ToServer
    /\ process = "running" /\ process' = process
    /\ out' = Append(out, f)
    /\ IF f.kind \in {"request", "shutdown"} THEN f.id = issued + 1 /\ issued' = issued + 1
                                            ELSE issued' = issued

Takes == responses = responses' \/ (responses # <<>> /\ responses' = Tail(responses))

ClientMoves ==
    /\ UNCHANGED <<in, server, reader>>
    /\ faults' \in 0..MaxFaults
    /\ Takes
    /\ Quiet \/ Kills \/ \E f \in ToServer : Sends(f)

(* Faults stay within their number.                                         *)
LEMMA FaultCounts ==
    ASSUME TransportTypeOK
    PROVE  (Fault \/ UNCHANGED faults) => faults' \in 0..MaxFaults
  BY TransportBounds DEF TransportTypeOK, Fault

(* What each of the writing steps puts into the pipe is a frame.            *)
LEMMA FramesTyped ==
    ASSUME TransportTypeOK
    PROVE  /\ \A doc \in Docs \cup {None} :
                 /\ Written(Frame("request", issued + 1, doc))
                 /\ issued' = issued + 1 /\ UNCHANGED process
                 => Sends(Frame("request", issued + 1, doc))
           /\ /\ Written(Frame("shutdown", issued + 1, None))
              /\ issued' = issued + 1 /\ UNCHANGED process
              => Sends(Frame("shutdown", issued + 1, None))
           /\ \A kind \in {"exit", "reply"} :
                 Written(Frame(kind, 0, None)) /\ UNCHANGED <<issued, process>> => Sends(Frame(kind, 0, None))
           /\ \A kind \in {"didOpen", "didClose"}, doc \in Docs :
                 Written(Frame(kind, 0, doc)) /\ UNCHANGED <<issued, process>> => Sends(Frame(kind, 0, doc))
<1> USE DEF TransportTypeOK, Frame, Written, Sends, ToServer
<1>1. \A doc \in Docs \cup {None} :
         /\ Written(Frame("request", issued + 1, doc))
         /\ issued' = issued + 1 /\ UNCHANGED process
         => Sends(Frame("request", issued + 1, doc))
  OBVIOUS
<1>2. /\ Written(Frame("shutdown", issued + 1, None))
      /\ issued' = issued + 1 /\ UNCHANGED process
      => Sends(Frame("shutdown", issued + 1, None))
  OBVIOUS
<1>3. \A kind \in {"exit", "reply"} :
         Written(Frame(kind, 0, None)) /\ UNCHANGED <<issued, process>> => Sends(Frame(kind, 0, None))
  OBVIOUS
<1>4. \A kind \in {"didOpen", "didClose"}, doc \in Docs :
         Written(Frame(kind, 0, doc)) /\ UNCHANGED <<issued, process>> => Sends(Frame(kind, 0, doc))
  OBVIOUS
<1> QED BY <1>1, <1>2, <1>3, <1>4, Zenon

(* So does a frame that is written while its caller is interrupted.        *)
LEMMA PendingSends ==
    ASSUME ProviderTypeOK, ControlOK, Writing, Written(Pending), UNCHANGED process,
           issued' = issued + (IF Next1.op \in Methods THEN 1 ELSE 0)
    PROVE  Sends(Pending)
<1>1. /\ TransportTypeOK /\ issued \in Nat /\ opened \in SUBSET Docs
      /\ Next1 \in Task /\ Next1.doc \in Docs \cup {None} /\ (Next1.op = "open" => Next1.doc \in Docs)
  BY NextTask, TaskTypes DEF Writing, ProviderTypeOK, TransportTypeOK, ClientTypeOK
<1>2. CASE Next1.op \in Methods
  <2>1. Pending = Frame("request", issued + 1, Next1.doc)
    BY <1>2 DEF Pending, Methods
  <2> QED BY <1>1, <1>2, <2>1, FramesTyped
<1>3. CASE Next1.op = "initialized"
  <2>1. Pending = Frame("reply", 0, None) /\ issued' = issued
    BY <1>1, <1>3 DEF Pending, Methods
  <2> QED BY <1>1, <2>1, FramesTyped
<1>4. CASE Next1.op = "open" /\ Cardinality(opened) >= MaxOpenDocuments
  <2>1. Min(opened) \in Docs
    <3>1. Cardinality(opened) \in Nat /\ Cardinality(opened) > 0
      BY <1>1, <1>4, SetsOfDocs, ProviderBounds
    <3> QED BY <1>1, <3>1, MinOfDocs, SetsOfDocs
  <2>2. Pending = Frame("didClose", 0, Min(opened)) /\ issued' = issued
    <3>1. ~(Cardinality(opened) < MaxOpenDocuments)
      BY <1>1, <1>4, SetsOfDocs, ProviderBounds
    <3> QED BY <1>1, <1>4, <3>1 DEF Pending, Methods
  <2> QED BY <1>1, <2>1, <2>2, FramesTyped
<1>5. CASE Next1.op = "open" /\ Cardinality(opened) < MaxOpenDocuments
  <2>1. Pending = Frame("didOpen", 0, Next1.doc) /\ issued' = issued
    <3>1. ~(Cardinality(opened) >= MaxOpenDocuments)
      BY <1>1, <1>5, SetsOfDocs, ProviderBounds
    <3> QED BY <1>1, <1>5, <3>1 DEF Pending, Methods
  <2> QED BY <1>1, <1>5, <2>1, FramesTyped
<1>6. Cardinality(opened) >= MaxOpenDocuments \/ Cardinality(opened) < MaxOpenDocuments
  BY <1>1, SetsOfDocs, ProviderBounds
<1> QED BY <1>2, <1>3, <1>4, <1>5, <1>6 DEF Writing

(* Passing over an answer of another request is a move of the client.       *)
LEMMA SkipMoves ==
    ASSUME TransportTypeOK, NEW id, Skip(id)
    PROVE  ClientMoves
<1>1. /\ UNCHANGED <<process, in, server, reader, issued>> /\ faults' \in 0..MaxFaults /\ Takes
  BY FaultCounts DEF Skip, Consume, Received, Stale, Takes
<1>2. CASE UNCHANGED out
  BY <1>1, <1>2 DEF ClientMoves, Quiet
<1>3. CASE /\ Received /\ Response1.kind = "ask"
           /\ Written(Frame("reply", Response1.id, None))
  <2>1. Response1 \in Response
    BY <1>3, Taken1 DEF TransportTypeOK, Received, Response1
  <2>2. Response1.id \in Nat
    BY <2>1 DEF Response, FromServer
  <2>3. Sends(Frame("reply", Response1.id, None))
    BY <1>1, <1>3, <2>2 DEF Sends, Frame, Written, ToServer
  <2> QED BY <1>1, <2>3 DEF ClientMoves, Sends
<1> QED BY <1>2, <1>3 DEF Skip

(* Whatever the using thread does to the transport is a move of a client:   *)
(* it writes one frame, takes one answer, or ends the process.              *)
LEMMA MainMoves ==
    ASSUME ProviderTypeOK, ControlOK, Main \/ OpenMissing \/ TerminateFails
    PROVE  ClientMoves
<1> USE DEF ProviderTypeOK
<1>1. pc \in Asking => /\ Next1 \in Task /\ Next1.doc \in Docs \cup {None}
                       /\ Next1.op = "open" => Next1.doc \in Docs
  BY NextTask, TaskTypes
<1>2. UNCHANGED transport => ClientMoves
  BY FaultCounts DEF transport, ClientMoves, Quiet, Takes
<1>3. CASE OpenAlready \/ Reopen \/ Collect \/ RelateItem \/ Identify \/ Handle \/ Join \/ Rejoin \/ Release
  BY <1>2, <1>3 DEF OpenAlready, Reopen, Collect, RelateItem, Identify, Handle, Join, Rejoin, Release
<1>4. Abort /\ UNCHANGED faults => ClientMoves
  BY FaultCounts DEF Abort, Gone, ClientMoves, Kills, Takes
<1>5. CASE WriteFails \/ TimesOut
  BY <1>2, <1>4, <1>5 DEF WriteFails, TimesOut
<1>6. CASE AbortStart \/ Terminate
  BY <1>6, FaultCounts DEF AbortStart, Terminate, Gone, ClientMoves, Kills, Takes
<1>7. CASE OpenMissing \/ TerminateFails
  BY <1>7, FaultCounts DEF OpenMissing, TerminateFails, ClientMoves, Quiet, Takes
<1>8. CASE AskFails \/ Answered
  BY <1>8, FaultCounts DEF AskFails, WaitFails, Answered, Answers1, Received, Raises1, Consume,
                          ClientMoves, Quiet, Takes
<1>9. CASE SkipOther
  BY <1>9, SkipMoves DEF SkipOther
<1>10. ASSUME NEW f, Sends(f), UNCHANGED <<in, server, reader, responses, faults>>
       PROVE  ClientMoves
  <2>1. f \in ToServer
    BY <1>10 DEF Sends
  <2>2. faults' \in 0..MaxFaults /\ Takes
    BY <1>10, FaultCounts DEF Takes
  <2> QED BY <1>10, <2>1, <2>2 DEF ClientMoves
<1>11. CASE Evict
  <2>1. Min(opened) \in Docs
    <3>1. opened \in SUBSET Docs /\ Cardinality(opened) > 0
      BY <1>11, SetsOfDocs, ProviderBounds DEF Evict, ClientTypeOK
    <3> QED BY <3>1, MinOfDocs, SetsOfDocs
  <2>2. Sends(Frame("didClose", 0, Min(opened)))
    BY <1>11, <2>1, FramesTyped DEF Evict
  <2> QED BY <1>10, <1>11, <2>2 DEF Evict, Sends
<1>12. CASE Open
  <2>1. Sends(Frame("didOpen", 0, Next1.doc))
    BY <1>1, <1>12, FramesTyped DEF Open, Doing
  <2> QED BY <1>10, <1>12, <2>1 DEF Open, Sends
<1>13. CASE Ask
  <2>1. Sends(Frame("request", issued + 1, Next1.doc))
    BY <1>1, <1>13, FramesTyped DEF Ask
  <2> QED BY <1>10, <1>13, <2>1 DEF Ask, Sends
<1>14. CASE Initialized
  <2>1. Sends(Frame("reply", 0, None))
    BY <1>14, FramesTyped DEF Initialized
  <2> QED BY <1>10, <1>14, <2>1 DEF Initialized, Sends
<1> QED BY <1>3, <1>5, <1>6, <1>7, <1>8, <1>9, <1>11, <1>12, <1>13, <1>14 DEF Main

(* So is what new calls, close, its worker and an interrupt do.             *)
LEMMA OtherMoves ==
    ASSUME ProviderTypeOK, ControlOK,
           Observe \/ Relate \/ Close \/ CloseAgain \/ Worker \/ Interrupt \/ UNCHANGED vars
    PROVE  ClientMoves
<1> USE DEF ProviderTypeOK
<1>1. UNCHANGED transport => ClientMoves
  BY FaultCounts DEF transport, ClientMoves, Quiet, Takes
<1>2. Abort /\ UNCHANGED faults => ClientMoves
  BY FaultCounts DEF Abort, Gone, ClientMoves, Kills, Takes
<1>3. ASSUME NEW f, Sends(f), UNCHANGED <<in, server, reader, responses>>, faults' \in 0..MaxFaults
      PROVE  ClientMoves
  <2>1. f \in ToServer /\ Takes
    BY <1>3 DEF Sends, Takes
  <2> QED BY <1>3, <2>1 DEF ClientMoves
<1>4. CASE Observe \/ Relate \/ Close \/ CloseAgain \/ WorkerReaps \/ UNCHANGED vars
  BY <1>1, <1>4 DEF Observe, Relate, Query, Close, CloseAgain, WorkerReaps, vars
<1>5. CASE WorkerAsks
  <2>1. ASSUME Written(Frame("shutdown", issued + 1, None)), issued' = issued + 1,
               UNCHANGED <<process, in, server, responses, reader, faults>>
        PROVE  ClientMoves
    <3>1. Sends(Frame("shutdown", issued + 1, None))
      BY <2>1, FramesTyped
    <3> QED BY <1>3, <2>1, <3>1, FaultCounts
  <2> QED BY <1>1, <1>2, <1>5, <2>1 DEF WorkerAsks
<1>6. CASE WorkerSkips
  BY <1>6, SkipMoves DEF WorkerSkips
<1>7. CASE WorkerWaits
  BY <1>2, <1>7, FaultCounts DEF WorkerWaits, WaitFails, Answers1, Received, Raises1, Consume,
                                 ClientMoves, Quiet, Takes
<1>8. CASE WorkerExits
  <2>1. ASSUME Written(Frame("exit", 0, None)),
               UNCHANGED <<process, in, server, responses, reader, issued, faults>>
        PROVE  ClientMoves
    <3>1. Sends(Frame("exit", 0, None))
      BY <2>1, FramesTyped
    <3> QED BY <1>3, <2>1, <3>1, FaultCounts
  <2> QED BY <1>1, <1>2, <1>8, <2>1 DEF WorkerExits
<1>9. CASE Interrupt
  <2>1. /\ faults' \in 0..MaxFaults /\ UNCHANGED <<process, in, server, responses, reader>>
    BY <1>9, FaultCounts DEF Interrupt
  <2>2. CASE UNCHANGED <<out, issued>>
    BY <2>1, <2>2 DEF ClientMoves, Quiet, Takes
  <2>3. CASE /\ Writing /\ Written(Pending)
             /\ issued' = issued + (IF Next1.op \in Methods THEN 1 ELSE 0)
    BY <1>3, <2>1, <2>3, PendingSends
  <2> QED BY <1>9, <2>2, <2>3 DEF Interrupt
<1> QED BY <1>4, <1>5, <1>6, <1>7, <1>8, <1>9 DEF Worker

(* A step is one of the client's threads, or of the world.                 *)
LEMMA StepsSplit ==
    ASSUME ProviderTypeOK, ControlOK, [Next]_vars
    PROVE  ClientMoves \/ Environment
  BY MainMoves, OtherMoves DEF Next

-----------------------------------------------------------------------------
(* Types and ids.                                                          *)
LEMMA ServeTakes ==
    ASSUME TransportTypeOK, Serve
    PROVE  /\ out # <<>> /\ Head(out) \in ToServer /\ process = "running"
           /\ server' \in [open : SUBSET Docs, down : BOOLEAN]
           /\ server'.open = OpenAfter(Head(out), server.open)
           /\ server'.down = (server.down \/ Head(out).kind = "shutdown")
           /\ \/ process' = "running" /\ out' = Tail(out)
              \/ process' = "gone" /\ out' = <<>>
           /\ \/ in' = in
              \/ \E m \in FromServer : /\ in' = Append(in, m) /\ m.id = Head(out).id
                                       /\ Head(out).kind \in {"request", "shutdown"}
                                       /\ Head(out).kind = "shutdown" => m.kind = "result"
           /\ UNCHANGED <<responses, reader, issued>> /\ faults' \in 0..MaxFaults
<1> DEFINE frame == Head(out)
<1>1. out # <<>> /\ frame \in ToServer /\ process = "running"
  BY Taken1 DEF TransportTypeOK, Serve
<1>2. /\ OpenAfter(frame, server.open) \in SUBSET Docs
      /\ server' = [open |-> OpenAfter(frame, server.open), down |-> server.down \/ frame.kind = "shutdown"]
  <2>1. frame.kind = "didOpen" => frame.doc \in Docs
    BY <1>1 DEF ToServer
  <2> QED BY <2>1 DEF TransportTypeOK, Serve, OpenAfter
<1>3. \/ process' = "running" /\ out' = Tail(out)
      \/ process' = "gone" /\ out' = <<>>
  BY <1>1 DEF Serve, Gone
<1>4. \/ in' = in
      \/ \E m \in FromServer : /\ in' = Append(in, m) /\ m.id = frame.id
                               /\ frame.kind \in {"request", "shutdown"}
                               /\ frame.kind = "shutdown" => m.kind = "result"
  <2>1. frame.id \in Nat
    BY <1>1 DEF ToServer
  <2>2. \A kind \in Answers : [kind |-> kind, id |-> frame.id] \in FromServer
    BY <2>1 DEF FromServer
  <2> QED BY <2>2 DEF Serve, Answers
<1>5. UNCHANGED <<responses, reader, issued>> /\ faults' \in 0..MaxFaults
  BY FaultCounts DEF Serve
<1> QED BY <1>1, <1>2, <1>3, <1>4, <1>5

(* The reader moves a frame to the queue, or its exception.                *)
LEMMA ReadMoves ==
    ASSUME TransportTypeOK, Read
    PROVE  /\ UNCHANGED <<process, out, server, issued, faults>> /\ reader' \in BOOLEAN
           /\ \/ /\ in # <<>> /\ in' = Tail(in) /\ Head(in) \in FromServer
                 /\ responses' = Append(responses, Head(in))
              \/ /\ in' = in
                 /\ responses' = Append(responses, [kind |-> "raised", id |-> 0])
  BY Taken1 DEF TransportTypeOK, Read

(* clangd asks something itself, sends what does not parse, or exits.      *)
LEMMA FaultMoves ==
    ASSUME TransportTypeOK, Interject \/ Crash
    PROVE  /\ UNCHANGED <<server, responses, reader, issued>> /\ faults' \in 0..MaxFaults
           /\ \/ UNCHANGED <<process, out>>
              \/ process' = "gone" /\ out' = <<>>
           /\ \/ in' = in
              \/ \E m \in FromServer : in' = Append(in, m) /\ m.kind \notin Answers
<1>1. \A kind \in {"ask", "garbage"} : [kind |-> kind, id |-> 0] \in FromServer
  BY DEF FromServer
<1> QED BY <1>1, FaultCounts DEF Interject, Crash, Gone, Answers

(* The transport keeps its types under any move of either end.              *)
LEMMA TransportTyped ==
    ASSUME TransportTypeOK, ClientMoves \/ Environment
    PROVE  TransportTypeOK'
<1> USE DEF TransportTypeOK
<1>1. CASE ClientMoves
  <2>1. responses' \in Seq(Response)
    BY <1>1, Shortened DEF ClientMoves, Takes
  <2>2. out' \in Seq(ToServer) /\ process' \in {"running", "gone"} /\ issued' \in Nat
    <3>1. CASE Quiet
      BY <3>1 DEF Quiet
    <3>2. CASE Kills
      BY <3>2, Shortened DEF Kills
    <3>3. ASSUME NEW f \in ToServer, Sends(f)
          PROVE  out' \in Seq(ToServer) /\ process' \in {"running", "gone"} /\ issued' \in Nat
      BY <3>3, Queued1 DEF Sends
    <3> QED BY <1>1, <3>1, <3>2, <3>3 DEF ClientMoves
  <2> QED BY <1>1, <2>1, <2>2 DEF ClientMoves
<1>2. CASE Read
  <2>1. FromServer \subseteq Response /\ [kind |-> "raised", id |-> 0] \in Response
    BY DEF Response
  <2>2. in' \in Seq(FromServer)
    <3>1. in' = in \/ (in # <<>> /\ in' = Tail(in))
      BY <1>2, ReadMoves
    <3> QED BY <3>1, Shortened
  <2>3. responses' \in Seq(Response)
    <3>1. \E m \in Response : responses' = Append(responses, m)
      BY <1>2, <2>1, ReadMoves
    <3> QED BY <3>1, Lengthened
  <2> QED BY <1>2, <2>2, <2>3, ReadMoves
<1>3. CASE Serve
  <2>1. out' \in Seq(ToServer)
    <3>1. out # <<>> /\ (out' = Tail(out) \/ out' = <<>>)
      BY <1>3, ServeTakes
    <3> QED BY <3>1, Shortened
  <2>2. in' \in Seq(FromServer)
    <3>1. in' = in \/ \E m \in FromServer : in' = Append(in, m)
      BY <1>3, ServeTakes
    <3> QED BY <3>1, Lengthened
  <2>3. process' \in {"running", "gone"}
    BY <1>3, ServeTakes
  <2> QED BY <1>3, <2>1, <2>2, <2>3, ServeTakes
<1>4. CASE Interject \/ Crash
  <2>1. out' \in Seq(ToServer)
    <3>1. out' = out \/ out' = <<>>
      BY <1>4, FaultMoves
    <3> QED BY <3>1, Shortened
  <2>2. in' \in Seq(FromServer)
    <3>1. in' = in \/ \E m \in FromServer : in' = Append(in, m)
      BY <1>4, FaultMoves
    <3> QED BY <3>1, Lengthened
  <2>3. process' \in {"running", "gone"}
    BY <1>4, FaultMoves
  <2> QED BY <1>4, <2>1, <2>2, <2>3, FaultMoves
<1> QED BY <1>1, <1>2, <1>3, <1>4 DEF Environment

(* Nothing on its way bears a number that was not yet issued.               *)
LEMMA IdsKept ==
    ASSUME TransportTypeOK, IdsOK, ClientMoves \/ Environment
    PROVE  IdsOK'
<1>1. issued \in Nat
  BY DEF TransportTypeOK
<1>2. \A n, k \in Nat : n <= k => /\ Orders(n) \subseteq Orders(k)
                                  /\ Sent(n) \subseteq Sent(k) /\ Queued(n) \subseteq Queued(k)
  <2> SUFFICES ASSUME NEW n \in Nat, NEW k \in Nat, n <= k
               PROVE  /\ Orders(n) \subseteq Orders(k)
                      /\ Sent(n) \subseteq Sent(k) /\ Queued(n) \subseteq Queued(k)
    OBVIOUS
  <2>1. /\ \A f \in ToServer : f.id \in Nat
        /\ \A m \in FromServer : m.id \in Nat
        /\ \A m \in Response : m.id \in Nat
    BY DEF ToServer, FromServer, Response
  <2> QED BY <2>1 DEF Orders, Sent, Queued
<1>3. CASE ClientMoves
  <2>1. issued' \in Nat /\ issued <= issued'
    BY <1>1, <1>3 DEF ClientMoves, Quiet, Kills, Sends
  <2>2. /\ out \in Seq(Orders(issued')) /\ in \in Seq(Sent(issued')) /\ responses \in Seq(Queued(issued'))
    BY <1>1, <1>2, <2>1, Widened DEF IdsOK
  <2>3. out' \in Seq(Orders(issued'))
    <3>1. CASE Quiet \/ Kills
      <4>1. out' = out \/ out' = <<>>
        BY <3>1 DEF Quiet, Kills
      <4> QED BY <2>2, <4>1, Shortened
    <3>2. ASSUME NEW f \in ToServer, Sends(f)
          PROVE  out' \in Seq(Orders(issued'))
      <4>1. f \in Orders(issued')
        BY <1>1, <3>2 DEF Sends, Orders
      <4> QED BY <2>2, <3>2, <4>1, Queued1 DEF Sends
    <3> QED BY <1>3, <3>1, <3>2 DEF ClientMoves
  <2>4. responses' \in Seq(Queued(issued'))
    BY <1>3, <2>2, Shortened DEF ClientMoves, Takes
  <2> QED BY <1>3, <2>2, <2>3, <2>4 DEF IdsOK, ClientMoves
<1>4. CASE Read
  <2>1. [kind |-> "raised", id |-> 0] \in Queued(issued)
    BY DEF Queued, Response, Answers
  <2>2. in # <<>> => Head(in) \in Queued(issued) /\ Tail(in) \in Seq(Sent(issued))
    <3>1. Sent(issued) \subseteq Queued(issued)
      BY DEF Sent, Queued, Response
    <3> QED BY <3>1, Taken1 DEF IdsOK
  <2>3. in' \in Seq(Sent(issued))
    <3>1. in' = in \/ (in # <<>> /\ in' = Tail(in))
      BY <1>4, ReadMoves
    <3> QED BY <3>1, Shortened DEF IdsOK
  <2>4. responses' \in Seq(Queued(issued))
    <3>1. \E m \in Queued(issued) : responses' = Append(responses, m)
      BY <1>4, <2>1, <2>2, ReadMoves
    <3> QED BY <3>1, Lengthened DEF IdsOK
  <2> QED BY <1>4, <2>3, <2>4, ReadMoves DEF IdsOK
<1>5. CASE Serve
  <2>1. out # <<>> /\ Head(out) \in Orders(issued) /\ Tail(out) \in Seq(Orders(issued))
    BY <1>5, ServeTakes, Taken1 DEF IdsOK
  <2>2. out' \in Seq(Orders(issued))
    <3>1. out' = Tail(out) \/ out' = <<>>
      BY <1>5, ServeTakes
    <3> QED BY <2>1, <3>1, Shortened
  <2>3. in' \in Seq(Sent(issued))
    <3>1. ASSUME NEW m \in FromServer, m.id = Head(out).id, Head(out).kind \in {"request", "shutdown"}
          PROVE  m \in Sent(issued)
      BY <2>1, <3>1 DEF Sent, Orders
    <3>2. in' = in \/ \E m \in Sent(issued) : in' = Append(in, m)
      BY <1>5, <3>1, ServeTakes
    <3> QED BY <3>2, Queued1 DEF IdsOK
  <2> QED BY <1>5, <2>2, <2>3, ServeTakes DEF IdsOK
<1>6. CASE Interject \/ Crash
  <2>1. \A m \in FromServer : m.kind \notin Answers => m \in Sent(issued)
    BY DEF Sent
  <2>2. in' \in Seq(Sent(issued))
    <3>1. in' = in \/ \E m \in Sent(issued) : in' = Append(in, m)
      BY <1>6, <2>1, FaultMoves
    <3> QED BY <3>1, Lengthened DEF IdsOK
  <2>3. out' \in Seq(Orders(issued))
    <3>1. out' = out \/ out' = <<>>
      BY <1>6, FaultMoves
    <3> QED BY <3>1, Shortened DEF IdsOK
  <2> QED BY <1>6, <2>2, <2>3, FaultMoves DEF IdsOK
<1> QED BY <1>3, <1>4, <1>5, <1>6 DEF Environment
-----------------------------------------------------------------------------
(* The types of what the client holds.                                     *)
LEMMA GoesTyped ==
    ASSUME ClientTypeOK, NEW rest \in Seq(Task), Goes(rest),
           opened' \in SUBSET Docs, handles' \in [Symbols -> Docs \cup {None}], hierarchy' \in BOOLEAN
    PROVE  ClientTypeOK'
  BY DEF ClientTypeOK, Goes, Steps

(* An end of the call leaves the client well typed.                         *)
LEMMA EndsTyped ==
    ASSUME ClientTypeOK, Ends
    PROVE  ClientTypeOK'
<1>1. tasks' \in Seq(Task)
  BY DEF Ends
<1>2. pc' \in Steps
  BY DEF Ends, Steps
<1> QED BY <1>1, <1>2 DEF ClientTypeOK, Ends

(* So does a step to another program counter.                               *)
LEMMA StepsTyped ==
    ASSUME ClientTypeOK,
           \/ UNCHANGED <<client, worker, streams>>
           \/ /\ \E step \in Steps : Moves(step)
              /\ UNCHANGED worker \/ worker' = [pc |-> "ask", id |-> None]
              /\ UNCHANGED streams \/ streams' = "closed"
           \/ \E step \in {"wait", "exit", "reap", "done"}, id \in Nat \cup {None} : WorkerAt(step, id)
    PROVE  ClientTypeOK'
<1>1. /\ UNCHANGED <<tasks, waiting, opened, handles, hierarchy, calls>> /\ pc' \in Steps
  BY DEF ClientTypeOK, Moves, WorkerAt, client
<1>2. worker' \in [pc : {"none", "ask", "wait", "exit", "reap", "done"}, id : Nat \cup {None}]
  BY DEF ClientTypeOK, Moves, WorkerAt, client
<1>3. streams' \in {"open", "closed"}
  BY DEF ClientTypeOK, Moves, WorkerAt, client
<1> QED BY <1>1, <1>2, <1>3 DEF ClientTypeOK

(* So does the start of a query.                                            *)
LEMMA QueryTyped ==
    ASSUME ClientTypeOK, Observe \/ Relate
    PROVE  ClientTypeOK'
<1>1. ASSUME NEW list \in Seq(Task), Query(list)
      PROVE  ClientTypeOK'
  <2>1. calls' \in 0..MaxCalls
    BY <1>1, ProviderBounds DEF Query, ClientTypeOK
  <2>2. pc' \in Steps
    BY <1>1 DEF Query, Steps
  <2> QED BY <1>1, <2>1, <2>2 DEF Query, ClientTypeOK
<1>2. CASE Observe
  <2>1. PICK files \in Ordered :
           Query(IF Len(files) > MaxOpenDocuments
                   THEN Each(files, <<"open", "documentSymbol">>)
                          \o Each(files, <<"open", "documentSymbol", "collect">>)
                   ELSE Each(files, <<"open">>) \o Each(files, <<"documentSymbol">>)
                          \o Each(files, <<"collect">>))
    BY <1>2 DEF Observe
  <2>2. /\ Each(files, <<"open", "documentSymbol">>) \in Seq(Task)
        /\ Each(files, <<"open", "documentSymbol", "collect">>) \in Seq(Task)
        /\ Each(files, <<"open">>) \in Seq(Task)
        /\ Each(files, <<"documentSymbol">>) \in Seq(Task)
        /\ Each(files, <<"collect">>) \in Seq(Task)
    <3>1. /\ <<"open", "documentSymbol">> \in Seq(Methods \cup {"open", "collect"})
          /\ <<"open", "documentSymbol", "collect">> \in Seq(Methods \cup {"open", "collect"})
          /\ <<"open">> \in Seq(Methods \cup {"open", "collect"})
          /\ <<"documentSymbol">> \in Seq(Methods \cup {"open", "collect"})
          /\ <<"collect">> \in Seq(Methods \cup {"open", "collect"})
      BY DEF Methods
    <3>2. /\ Len(<<"open", "documentSymbol">>) = 2 /\ Len(<<"open", "documentSymbol", "collect">>) = 3
          /\ Len(<<"open">>) = 1 /\ Len(<<"documentSymbol">>) = 1 /\ Len(<<"collect">>) = 1
      OBVIOUS
    <3> QED BY <3>1, <3>2, EachTyped
  <2>3. /\ Each(files, <<"open", "documentSymbol">>)
             \o Each(files, <<"open", "documentSymbol", "collect">>) \in Seq(Task)
        /\ Each(files, <<"open">>) \o Each(files, <<"documentSymbol">>)
             \o Each(files, <<"collect">>) \in Seq(Task)
    BY <2>2, ConcatProperties
  <2> QED BY <1>1, <2>1, <2>3
<1>3. CASE Relate
  <2>1. <<>> \in Seq(Task)
    OBVIOUS
  <2>2. PICK s \in Symbols :
          \/ handles[s] = None /\ Query(<<>>)
          \/ handles[s] # None /\ Query(<<T("references", handles[s], s)>>)
          \/ handles[s] # None /\ Query(IF hierarchy THEN <<T("prepareCallHierarchy", handles[s], s)>>
                                                     ELSE <<>>)
    BY <1>3 DEF Relate
  <2>3. handles[s] \in Docs \cup {None}
    BY DEF ClientTypeOK
  <2>4. T("references", handles[s], s) \in Task /\ T("prepareCallHierarchy", handles[s], s) \in Task
    BY <2>3, TaskTypes DEF Methods
  <2>5. <<T("references", handles[s], s)>> \in Seq(Task) /\ <<T("prepareCallHierarchy", handles[s], s)>> \in Seq(Task)
    BY <2>4
  <2> QED BY <1>1, <2>1, <2>2, <2>5
<1> QED BY <1>2, <1>3
(* Every step keeps the types of the client's own state.                    *)
LEMMA ClientTyped ==
    ASSUME ProviderTypeOK, ControlOK, [Next]_vars
    PROVE  ClientTypeOK'
<1> USE DEF ProviderTypeOK
<1>1. pc \in Asking => Next1 \in Task /\ Tail(tasks) \in Seq(Task)
  BY NextTask
<1>2. /\ opened \in SUBSET Docs /\ handles \in [Symbols -> Docs \cup {None}] /\ hierarchy \in BOOLEAN
      /\ issued \in Nat
  BY DEF ClientTypeOK, TransportTypeOK
<1>3. CASE Observe \/ Relate
  BY <1>3, QueryTyped
<1>4. CASE OpenMissing \/ WriteFails \/ AskFails \/ TimesOut
  BY <1>4, EndsTyped DEF OpenMissing, WriteFails, AskFails, TimesOut
<1>5. CASE SkipOther \/ Environment \/ WorkerSkips \/ UNCHANGED vars
  BY <1>5, StepsTyped DEF SkipOther, Environment, WorkerSkips, vars
<1>6. CASE Close \/ CloseAgain \/ Join \/ Terminate \/ TerminateFails \/ Rejoin \/ Release
  BY <1>6, StepsTyped DEF Close, CloseAgain, Join, Terminate, TerminateFails, Rejoin, Release, Steps
<1>7. CASE AbortStart \/ Interrupt
  <2>1. tasks' = <<>> \/ tasks' = tasks
    BY <1>7 DEF AbortStart, Interrupt
  <2>2. tasks' \in Seq(Task)
    BY <2>1, Shortened DEF ClientTypeOK
  <2>3. pc' \in Steps /\ waiting' \in Nat \cup {None} /\ streams' \in {"open", "closed"}
    BY <1>7 DEF AbortStart, Interrupt, Steps, ClientTypeOK
  <2> QED BY <1>7, <2>2, <2>3 DEF AbortStart, Interrupt, ClientTypeOK
<1>8. CASE Worker
  <2>1. CASE WorkerAsks
    <3>1. WorkerAt("wait", issued + 1) \/ WorkerAt("done", None)
      BY <2>1 DEF WorkerAsks
    <3>2. issued + 1 \in Nat
      BY <1>2
    <3> QED BY <3>1, <3>2, StepsTyped
  <2>2. CASE WorkerWaits \/ WorkerExits \/ WorkerReaps
    BY <2>2, StepsTyped DEF WorkerWaits, WorkerExits, WorkerReaps
  <2> QED BY <1>5, <1>8, <2>1, <2>2 DEF Worker
<1>9. CASE OpenAlready \/ Open
  <2>1. Next1 \in Task /\ Tail(tasks) \in Seq(Task) /\ Next1.doc \in Docs
    BY <1>1, <1>9, TaskTypes DEF OpenAlready, Open, Doing
  <2>2. Goes(Tail(tasks)) /\ UNCHANGED <<handles, hierarchy>>
    BY <1>9 DEF OpenAlready, Open
  <2>3. opened' \in SUBSET Docs
    BY <1>2, <1>9, <2>1 DEF OpenAlready, Open
  <2> QED BY <1>2, <2>1, <2>2, <2>3, GoesTyped
<1>10. CASE Evict
  BY <1>10 DEF Evict, ClientTypeOK
<1>11. CASE Reopen
  <2>1. Next1.doc \in Docs
    BY <1>1, <1>11, TaskTypes DEF Reopen
  <2>2. <<T("open", Next1.doc, None)>> \in Seq(Task)
    BY <2>1, TaskTypes
  <2>3. tasks' \in Seq(Task)
    BY <1>11, <2>2, ConcatProperties DEF Reopen, ClientTypeOK
  <2> QED BY <1>11, <2>3 DEF Reopen, ClientTypeOK
<1>12. CASE Ask
  BY <1>2, <1>12 DEF Ask, ClientTypeOK
<1>13. CASE Initialized
  <2>1. <<>> \in Seq(Task)
    OBVIOUS
  <2> QED BY <1>2, <1>13, <2>1, GoesTyped DEF Initialized
<1>14. CASE Answered
  <2>1. CASE \E more \in AfterResult(Next1) : Goes(more \o Tail(tasks)) /\ UNCHANGED <<opened, handles, hierarchy>>
    <3>1. PICK more \in AfterResult(Next1) : Goes(more \o Tail(tasks))
      BY <2>1
    <3>2. Next1 \in Task /\ Tail(tasks) \in Seq(Task)
      BY <1>1, <1>14 DEF Answered
    <3>3. Next1.doc \in Docs \cup {None} /\ Next1.sym \in Symbols \cup {None}
      BY <3>2, TaskTypes
    <3>4. more = <<>> \/ \E t \in Task : more = <<t>>
      <4>1. T("calls", Next1.doc, Next1.sym) \in Task
        BY <3>3, TaskTypes DEF Methods
      <4>2. \A d \in Docs, s \in Symbols : T("relate", d, s) \in Task
        BY TaskTypes
      <4> QED BY <4>1, <4>2 DEF AfterResult
    <3>5. more \in Seq(Task)
      <4>1. CASE more = <<>>
        BY <4>1
      <4>2. CASE \E t \in Task : more = <<t>>
        BY <4>2
      <4> QED BY <3>4, <4>1, <4>2
    <3>6. more \o Tail(tasks) \in Seq(Task)
      BY <3>2, <3>5, ConcatProperties
    <3> QED BY <1>2, <2>1, <3>1, <3>6, GoesTyped
  <2>2. CASE Goes(Tail(tasks)) /\ UNCHANGED <<opened, handles, hierarchy>>
    BY <1>1, <1>2, <1>14, <2>2, GoesTyped DEF Answered
  <2>3. CASE Goes(<<>>) /\ hierarchy' = FALSE /\ UNCHANGED <<opened, handles>>
    <3>1. <<>> \in Seq(Task)
      OBVIOUS
    <3> QED BY <1>2, <2>3, <3>1, GoesTyped
  <2>4. CASE Ends
    BY <2>4, EndsTyped
  <2> QED BY <1>14, <2>1, <2>2, <2>3, <2>4 DEF Answered
<1>15. CASE Collect
  <2>1. Next1 \in Task /\ Tail(tasks) \in Seq(Task) /\ Next1.doc \in Docs
    BY <1>1, <1>15, TaskTypes DEF Collect, Doing
  <2>2. SymbolsOf[Next1.doc] \in Seq(Symbols)
    BY <2>1, ProviderBounds
  <2> DEFINE found == SymbolsOf[Next1.doc]
             each  == [i \in DOMAIN found |-> T("identify", Next1.doc, found[i])]
  <2>3. each \in Seq(Task)
    <3>1. \A i \in 1..Len(found) : T("identify", Next1.doc, found[i]) \in Task
      BY <2>1, <2>2, TaskTypes
    <3>2. Len(found) \in Nat /\ each = [i \in 1..Len(found) |-> T("identify", Next1.doc, found[i])]
      BY <2>2
    <3> HIDE DEF each
    <3> QED BY <3>1, <3>2
  <2>4. each \o Tail(tasks) \in Seq(Task)
    <3> HIDE DEF each
    <3> QED BY <2>1, <2>3, ConcatProperties
  <2> QED BY <1>2, <1>15, <2>4, GoesTyped DEF Collect
<1>16. CASE RelateItem \/ Identify
  <2>1. Next1 \in Task /\ Tail(tasks) \in Seq(Task) /\ Next1.doc \in Docs /\ Next1.sym \in Symbols
    BY <1>1, <1>16, TaskTypes DEF RelateItem, Identify, Doing
  <2>2. CASE RelateItem
    <3>1. <<T("open", Next1.doc, None), T("identify", Next1.doc, Next1.sym)>> \in Seq(Task)
      BY <2>1, TaskTypes
    <3>2. <<T("open", Next1.doc, None), T("identify", Next1.doc, Next1.sym)>> \o Tail(tasks) \in Seq(Task)
      BY <2>1, <3>1, ConcatProperties
    <3> QED BY <1>2, <2>2, <3>2, GoesTyped DEF RelateItem
  <2>3. CASE Identify
    <3>1. PICK more \in {<<>>, <<"declaration">>, <<"definition">>, <<"declaration", "definition">>} :
             Goes(<<T("symbolInfo", Next1.doc, Next1.sym)>>
                    \o [i \in DOMAIN more |-> T(more[i], Next1.doc, Next1.sym)]
                    \o <<T("handle", Next1.doc, Next1.sym)>> \o Tail(tasks))
      BY <2>3 DEF Identify
    <3> DEFINE asks == [i \in DOMAIN more |-> T(more[i], Next1.doc, Next1.sym)]
    <3>2. more \in Seq({"declaration", "definition"})
      <4>1. <<>> \in Seq({"declaration", "definition"}) /\ <<"declaration">> \in Seq({"declaration", "definition"})
        OBVIOUS
      <4>2. /\ <<"definition">> \in Seq({"declaration", "definition"})
            /\ <<"declaration", "definition">> \in Seq({"declaration", "definition"})
        OBVIOUS
      <4> QED BY <4>1, <4>2
    <3>3. asks \in Seq(Task)
      <4>1. \A i \in 1..Len(more) : T(more[i], Next1.doc, Next1.sym) \in Task
        BY <2>1, <3>2, TaskTypes DEF Methods
      <4>2. Len(more) \in Nat /\ asks = [i \in 1..Len(more) |-> T(more[i], Next1.doc, Next1.sym)]
        BY <3>2
      <4> HIDE DEF asks
      <4> QED BY <4>1, <4>2
    <3>4. <<T("symbolInfo", Next1.doc, Next1.sym)>> \in Seq(Task) /\ <<T("handle", Next1.doc, Next1.sym)>> \in Seq(Task)
      BY <2>1, TaskTypes DEF Methods
    <3>5. <<T("symbolInfo", Next1.doc, Next1.sym)>> \o asks \o <<T("handle", Next1.doc, Next1.sym)>>
             \o Tail(tasks) \in Seq(Task)
      <4> HIDE DEF asks
      <4> QED BY <2>1, <3>3, <3>4, ConcatProperties
    <3> QED BY <1>2, <2>3, <3>1, <3>5, GoesTyped DEF Identify
  <2> QED BY <1>16, <2>2, <2>3
<1>17. CASE Handle
  <2>1. Next1 \in Task /\ Tail(tasks) \in Seq(Task) /\ Next1.doc \in Docs
    BY <1>1, <1>17, TaskTypes DEF Handle, Doing
  <2>2. handles' \in [Symbols -> Docs \cup {None}]
    BY <1>2, <1>17, <2>1 DEF Handle
  <2> QED BY <1>2, <1>17, <2>1, <2>2, GoesTyped DEF Handle
<1> QED BY <1>3, <1>4, <1>5, <1>6, <1>7, <1>8, <1>9, <1>10, <1>11, <1>12, <1>13, <1>14, <1>15, <1>16, <1>17
       DEF Next, Main
-----------------------------------------------------------------------------
(* Control.                                                                *)
LEMMA ProcessEnds ==
    ASSUME TransportTypeOK, process = "gone" => out = <<>>, ClientMoves \/ Environment
    PROVE  (process = "gone" => process' = "gone") /\ (process' = "gone" => out' = <<>>)
<1>1. CASE ClientMoves
  BY <1>1 DEF ClientMoves, Quiet, Kills, Sends
<1>2. CASE Read
  BY <1>2, ReadMoves
<1>3. CASE Serve
  BY <1>3, ServeTakes
<1>4. CASE Interject \/ Crash
  BY <1>4, FaultMoves
<1> QED BY <1>1, <1>2, <1>3, <1>4 DEF Environment

(* Every step keeps what the program counters say of the locals.            *)
LEMMA ControlKept ==
    ASSUME ProviderTypeOK, ControlOK, [Next]_vars
    PROVE  ControlOK'
<1>1. (process = "gone" => process' = "gone") /\ (process' = "gone" => out' = <<>>)
  BY StepsSplit, ProcessEnds DEF ProviderTypeOK, ControlOK
<1>2. UNCHANGED <<pc, tasks, worker, streams>> => ControlOK'
  BY <1>1 DEF ControlOK
<1>3. /\ UNCHANGED <<worker, streams>>
      /\ \/ /\ pc \in Asking
            /\ \/ pc' \in {"abort", "idle", "left"}
               \/ pc' = pc /\ tasks' # <<>>
         \/ /\ pc = "idle"
            /\ pc' = "idle" \/ (pc' = "query" /\ tasks' # <<>>)
      => ControlOK'
  BY <1>1 DEF ControlOK, Asking
<1>4. CASE Observe \/ Relate
  BY <1>3, <1>4 DEF Observe, Relate, Query
<1>5. CASE OpenMissing \/ WriteFails \/ AskFails \/ TimesOut \/ Interrupt
  BY <1>3, <1>5 DEF OpenMissing, WriteFails, AskFails, TimesOut, Interrupt, Ends, Doing, Writing
<1>6. CASE SkipOther \/ Evict \/ Ask \/ Environment \/ WorkerSkips \/ UNCHANGED vars
  BY <1>2, <1>6 DEF SkipOther, Evict, Ask, Environment, WorkerSkips, client, vars
<1>7. ASSUME NEW rest, Goes(rest), pc \in Asking
      PROVE  ControlOK'
  BY <1>3, <1>7 DEF Goes
<1>8. CASE OpenAlready \/ Open \/ Initialized \/ Collect \/ RelateItem \/ Identify \/ Handle
  BY <1>7, <1>8 DEF OpenAlready, Open, Initialized, Collect, RelateItem, Identify, Handle, Doing
<1>9. CASE Answered
  <2>1. pc \in Asking /\ (Ends \/ \E rest : Goes(rest))
    BY <1>9 DEF Answered
  <2> QED BY <1>3, <1>7, <2>1 DEF Ends
<1>10. CASE Reopen
  <2>1. tasks \in Seq(Task) /\ tasks # <<>> /\ pc \in Asking
    BY <1>10 DEF Reopen, ControlOK, ProviderTypeOK, ClientTypeOK
  <2>2. tasks' # <<>>
    <3>1. tasks' = <<T("open", Next1.doc, None)>> \o tasks
      BY <1>10 DEF Reopen
    <3>2. Len(tasks') = 1 + Len(tasks) /\ Len(tasks) \in Nat
      BY <2>1, <3>1
    <3> QED BY <3>2
  <2> QED BY <1>3, <1>10, <2>1, <2>2 DEF Reopen
<1>11. CASE AbortStart \/ Terminate
  BY <1>1, <1>11 DEF AbortStart, Terminate, Gone, Moves, ControlOK, Asking
<1>12. CASE Close \/ CloseAgain \/ Join \/ TerminateFails
  BY <1>1, <1>12 DEF Close, CloseAgain, Join, TerminateFails, Moves, ControlOK, Asking
<1>13. CASE Rejoin \/ Release
  BY <1>1, <1>13 DEF Rejoin, Release, Moves, ControlOK, Asking
<1>14. CASE Worker
  <2>1. CASE WorkerAsks \/ WorkerWaits \/ WorkerExits \/ WorkerReaps
    <3>1. /\ worker.pc \notin {"none", "done"} /\ UNCHANGED <<pc, tasks, streams>>
      BY <2>1 DEF WorkerAsks, WorkerWaits, WorkerExits, WorkerReaps, WorkerAt, client
    <3> QED BY <1>1, <3>1 DEF ControlOK
  <2> QED BY <1>6, <1>14, <2>1 DEF Worker
<1> QED BY <1>4, <1>5, <1>6, <1>8, <1>9, <1>10, <1>11, <1>12, <1>13, <1>14 DEF Next, Main
-----------------------------------------------------------------------------
(* The shutdown worker.                                                    *)

(* As long as the worker waits, nothing comes to bear its id.              *)
LEMMA OthersStay ==
    ASSUME TransportTypeOK, NEW id \in Nat, id <= issued, ClientMoves \/ Environment,
           out \in Seq(OrdersOfOthers(id)),
           ~server.down => in \in Seq(SentToOthers(id)) /\ responses \in Seq(QueuedForOthers(id))
    PROVE  /\ id <= issued' /\ out' \in Seq(OrdersOfOthers(id))
           /\ ~server'.down => in' \in Seq(SentToOthers(id)) /\ responses' \in Seq(QueuedForOthers(id))
<1>1. issued \in Nat
  BY DEF TransportTypeOK
<1>2. CASE ClientMoves
  <2>1. id <= issued'
    BY <1>1, <1>2 DEF ClientMoves, Quiet, Kills, Sends
  <2>2. out' \in Seq(OrdersOfOthers(id))
    <3>1. CASE Quiet \/ Kills
      <4>1. out' = out \/ out' = <<>>
        BY <3>1 DEF Quiet, Kills
      <4> QED BY <4>1, Shortened
    <3>2. ASSUME NEW f \in ToServer, Sends(f)
          PROVE  out' \in Seq(OrdersOfOthers(id))
      <4>1. f \in OrdersOfOthers(id)
        BY <1>1, <3>2 DEF Sends, OrdersOfOthers
      <4> QED BY <3>2, <4>1, Queued1 DEF Sends
    <3> QED BY <1>2, <3>1, <3>2 DEF ClientMoves
  <2>3. responses \in Seq(QueuedForOthers(id)) => responses' \in Seq(QueuedForOthers(id))
    BY <1>2, Shortened DEF ClientMoves, Takes
  <2> QED BY <1>2, <2>1, <2>2, <2>3 DEF ClientMoves
<1>3. CASE Read
  <2>1. ASSUME ~server'.down
        PROVE  in' \in Seq(SentToOthers(id)) /\ responses' \in Seq(QueuedForOthers(id))
    <3>1. in \in Seq(SentToOthers(id)) /\ responses \in Seq(QueuedForOthers(id))
      BY <1>3, <2>1, ReadMoves
    <3>2. [kind |-> "raised", id |-> 0] \in QueuedForOthers(id)
      BY DEF QueuedForOthers, Response, Answers
    <3>3. SentToOthers(id) \subseteq QueuedForOthers(id)
      BY DEF SentToOthers, QueuedForOthers, Response
    <3>4. in # <<>> => Head(in) \in QueuedForOthers(id)
      BY <3>1, <3>3, Taken1
    <3>5. in' = in \/ (in # <<>> /\ in' = Tail(in))
      BY <1>3, ReadMoves
    <3>6. \E m \in QueuedForOthers(id) : responses' = Append(responses, m)
      BY <1>3, <3>2, <3>4, ReadMoves
    <3>7. in' \in Seq(SentToOthers(id))
      BY <3>1, <3>5, Shortened
    <3>8. responses' \in Seq(QueuedForOthers(id))
      BY <3>1, <3>6, Lengthened
    <3> QED BY <3>7, <3>8
  <2> QED BY <1>3, <2>1, ReadMoves
<1>4. CASE Serve
  <2>1. out # <<>> /\ Head(out) \in OrdersOfOthers(id)
    BY <1>4, ServeTakes, Taken1
  <2>2. out' \in Seq(OrdersOfOthers(id))
    <3>1. out' = Tail(out) \/ out' = <<>>
      BY <1>4, ServeTakes
    <3> QED BY <2>1, <3>1, Shortened
  <2>3. ASSUME ~server'.down
        PROVE  in' \in Seq(SentToOthers(id)) /\ responses' \in Seq(QueuedForOthers(id))
    <3>1. ~server.down /\ Head(out).kind # "shutdown" /\ responses' = responses
      BY <1>4, <2>3, ServeTakes
    <3>2. ASSUME NEW m \in FromServer, m.id = Head(out).id, Head(out).kind \in {"request", "shutdown"}
          PROVE  m \in SentToOthers(id)
      BY <2>1, <3>1, <3>2 DEF OrdersOfOthers, SentToOthers
    <3>3. in' = in \/ \E m \in SentToOthers(id) : in' = Append(in, m)
      BY <1>4, <3>2, ServeTakes
    <3>4. in' \in Seq(SentToOthers(id))
      BY <3>1, <3>3, Lengthened
    <3> QED BY <3>1, <3>4
  <2> QED BY <1>4, <2>2, <2>3, ServeTakes
<1>5. CASE Interject \/ Crash
  <2>1. out' \in Seq(OrdersOfOthers(id))
    <3>1. out' = out \/ out' = <<>>
      BY <1>5, FaultMoves
    <3> QED BY <3>1, Shortened
  <2>2. in \in Seq(SentToOthers(id)) => in' \in Seq(SentToOthers(id))
    <3>1. \A m \in FromServer : m.kind \notin Answers => m \in SentToOthers(id)
      BY DEF SentToOthers
    <3>2. in' = in \/ \E m \in SentToOthers(id) : in' = Append(in, m)
      BY <1>5, <3>1, FaultMoves
    <3> QED BY <3>2, Lengthened
  <2> QED BY <1>5, <2>1, <2>2, FaultMoves
<1> QED BY <1>2, <1>3, <1>4, <1>5 DEF Environment

(* clangd, told to shut down, stays so.                                     *)
LEMMA DownStays ==
    ASSUME TransportTypeOK, ClientMoves \/ Environment
    PROVE  server.down => server'.down
<1>1. CASE ClientMoves
  BY <1>1 DEF ClientMoves
<1>2. CASE Read
  BY <1>2, ReadMoves
<1>3. CASE Serve
  BY <1>3, ServeTakes
<1>4. CASE Interject \/ Crash
  BY <1>4, FaultMoves
<1> QED BY <1>1, <1>2, <1>3, <1>4 DEF Environment

(* Every step keeps what an answered shutdown request means.                *)
LEMMA ShutdownKept ==
    ASSUME ProviderTypeOK, ControlOK, IdsOK, ShutdownOK, [Next]_vars
    PROVE  ShutdownOK'
<1> USE DEF ProviderTypeOK
<1>1. ClientMoves \/ Environment
  BY StepsSplit
<1>2. server.down => server'.down
  BY <1>1, DownStays
<1>3. issued \in Nat
  BY DEF TransportTypeOK
<1>4. CASE UNCHANGED worker
  <2>1. CASE worker.pc = "wait"
    BY <1>1, <1>4, <2>1, OthersStay DEF ShutdownOK
  <2>2. CASE worker.pc # "wait"
    BY <1>2, <1>4, <2>2 DEF ShutdownOK
  <2> QED BY <2>1, <2>2
<1>5. CASE worker'.pc \notin {"wait", "exit", "reap"}
  BY <1>5 DEF ShutdownOK
<1>6. CASE WorkerAsks
  <2>1. CASE /\ Written(Frame("shutdown", issued + 1, None)) /\ issued' = issued + 1
             /\ WorkerAt("wait", issued + 1)
             /\ UNCHANGED <<process, in, server, responses, reader, faults>>
    <3> DEFINE id == issued + 1
    <3>1. /\ \A f \in ToServer : f.id \in Nat
          /\ \A m \in FromServer : m.id \in Nat
          /\ \A m \in Response : m.id \in Nat
      BY DEF ToServer, FromServer, Response
    <3>2. Orders(issued) \subseteq OrdersOfOthers(id)
      BY <1>3, <3>1 DEF Orders, OrdersOfOthers
    <3>3. Sent(issued) \subseteq SentToOthers(id) /\ Queued(issued) \subseteq QueuedForOthers(id)
      BY <1>3, <3>1 DEF Sent, SentToOthers, Queued, QueuedForOthers
    <3>4. Frame("shutdown", id, None) \in OrdersOfOthers(id)
      BY <1>3 DEF Frame, OrdersOfOthers, ToServer
    <3>5. out' \in Seq(OrdersOfOthers(id))
      <4>1. out \in Seq(OrdersOfOthers(id))
        BY <3>2, Widened DEF IdsOK
      <4> QED BY <2>1, <3>4, <4>1, Queued1 DEF Written
    <3>6. in' \in Seq(SentToOthers(id)) /\ responses' \in Seq(QueuedForOthers(id))
      <4>1. in \in Seq(SentToOthers(id)) /\ responses \in Seq(QueuedForOthers(id))
        BY <3>3, Widened DEF IdsOK
      <4> QED BY <2>1, <4>1
    <3>7. worker'.pc = "wait" /\ worker'.id = id /\ issued' = id /\ id \in Nat /\ id <= id
      BY <1>3, <2>1 DEF WorkerAt
    <3> HIDE DEF id
    <3> QED BY <3>5, <3>6, <3>7 DEF ShutdownOK
  <2>2. CASE WorkerAt("done", None)
    BY <1>5, <2>2 DEF WorkerAt
  <2> QED BY <1>6, <2>1, <2>2 DEF WorkerAsks
<1>7. CASE WorkerWaits
  <2>1. CASE Answers1(worker.id) /\ WorkerAt("exit", None)
    <3>1. worker.pc = "wait" /\ responses # <<>>
      BY <1>7, <2>1 DEF WorkerWaits, Answers1, Received
    <3>2. server.down
      <4>1. SUFFICES ASSUME ~server.down PROVE FALSE
        OBVIOUS
      <4>2. responses \in Seq(QueuedForOthers(worker.id))
        BY <3>1, <4>1 DEF ShutdownOK
      <4>3. Head(responses) \in QueuedForOthers(worker.id)
        BY <3>1, <4>2, Taken1
      <4> QED BY <2>1, <4>3 DEF Answers1, Response1, QueuedForOthers
    <3>3. worker'.pc = "exit"
      BY <2>1 DEF WorkerAt
    <3> QED BY <1>2, <3>2, <3>3 DEF ShutdownOK
  <2>2. CASE WorkerAt("done", None)
    BY <1>5, <2>2 DEF WorkerAt
  <2> QED BY <1>7, <2>1, <2>2 DEF WorkerWaits
<1>8. CASE WorkerExits
  <2>1. server.down /\ (worker'.pc = "reap" \/ worker'.pc = "done")
    BY <1>8 DEF WorkerExits, WorkerAt, ShutdownOK
  <2> QED BY <1>2, <2>1 DEF ShutdownOK
<1>9. CASE WorkerReaps
  BY <1>5, <1>9 DEF WorkerReaps, WorkerAt
<1>10. CASE Close
  BY <1>5, <1>10 DEF Close
<1>11. CASE WorkerSkips \/ Observe \/ Relate \/ CloseAgain \/ Environment \/ OpenMissing \/ Interrupt
            \/ TerminateFails \/ UNCHANGED vars
  BY <1>4, <1>11 DEF WorkerSkips, Observe, Relate, Query, CloseAgain, Environment, OpenMissing, Ends,
                     Interrupt, TerminateFails, vars
<1>12. CASE Main
  <2>1. CASE OpenAlready \/ Evict \/ Open \/ Reopen \/ Ask \/ Initialized \/ WriteFails \/ SkipOther
    BY <1>4, <2>1 DEF OpenAlready, Evict, Open, Reopen, Ask, Initialized, WriteFails, SkipOther, Goes, Ends
  <2>2. CASE AskFails \/ TimesOut \/ Answered \/ Collect \/ RelateItem \/ Identify \/ Handle
    BY <1>4, <2>2 DEF AskFails, TimesOut, Answered, Collect, RelateItem, Identify, Handle, Goes, Ends
  <2>3. CASE AbortStart \/ Join \/ Terminate \/ Rejoin \/ Release
    BY <1>4, <2>3 DEF AbortStart, Join, Terminate, Rejoin, Release
  <2> QED BY <1>12, <2>1, <2>2, <2>3 DEF Main
<1> QED BY <1>6, <1>7, <1>8, <1>9, <1>10, <1>11, <1>12 DEF Next, Worker
-----------------------------------------------------------------------------
(* Documents.                                                              *)

(* A frame opens and closes documents only.                                 *)
LEMMA OpenAfterTyped ==
    ASSUME NEW f \in ToServer, NEW open \in SUBSET Docs
    PROVE  OpenAfter(f, open) \in SUBSET Docs
<1>1. f.kind \in {"didOpen", "didClose"} => f.doc \in Docs
  BY DEF ToServer
<1> QED BY <1>1 DEF OpenAfter

(* Nothing moves.                                                          *)
LEMMA LeadsStill ==
    ASSUME DocumentsOK, UNCHANGED <<out, server>>,
           Tracking' => Tracking /\ opened' = opened
    PROVE  DocumentsOK'
<1>1. PICK h \in [0..Len(out) -> SUBSET Docs] : Leads(h)
  BY DEF DocumentsOK
<1>2. Leads(h)'
  BY <1>1 DEF Leads
<1> QED BY <1>1, <1>2 DEF DocumentsOK

(* The process ends, and no frame is left.                                 *)
LEMMA LeadsNowhere ==
    ASSUME process' = "gone", out' = <<>>, server'.open \in SUBSET Docs,
           Cardinality(server'.open) <= MaxOpenDocuments
    PROVE  DocumentsOK'
<1>1. Len(out') = 0
  OBVIOUS
<1>4. PICK h : h = [i \in 0..0 |-> server'.open]
  OBVIOUS
<1>2. h \in [0..Len(out') -> SUBSET Docs] /\ h[0] = server'.open
  BY <1>1, <1>4
<1>3. ~Tracking'
  BY DEF Tracking
<1>5. \A i \in 0..Len(out') : Cardinality(h[i]) <= MaxOpenDocuments
  BY <1>1, <1>2
<1>6. \A i \in 1..Len(out') : FALSE
  BY <1>1
<1>7. \A i \in 1..Len(out') : Finds(out'[i], h[i - 1]) /\ h[i] = OpenAfter(out'[i], h[i - 1])
  BY <1>6
<1>8. Leads(h)'
  BY <1>2, <1>3, <1>5, <1>7, Zenon DEF Leads
<1> QED BY <1>2, <1>8, Zenon DEF DocumentsOK

(* A frame more.                                                           *)
LEMMA LeadsFurther ==
    ASSUME TransportTypeOK, DocumentsOK,
           NEW f \in ToServer, out' = Append(out, f), UNCHANGED server,
           \A last \in SUBSET Docs :
              Cardinality(last) <= MaxOpenDocuments /\ (Tracking => last = opened)
              => /\ Finds(f, last) /\ Cardinality(OpenAfter(f, last)) <= MaxOpenDocuments
                 /\ Tracking' => OpenAfter(f, last) = opened'
    PROVE  DocumentsOK'
<1>1. PICK h \in [0..Len(out) -> SUBSET Docs] : Leads(h)
  BY DEF DocumentsOK
<1> DEFINE n == Len(out)
           last == h[n]
<1>2. n \in Nat /\ Len(out') = n + 1
  BY DEF TransportTypeOK
<1>3. /\ last \in SUBSET Docs /\ Finds(f, last) /\ OpenAfter(f, last) \in SUBSET Docs
      /\ Cardinality(OpenAfter(f, last)) <= MaxOpenDocuments
      /\ Tracking' => OpenAfter(f, last) = opened'
  <2>1. last \in SUBSET Docs /\ Cardinality(last) <= MaxOpenDocuments /\ (Tracking => last = opened)
    BY <1>1, <1>2 DEF Leads
  <2> HIDE DEF last
  <2> QED BY <2>1, OpenAfterTyped
<1>4. PICK k \in [0..(n + 1) -> SUBSET Docs] :
         k[n + 1] = OpenAfter(f, last) /\ \A i \in 0..n : k[i] = h[i]
  <2> DEFINE K == [i \in 0..(n + 1) |-> IF i = n + 1 THEN OpenAfter(f, last) ELSE h[i]]
  <2>1. K \in [0..(n + 1) -> SUBSET Docs] /\ K[n + 1] = OpenAfter(f, last)
        /\ \A i \in 0..n : K[i] = h[i]
    BY <1>1, <1>2, <1>3
  <2> QED BY <2>1
<1>5. /\ out'[n + 1] = f
      /\ \A i \in 1..n : out'[i] = out[i]
  BY <1>2 DEF TransportTypeOK
<1>6. \A i \in 0..Len(out') : Cardinality(k[i]) <= MaxOpenDocuments
  BY <1>1, <1>2, <1>3, <1>4 DEF Leads
<1>7. \A i \in 1..Len(out') : Finds(out'[i], k[i - 1]) /\ k[i] = OpenAfter(out'[i], k[i - 1])
  <2> SUFFICES ASSUME NEW i \in 1..(n + 1)
               PROVE  Finds(out'[i], k[i - 1]) /\ k[i] = OpenAfter(out'[i], k[i - 1])
    BY <1>2
  <2>1. CASE i = n + 1
    BY <1>2, <1>3, <1>4, <1>5, <2>1
  <2>2. CASE i # n + 1
    <3>1. i \in 1..n /\ i \in 0..n /\ i - 1 \in 0..n
      BY <1>2, <2>2
    <3>2. k[i - 1] = h[i - 1] /\ k[i] = h[i] /\ out'[i] = out[i]
      BY <1>4, <1>5, <3>1
    <3> QED BY <1>1, <3>1, <3>2 DEF Leads
  <2> QED BY <2>1, <2>2
<1>8. k[0] = server'.open
  BY <1>1, <1>2, <1>4 DEF Leads
<1>9. k \in [0..Len(out') -> SUBSET Docs] /\ (Tracking' => k[Len(out')] = opened')
  BY <1>2, <1>3, <1>4
<1>10. Leads(k)'
  BY <1>6, <1>7, <1>8, <1>9, Zenon DEF Leads
<1> QED BY <1>9, <1>10, Zenon DEF DocumentsOK

(* A frame less: clangd takes the first.                                   *)
LEMMA LeadsFrom ==
    ASSUME TransportTypeOK, DocumentsOK, out # <<>>, out' = Tail(out),
           server'.open = OpenAfter(Head(out), server.open),
           Tracking' => Tracking /\ opened' = opened
    PROVE  DocumentsOK'
<1>1. PICK h \in [0..Len(out) -> SUBSET Docs] : Leads(h)
  BY DEF DocumentsOK
<1> DEFINE n == Len(out)
<1>2. n \in Nat /\ n > 0 /\ Len(out') = n - 1 /\ out[1] = Head(out)
      /\ \A i \in 1..(n - 1) : out'[i] = out[i + 1]
  BY DEF TransportTypeOK
<1>3. PICK k \in [0..(n - 1) -> SUBSET Docs] : \A i \in 0..(n - 1) : k[i] = h[i + 1]
  <2> DEFINE K == [i \in 0..(n - 1) |-> h[i + 1]]
  <2>1. K \in [0..(n - 1) -> SUBSET Docs] /\ \A i \in 0..(n - 1) : K[i] = h[i + 1]
    BY <1>1, <1>2
  <2> QED BY <2>1
<1>4. k[0] = server'.open
  <2>1. h[1] = OpenAfter(out[1], h[0]) /\ h[0] = server.open
    BY <1>1, <1>2 DEF Leads
  <2> QED BY <1>2, <1>3, <2>1
<1>5. \A i \in 0..Len(out') : Cardinality(k[i]) <= MaxOpenDocuments
  BY <1>1, <1>2, <1>3 DEF Leads
<1>6. \A i \in 1..Len(out') : Finds(out'[i], k[i - 1]) /\ k[i] = OpenAfter(out'[i], k[i - 1])
  <2> SUFFICES ASSUME NEW i \in 1..(n - 1)
               PROVE  Finds(out'[i], k[i - 1]) /\ k[i] = OpenAfter(out'[i], k[i - 1])
    BY <1>2
  <2>1. i \in 0..(n - 1) /\ i - 1 \in 0..(n - 1) /\ i + 1 \in 1..n /\ (i - 1) + 1 = i /\ (i + 1) - 1 = i
    BY <1>2
  <2>2. k[i - 1] = h[i] /\ k[i] = h[i + 1] /\ out'[i] = out[i + 1]
    BY <1>2, <1>3, <2>1
  <2>3. Finds(out[i + 1], h[i]) /\ h[i + 1] = OpenAfter(out[i + 1], h[i])
    BY <1>1, <2>1 DEF Leads
  <2> QED BY <2>2, <2>3
<1>7. Tracking' => k[Len(out')] = opened'
  BY <1>1, <1>2, <1>3 DEF Leads
<1>8. k \in [0..Len(out') -> SUBSET Docs]
  BY <1>2, <1>3
<1>9. Leads(k)'
  BY <1>4, <1>5, <1>6, <1>7, <1>8, Zenon DEF Leads
<1> QED BY <1>8, <1>9, Zenon DEF DocumentsOK
(* Only a client that still knows the documents goes on knowing them.      *)
LEMMA TrackingStays ==
    ASSUME ProviderTypeOK, ControlOK, [Next]_vars, Tracking'
    PROVE  Tracking /\ (opened' = opened \/ Evict \/ Open)
<1>1. process = "running"
  <2>1. process = "gone" => process' = "gone"
    BY StepsSplit, ProcessEnds DEF ProviderTypeOK, ControlOK
  <2> QED BY <2>1 DEF Tracking, ProviderTypeOK, TransportTypeOK
<1>2. pc' \in {"start", "query", "idle"}
  BY DEF Tracking
<1>3. SUFFICES pc \in {"start", "query", "idle"} /\ (opened' = opened \/ Evict \/ Open)
  BY <1>1 DEF Tracking
<1>4. CASE Observe \/ Relate \/ Close \/ CloseAgain
  BY <1>2, <1>4 DEF Observe, Relate, Query, Close, CloseAgain, Moves
<1>5. CASE Worker \/ Environment \/ UNCHANGED vars
  BY <1>2, <1>5 DEF Worker, WorkerAsks, WorkerSkips, WorkerWaits, WorkerExits, WorkerReaps, WorkerAt,
                    Environment, client, vars
<1>6. CASE OpenMissing \/ Interrupt \/ TerminateFails
  BY <1>2, <1>6 DEF OpenMissing, Interrupt, TerminateFails, Moves, Doing, Asking, Ends
<1>7. CASE OpenAlready \/ Evict \/ Open \/ Reopen \/ Ask \/ Initialized \/ WriteFails \/ SkipOther
  BY <1>7 DEF OpenAlready, Evict, Open, Reopen, Ask, Initialized, WriteFails, SkipOther, Doing,
              Writing, Asking, Ends, client
<1>8. CASE AskFails \/ TimesOut \/ Answered \/ Collect \/ RelateItem \/ Identify \/ Handle
  BY <1>8 DEF AskFails, TimesOut, Answered, Collect, RelateItem, Identify, Handle, Doing, Asking, Ends
<1>9. CASE AbortStart \/ Join \/ Terminate \/ Rejoin \/ Release
  BY <1>2, <1>9 DEF AbortStart, Join, Terminate, Rejoin, Release, Moves
<1> QED BY <1>4, <1>5, <1>6, <1>7, <1>8, <1>9 DEF Next, Main

(* A frame that was appended was sent, to a process that runs.              *)
LEMMA WrittenSends ==
    ASSUME TransportTypeOK, ClientMoves, NEW g, out' = Append(out, g)
    PROVE  g \in ToServer /\ process = "running" /\ UNCHANGED server
<1>1. Len(out') = Len(out) + 1 /\ out'[Len(out) + 1] = g /\ Len(out) \in Nat
  BY DEF TransportTypeOK
<1>2. ~Quiet
  BY <1>1 DEF Quiet
<1>3. ~Kills
  <2>1. SUFFICES ASSUME out' = <<>> PROVE FALSE
    BY DEF Kills
  <2>2. Len(out') = 0
    BY <2>1
  <2> QED BY <1>1, <2>2
<1>4. PICK f \in ToServer : Sends(f)
  BY <1>2, <1>3 DEF ClientMoves
<1>5. out' = Append(out, f)
  BY <1>4 DEF Sends
<1>6. f = g
  BY <1>1, <1>5 DEF TransportTypeOK
<1> QED BY <1>4, <1>6 DEF Sends, ClientMoves

(* A step that names no document to clangd.                                *)
LEMMA DocumentsStay ==
    ASSUME TransportTypeOK, DocumentsOK, ClientMoves, Tracking' => Tracking /\ opened' = opened,
           \/ out' = out
           \/ process' = "gone" /\ out' = <<>>
           \/ \E f : out' = Append(out, f) /\ f.kind \in {"shutdown", "exit", "reply"}
    PROVE  DocumentsOK'
<1>1. UNCHANGED server
  BY DEF ClientMoves
<1>2. CASE out' = out
  BY <1>1, <1>2, LeadsStill
<1>3. CASE process' = "gone" /\ out' = <<>>
  <2>1. PICK h \in [0..Len(out) -> SUBSET Docs] : Leads(h)
    BY DEF DocumentsOK
  <2>2. server.open \in SUBSET Docs /\ Cardinality(server.open) <= MaxOpenDocuments
    <3>1. 0 \in 0..Len(out)
      BY DEF TransportTypeOK
    <3> QED BY <2>1, <3>1 DEF Leads
  <2> QED BY <1>1, <1>3, <2>2, LeadsNowhere
<1>4. ASSUME NEW f, out' = Append(out, f), f.kind \in {"shutdown", "exit", "reply"}
      PROVE  DocumentsOK'
  <2>1. f \in ToServer
    BY <1>4, WrittenSends
  <2>2. f.doc = None
    BY <1>4, <2>1 DEF ToServer
  <2>3. \A last : Finds(f, last) /\ OpenAfter(f, last) = last
    BY <1>4, <2>2 DEF Finds, OpenAfter
  <2> QED BY <1>1, <1>4, <2>1, <2>3, LeadsFurther
<1> QED BY <1>2, <1>3, <1>4

(* A frame written to keep the window, or to ask.                          *)
LEMMA DocumentsFollow ==
    ASSUME ProviderTypeOK, ControlOK, DocumentsOK, ClientMoves, NEW f, out' = Append(out, f),
           pc \in Asking,
           \/ /\ f = Frame("request", issued + 1, Next1.doc) /\ Next1.doc \in opened \cup {None}
              /\ Tracking' => opened' = opened
           \/ /\ f = Frame("didClose", 0, Min(opened)) /\ Cardinality(opened) >= MaxOpenDocuments
              /\ Tracking' => opened' = opened \ {Min(opened)}
           \/ /\ f = Frame("didOpen", 0, Next1.doc) /\ Next1.doc \notin opened
              /\ Cardinality(opened) < MaxOpenDocuments
              /\ Tracking' => opened' = opened \cup {Next1.doc}
    PROVE  DocumentsOK'
<1>1. f \in ToServer /\ process = "running" /\ UNCHANGED server
  BY WrittenSends DEF ProviderTypeOK
<1>2. Tracking
  BY <1>1 DEF Tracking, Asking
<1>3. opened \in SUBSET Docs /\ Cardinality(opened) \in Nat /\ MaxOpenDocuments \in Nat \ {0}
  BY SetsOfDocs, ProviderBounds DEF ProviderTypeOK, ClientTypeOK
<1>4. ASSUME Cardinality(opened) <= MaxOpenDocuments
      PROVE  /\ Finds(f, opened) /\ Cardinality(OpenAfter(f, opened)) <= MaxOpenDocuments
             /\ Tracking' => OpenAfter(f, opened) = opened'
  <2>1. CASE /\ f = Frame("request", issued + 1, Next1.doc) /\ Next1.doc \in opened \cup {None}
             /\ Tracking' => opened' = opened
    BY <1>4, <2>1 DEF Frame, Finds, OpenAfter
  <2>2. CASE /\ f = Frame("didClose", 0, Min(opened)) /\ Cardinality(opened) >= MaxOpenDocuments
             /\ Tracking' => opened' = opened \ {Min(opened)}
    <3>1. Min(opened) \in opened
      BY <1>3, <2>2, SetsOfDocs, MinOfDocs
    <3>2. Cardinality(opened \ {Min(opened)}) <= MaxOpenDocuments
      <4>1. /\ Cardinality(opened \ {Min(opened)}) < Cardinality(opened)
            /\ Cardinality(opened \ {Min(opened)}) \in Nat
        BY <1>3, <3>1, SetsOfDocs
      <4> QED BY <1>3, <1>4, <4>1
    <3>3. OpenAfter(f, opened) = opened \ {Min(opened)} /\ Finds(f, opened)
      BY <2>2, <3>1 DEF Frame, Finds, OpenAfter
    <3> QED BY <2>2, <3>2, <3>3
  <2>3. CASE /\ f = Frame("didOpen", 0, Next1.doc) /\ Next1.doc \notin opened
             /\ Cardinality(opened) < MaxOpenDocuments
             /\ Tracking' => opened' = opened \cup {Next1.doc}
    <3>1. Next1.doc \in Docs
      BY <1>1, <2>3 DEF Frame, ToServer
    <3>2. Cardinality(opened \cup {Next1.doc}) <= MaxOpenDocuments
      <4>1. /\ Cardinality(opened \cup {Next1.doc}) <= Cardinality(opened) + 1
            /\ Cardinality(opened \cup {Next1.doc}) \in Nat
        BY <1>3, <3>1, SetsOfDocs
      <4> QED BY <1>3, <2>3, <4>1
    <3>3. OpenAfter(f, opened) = opened \cup {Next1.doc} /\ Finds(f, opened)
      BY <2>3 DEF Frame, Finds, OpenAfter
    <3> QED BY <2>3, <3>2, <3>3
  <2> QED BY <2>1, <2>2, <2>3
<1> QED BY <1>1, <1>2, <1>4, LeadsFurther DEF ProviderTypeOK

(* clangd takes a frame, the reader moves one, or the environment errs.    *)
LEMMA DocumentsServed ==
    ASSUME TransportTypeOK, DocumentsOK, Environment
    PROVE  DocumentsOK'
<1>1. PICK h \in [0..Len(out) -> SUBSET Docs] : Leads(h)
  BY DEF DocumentsOK
<1>2. Len(out) \in Nat /\ h[0] = server.open /\ Cardinality(h[0]) <= MaxOpenDocuments /\ h[0] \in SUBSET Docs
  BY <1>1 DEF Leads, TransportTypeOK
<1>3. UNCHANGED <<pc, opened>>
  BY DEF Environment, client
<1>4. CASE Read
  <2>1. UNCHANGED <<process, out, server>>
    BY <1>4, ReadMoves
  <2> QED BY <1>3, <2>1, LeadsStill DEF Tracking
<1>5. CASE Serve
  <2>1. out # <<>> /\ process = "running" /\ server'.open = OpenAfter(Head(out), server.open)
    BY <1>5, ServeTakes
  <2>2. CASE process' = "running" /\ out' = Tail(out)
    BY <1>3, <2>1, <2>2, LeadsFrom DEF Tracking
  <2>3. CASE process' = "gone" /\ out' = <<>>
    <3>1. 1 \in 1..Len(out) /\ 1 \in 0..Len(out) /\ out[1] = Head(out)
      BY <1>2, <2>1 DEF TransportTypeOK
    <3>2. server'.open = h[1] /\ h[1] \in SUBSET Docs /\ Cardinality(h[1]) <= MaxOpenDocuments
      BY <1>1, <2>1, <3>1 DEF Leads
    <3> QED BY <2>3, <3>2, LeadsNowhere
  <2> QED BY <1>5, <2>2, <2>3, ServeTakes
<1>6. CASE Interject \/ Crash
  <2>1. UNCHANGED server
    BY <1>6, FaultMoves
  <2>2. CASE UNCHANGED <<process, out>>
    BY <1>3, <2>1, <2>2, LeadsStill DEF Tracking
  <2>3. CASE process' = "gone" /\ out' = <<>>
    BY <1>2, <2>1, <2>3, LeadsNowhere
  <2> QED BY <1>6, <2>2, <2>3, FaultMoves
<1> QED BY <1>4, <1>5, <1>6 DEF Environment
(* Every step keeps the account of the open documents: what clangd has      *)
(* open, once it has taken the frames on their way, is what the window      *)
(* says.                                                                    *)
LEMMA DocumentsKept ==
    ASSUME ProviderTypeOK, ControlOK, DocumentsOK, [Next]_vars
    PROVE  DocumentsOK'
<1> USE DEF ProviderTypeOK
<1>1. Tracking' => Tracking /\ (opened' = opened \/ Evict \/ Open)
  BY TrackingStays
<1>2. CASE Environment
  BY <1>2, DocumentsServed
<1>3. CASE Evict
  <2>1. ClientMoves
    BY <1>3, MainMoves DEF Main
  <2> QED BY <1>3, <2>1, DocumentsFollow DEF Evict, Doing, Written
<1>4. CASE Open
  <2>1. ClientMoves
    BY <1>4, MainMoves DEF Main
  <2> QED BY <1>4, <2>1, DocumentsFollow DEF Open, Doing, Written
<1>5. CASE Ask
  <2>1. ClientMoves
    BY <1>5, MainMoves DEF Main
  <2> QED BY <1>5, <2>1, DocumentsFollow DEF Ask, Written
<1>6. CASE ~Environment /\ ~Evict /\ ~Open /\ ~Ask
  <2>1. ClientMoves /\ (Tracking' => Tracking /\ opened' = opened)
    BY <1>1, <1>6, StepsSplit
  <2>2. ASSUME \/ out' = out
               \/ process' = "gone" /\ out' = <<>>
               \/ \E kind \in {"shutdown", "exit", "reply"}, id \in Nat :
                    out' = Append(out, Frame(kind, id, None))
        PROVE  DocumentsOK'
    <3>1. \A kind, id : Frame(kind, id, None).kind = kind
      BY DEF Frame
    <3>2. \/ out' = out
          \/ process' = "gone" /\ out' = <<>>
          \/ \E f : out' = Append(out, f) /\ f.kind \in {"shutdown", "exit", "reply"}
      BY <2>2, <3>1, Zenon
    <3> QED BY <2>1, <3>2, DocumentsStay
  <2>3. CASE Observe \/ Relate \/ Close \/ CloseAgain \/ OpenMissing \/ TerminateFails \/ UNCHANGED vars
    BY <2>2, <2>3 DEF Observe, Relate, Query, Close, CloseAgain, OpenMissing, TerminateFails, transport, vars
  <2>4. CASE OpenAlready \/ Reopen \/ Collect \/ RelateItem \/ Identify \/ Handle \/ Join \/ Rejoin \/ Release
    BY <2>2, <2>4 DEF OpenAlready, Reopen, Collect, RelateItem, Identify, Handle, Join, Rejoin, Release,
                      transport
  <2>5. CASE AskFails \/ TimesOut \/ Answered \/ WriteFails
    BY <2>2, <2>5 DEF AskFails, WaitFails, TimesOut, Answered, WriteFails, Abort, Gone, transport
  <2>6. CASE AbortStart \/ Terminate
    BY <2>2, <2>6 DEF AbortStart, Terminate, Gone
  <2>7. ASSUME NEW id, Skip(id)
        PROVE  DocumentsOK'
    <3>1. CASE UNCHANGED out
      BY <2>2, <3>1
    <3>2. CASE Received /\ Written(Frame("reply", Response1.id, None))
      <4>1. Response1 \in Response
        BY <3>2, Taken1 DEF Received, Response1, TransportTypeOK
      <4>2. Response1.id \in Nat
        BY <4>1 DEF Response, FromServer
      <4> QED BY <2>2, <3>2, <4>2 DEF Written
    <3> QED BY <2>7, <3>1, <3>2 DEF Skip
  <2>8. CASE SkipOther \/ WorkerSkips
    BY <2>7, <2>8 DEF SkipOther, WorkerSkips
  <2>9. CASE Initialized
    BY <2>2, <2>9 DEF Initialized, Written
  <2>10. CASE WorkerAsks
    <3>1. issued + 1 \in Nat
      BY DEF TransportTypeOK
    <3> QED BY <2>2, <2>10, <3>1 DEF WorkerAsks, Written, Abort, Gone, transport
  <2>11. CASE WorkerWaits \/ WorkerExits \/ WorkerReaps
    BY <2>2, <2>11 DEF WorkerWaits, WaitFails, WorkerExits, WorkerReaps, Written, Abort, Gone, transport
  <2>12. CASE Interrupt
    <3>1. pc \in Asking /\ ~Tracking'
      BY <2>12 DEF Interrupt, Tracking
    <3>2. CASE UNCHANGED out
      BY <2>2, <3>2
    <3>3. CASE Writing /\ Written(Pending)
      <4>1. Next1 \in Task /\ opened \in SUBSET Docs
        BY <3>1, NextTask DEF ClientTypeOK
      <4>2. Cardinality(opened) \in Nat /\ MaxOpenDocuments \in Nat
        BY <4>1, SetsOfDocs, ProviderBounds
      <4>3. CASE Next1.op \in Methods
        <5>1. Pending = Frame("request", issued + 1, Next1.doc) /\ Next1.doc \in opened \cup {None}
          BY <2>12, <3>3, <4>3 DEF Pending, Methods, Interrupt
        <5> QED BY <2>1, <3>1, <3>3, <5>1, DocumentsFollow DEF Written
      <4>4. CASE Next1.op = "initialized"
        <5>1. Pending = Frame("reply", 0, None)
          BY <4>4 DEF Pending, Methods
        <5> QED BY <2>2, <3>3, <5>1 DEF Written
      <4>5. CASE Next1.op = "open" /\ Cardinality(opened) >= MaxOpenDocuments
        <5>1. ~(Cardinality(opened) < MaxOpenDocuments)
          BY <4>2, <4>5
        <5>2. Pending = Frame("didClose", 0, Min(opened))
          BY <4>5, <5>1 DEF Pending, Methods
        <5> QED BY <2>1, <3>1, <3>3, <4>5, <5>2, DocumentsFollow DEF Written
      <4>6. CASE Next1.op = "open" /\ Cardinality(opened) < MaxOpenDocuments
        <5>1. ~(Cardinality(opened) >= MaxOpenDocuments)
          BY <4>2, <4>6
        <5>2. Pending = Frame("didOpen", 0, Next1.doc) /\ Next1.doc \notin opened
          BY <3>3, <4>6, <5>1 DEF Pending, Methods, Writing
        <5> QED BY <2>1, <3>1, <3>3, <4>6, <5>2, DocumentsFollow DEF Written
      <4> QED BY <3>3, <4>2, <4>3, <4>4, <4>5, <4>6 DEF Writing
    <3> QED BY <2>12, <3>2, <3>3 DEF Interrupt
  <2> QED BY <1>6, <2>3, <2>4, <2>5, <2>6, <2>8, <2>9, <2>10, <2>11, <2>12 DEF Next, Main, Worker
<1> QED BY <1>2, <1>3, <1>4, <1>5, <1>6

-----------------------------------------------------------------------------
(* The inductive invariant.                                                *)

(* A provider starts with nothing open and nothing on its way.              *)
LEMMA ProviderStart ==
    Init => ProviderInv
<1> SUFFICES ASSUME Init PROVE ProviderInv
  OBVIOUS
<1>1. /\ out = <<>> /\ in = <<>> /\ responses = <<>> /\ process = "running"
      /\ server = [open |-> {}, down |-> FALSE]
      /\ tasks = <<T("initialize", None, None), T("initialized", None, None)>>
      /\ worker = [pc |-> "none", id |-> None] /\ pc = "start" /\ opened = {}
  BY DEF Init, TransportInit
<1>2. TransportTypeOK
  <2>1. out \in Seq(ToServer) /\ in \in Seq(FromServer)
    BY <1>1
  <2>2. responses \in Seq(Response)
    BY <1>1
  <2>3. faults \in 0..MaxFaults /\ issued \in Nat /\ reader \in BOOLEAN
    BY TransportBounds DEF Init, TransportInit
  <2>4. server \in [open : SUBSET Docs, down : BOOLEAN]
    BY <1>1
  <2> QED BY <1>1, <2>1, <2>2, <2>3, <2>4 DEF TransportTypeOK
<1>3. ClientTypeOK
  <2>1. tasks \in Seq(Task)
    <3>1. T("initialize", None, None) \in Task /\ T("initialized", None, None) \in Task
      BY TaskTypes DEF Methods
    <3> QED BY <1>1, <3>1
  <2>2. calls \in 0..MaxCalls
    BY ProviderBounds DEF Init
  <2> QED BY <1>1, <2>1, <2>2 DEF Init, ClientTypeOK, Steps
<1>4. ControlOK
  <2>1. tasks # <<>>
    BY <1>1
  <2> QED BY <1>1, <2>1 DEF ControlOK
<1>5. IdsOK
  <2>1. out \in Seq(Orders(issued)) /\ in \in Seq(Sent(issued))
    BY <1>1
  <2>2. responses \in Seq(Queued(issued))
    BY <1>1
  <2> QED BY <2>1, <2>2 DEF IdsOK
<1>6. ShutdownOK
  BY <1>1 DEF ShutdownOK
<1>7. DocumentsOK
  <2>1. PICK h : h = [i \in 0..0 |-> {}]
    OBVIOUS
  <2>2. Len(out) = 0 /\ Cardinality({}) = 0
    BY <1>1, FS_EmptySet
  <2>3. h \in [0..Len(out) -> SUBSET Docs] /\ h[0] = server.open /\ h[Len(out)] = opened
    BY <1>1, <2>1, <2>2
  <2>4. \A i \in 0..Len(out) : Cardinality(h[i]) <= MaxOpenDocuments
    <3>1. \A i \in 0..Len(out) : h[i] = {}
      BY <2>1, <2>2
    <3>2. 0 <= MaxOpenDocuments
      BY ProviderBounds
    <3> QED BY <2>2, <3>1, <3>2
  <2>5. \A i \in 1..Len(out) : Finds(out[i], h[i - 1]) /\ h[i] = OpenAfter(out[i], h[i - 1])
    BY <2>2
  <2>6. Leads(h)
    BY <2>3, <2>4, <2>5, Zenon DEF Leads
  <2> QED BY <2>3, <2>6 DEF DocumentsOK
<1> QED BY <1>2, <1>3, <1>4, <1>5, <1>6, <1>7 DEF ProviderInv, ProviderTypeOK

(* Whatever clangd does, and whenever the caller is interrupted: each step *)
(* keeps the types, the ids, the way to a shutdown, and the frames that    *)
(* lead from what clangd has open to what the client believes.             *)
THEOREM ProviderInductive == Spec => []ProviderInv
<1>1. ProviderInv /\ [Next]_vars => ProviderInv'
  <2> SUFFICES ASSUME ProviderInv, [Next]_vars PROVE ProviderInv'
    OBVIOUS
  <2>1. ProviderTypeOK /\ ControlOK /\ IdsOK /\ ShutdownOK /\ DocumentsOK
    BY DEF ProviderInv
  <2>2. ClientMoves \/ Environment
    BY <2>1, StepsSplit
  <2>3. TransportTypeOK'
    BY <2>1, <2>2, TransportTyped DEF ProviderTypeOK
  <2>4. ClientTypeOK' /\ ControlOK' /\ ShutdownOK' /\ DocumentsOK'
    BY <2>1, ClientTyped, ControlKept, ShutdownKept, DocumentsKept
  <2>5. IdsOK'
    BY <2>1, <2>2, IdsKept DEF ProviderTypeOK
  <2> QED BY <2>3, <2>4, <2>5 DEF ProviderInv, ProviderTypeOK
<1> QED BY <1>1, ProviderStart, PTL DEF Spec

(* Every variable of the provider and of its transport keeps its type.     *)
THEOREM ProviderTypesHold == Spec => []ProviderTypeOK
<1>1. ProviderInv => ProviderTypeOK
  BY DEF ProviderInv
<1> QED BY <1>1, ProviderInductive, PTL

(* The worker of close writes exit only when clangd has taken its          *)
(* shutdown: no late answer to another request passes for the answer to    *)
(* it.                                                                     *)
THEOREM ExitFollowsShutdown == Spec => []ExitAfterShutdown
<1>1. ProviderInv => ExitAfterShutdown
  BY DEF ProviderInv, ShutdownOK, ExitAfterShutdown
<1> QED BY <1>1, ProviderInductive, PTL

(* A close that returns, like a start that fails, has released clangd:     *)
(* process, worker and pipes.                                              *)
THEOREM CloseHasReleased == Spec => []CloseReleases
<1>1. ProviderInv => CloseReleases
  BY DEF ProviderInv, ControlOK, CloseReleases
<1> QED BY <1>1, ProviderInductive, PTL

(* A frame that names a document finds it open, or closed if it is to be   *)
(* opened: for any number of documents, any window, and a pipe of any      *)
(* size, with an interrupt at any step.                                    *)
THEOREM FramesAlwaysFind == Spec => []FramesFindDocument
<1>1. ProviderInv => FramesFindDocument
  <2> SUFFICES ASSUME ProviderInv, out # <<>>, Head(out).doc # None
               PROVE  IF Head(out).kind = "didOpen" THEN Head(out).doc \notin server.open
                                                    ELSE Head(out).doc \in server.open
    BY DEF FramesFindDocument
  <2>1. PICK h \in [0..Len(out) -> SUBSET Docs] : Leads(h)
    BY DEF ProviderInv, DocumentsOK
  <2>2. 1 \in 1..Len(out) /\ out[1] = Head(out)
    BY DEF ProviderInv, ProviderTypeOK, TransportTypeOK
  <2>3. Finds(Head(out), server.open)
    BY <2>1, <2>2 DEF Leads
  <2> QED BY <2>3 DEF Finds
<1> QED BY <1>1, ProviderInductive, PTL

(* clangd never has more documents open than MAX_OPEN_DOCUMENTS, an        *)
(* interrupted eviction or opening included.                               *)
THEOREM WindowAlwaysHolds == Spec => []WindowHolds
<1>1. ProviderInv => WindowHolds
  <2> SUFFICES ASSUME ProviderInv PROVE WindowHolds
    OBVIOUS
  <2>1. PICK h \in [0..Len(out) -> SUBSET Docs] : Leads(h)
    BY DEF ProviderInv, DocumentsOK
  <2>2. 0 \in 0..Len(out)
    BY DEF ProviderInv, ProviderTypeOK, TransportTypeOK
  <2> QED BY <2>1, <2>2 DEF Leads, WindowHolds
<1> QED BY <1>1, ProviderInductive, PTL
=============================================================================
