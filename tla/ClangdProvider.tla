---------------------------- MODULE ClangdProvider ----------------------------
(***************************************************************************)
(* ClangdSemanticProvider (repository/clangd.py): queries about symbols,   *)
(* made of requests that each name a document, under a window of at most   *)
(* MaxOpenDocuments documents open in clangd; and the release of clangd.   *)
(*                                                                         *)
(* A query is a list of tasks, done one after the other by the one thread  *)
(* that uses the provider; an answer may put further tasks in front.  The  *)
(* second thread is the shutdown worker of close.                          *)
(***************************************************************************)
EXTENDS ClangdTransport, FiniteSetsExt

CONSTANTS
    Symbols,           \* identities clangd gives to what it finds
    SymbolsOf,          \* [Docs -> Seq(Symbols)]: the symbols of a document
    MaxOpenDocuments,  \* 4 in the code
    MaxCalls           \* bound: queries made of the provider

ASSUME ProviderBounds ==
    /\ SymbolsOf \in [Docs -> Seq(Symbols)]
    /\ MaxOpenDocuments \in Nat \ {0} /\ MaxCalls \in Nat

VARIABLES
    pc,         \* where the using thread is
    tasks,      \* what is left of the query in progress
    waiting,    \* the request id it waits for, None if it does not
    opened,     \* _opened_documents
    handles,    \* _handles: the document a symbol was first seen in
    hierarchy,  \* _supports_call_hierarchy
    calls,      \* queries made so far
    worker,     \* the shutdown worker: its step and the id it waits for
    streams     \* the pipes' own end: "open" or "closed"

client == <<pc, tasks, waiting, opened, handles, hierarchy, calls>>
vars == <<transport, client, worker, streams>>

-----------------------------------------------------------------------------
Methods == {"initialize", "documentSymbol", "symbolInfo", "declaration",
            "definition", "references", "prepareCallHierarchy", "calls"}

Task == [op : Methods \cup {"initialized"}, doc : Docs \cup {None}, sym : Symbols \cup {None}]
          \cup [op : {"open", "collect"}, doc : Docs, sym : {None}]
          \cup [op : {"identify", "handle", "relate"}, doc : Docs, sym : Symbols]

T(op, doc, sym) == [op |-> op, doc |-> doc, sym |-> sym]

(* start: __init__; abort: its except clause; query, idle: a query or none *)
(* in progress; left: KeyboardInterrupt left a query; join, terminate,     *)
(* rejoin, release: the steps of _close_owned; closed, raised, unkilled:   *)
(* its ends, with a worker or a process that would not end in the last     *)
(* two; reclosed: close was called again after one of the first two.       *)
Steps == {"start", "abort", "query", "idle", "left", "join", "terminate",
          "rejoin", "release", "raised", "closed", "reclosed", "unkilled"}
Asking  == {"start", "query"}
AtRest  == {"idle", "left", "raised", "closed", "reclosed", "unkilled"}

ClientTypeOK ==
    /\ pc \in Steps
    /\ tasks \in Seq(Task)
    /\ waiting \in Nat \cup {None}
    /\ opened \in SUBSET Docs
    /\ handles \in [Symbols -> Docs \cup {None}]
    /\ hierarchy \in BOOLEAN /\ calls \in 0..MaxCalls
    /\ worker \in [pc : {"none", "ask", "wait", "exit", "reap", "done"}, id : Nat \cup {None}]
    /\ streams \in {"open", "closed"}

ProviderTypeOK == TransportTypeOK /\ ClientTypeOK

Init ==
    /\ TransportInit
    /\ pc = "start"
    /\ tasks = <<T("initialize", None, None), T("initialized", None, None)>>
    /\ waiting = None /\ opened = {} /\ handles = [s \in Symbols |-> None]
    /\ hierarchy \in BOOLEAN /\ calls = 0
    /\ worker = [pc |-> "none", id |-> None] /\ streams = "open"

-----------------------------------------------------------------------------
(* Ends of a query, successful or not: _request and __init__ let every     *)
(* error through to the caller.                                            *)
Ends ==
    /\ tasks' = <<>> /\ waiting' = None
    /\ pc' = IF pc = "start" THEN "abort" ELSE "idle"
    /\ UNCHANGED <<opened, handles, hierarchy, calls, worker, streams>>

Next1 == Head(tasks)

Goes(rest) ==
    /\ tasks' = rest /\ waiting' = None
    /\ pc' = IF rest = <<>> THEN "idle" ELSE pc
    /\ UNCHANGED <<calls, worker, streams>>

Doing(op) == pc \in Asking /\ waiting = None /\ Next1.op = op

-----------------------------------------------------------------------------
(* Queries.                                                                *)
Query(list) ==
    /\ pc = "idle" /\ calls < MaxCalls
    /\ calls' = calls + 1
    /\ tasks' = list
    /\ pc' = IF list = <<>> THEN "idle" ELSE "query"
    /\ UNCHANGED <<transport, waiting, opened, handles, hierarchy, worker, streams>>

(* The files of a scope, sorted; the same steps taken for each.            *)
Ordered == {files \in UNION {[1..n -> Docs] : n \in 0..NDocs} :
              \A i, j \in DOMAIN files : i < j => files[i] < files[j]}

Each(files, ops) ==
    [i \in 1..(Len(ops) * Len(files)) |->
        T(ops[((i - 1) % Len(ops)) + 1], files[((i - 1) \div Len(ops)) + 1], None)]

(* symbol_observations_in_files: a scope above the window is prepared      *)
(* first and collected in a second pass; a smaller one is opened and asked *)
(* as a whole before anything is collected.                                *)
Observe ==
    \E files \in Ordered :
      Query(IF Len(files) > MaxOpenDocuments
              THEN Each(files, <<"open", "documentSymbol">>)
                     \o Each(files, <<"open", "documentSymbol", "collect">>)
              ELSE Each(files, <<"open">>) \o Each(files, <<"documentSymbol">>)
                     \o Each(files, <<"collect">>))

(* references, callers and callees of a symbol with a handle.              *)
Relate ==
    \E s \in Symbols :
      \/ handles[s] = None /\ Query(<<>>)
      \/ handles[s] # None /\ Query(<<T("references", handles[s], s)>>)
      \/ handles[s] # None /\ Query(IF hierarchy THEN <<T("prepareCallHierarchy", handles[s], s)>>
                                                 ELSE <<>>)

-----------------------------------------------------------------------------
(* _open_document.  A file that is gone or does not decode is a fault.     *)
OpenMissing ==
    /\ Doing("open") /\ Fault /\ Ends
    /\ UNCHANGED <<process, out, in, server, responses, reader, issued>>

OpenAlready ==
    /\ Doing("open") /\ Next1.doc \in opened
    /\ Goes(Tail(tasks)) /\ UNCHANGED <<transport, opened, handles, hierarchy>>

Evict ==
    /\ Doing("open") /\ Next1.doc \notin opened
    /\ Cardinality(opened) >= MaxOpenDocuments
    /\ Written(Frame("didClose", 0, Min(opened)))
    /\ opened' = opened \ {Min(opened)}
    /\ UNCHANGED <<process, in, server, responses, reader, issued, faults>>
    /\ UNCHANGED <<pc, tasks, waiting, handles, hierarchy, calls, worker, streams>>

(* Mutant: the window is one document too wide.                            *)
OpenBeyond ==
    /\ Doing("open") /\ Next1.doc \notin opened
    /\ Cardinality(opened) <= MaxOpenDocuments
    /\ Written(Frame("didOpen", 0, Next1.doc))
    /\ opened' = opened \cup {Next1.doc}
    /\ Goes(Tail(tasks))
    /\ UNCHANGED <<process, in, server, responses, reader, issued, faults, handles, hierarchy>>

Open ==
    /\ Doing("open") /\ Next1.doc \notin opened
    /\ Cardinality(opened) < MaxOpenDocuments
    /\ Written(Frame("didOpen", 0, Next1.doc))
    /\ opened' = opened \cup {Next1.doc}
    /\ Goes(Tail(tasks))
    /\ UNCHANGED <<process, in, server, responses, reader, issued, faults, handles, hierarchy>>

(* _request: the document asked about is opened first if the window lost   *)
(* it; then request writes the frame and waits.                            *)
Reopen ==
    /\ pc \in Asking /\ waiting = None /\ Next1.op \in Methods
    /\ Next1.doc \notin opened \cup {None}
    /\ tasks' = <<T("open", Next1.doc, None)>> \o tasks
    /\ UNCHANGED <<transport, pc, waiting, opened, handles, hierarchy, calls, worker, streams>>

(* Mutant: the request goes out whatever the window holds.                 *)
AskAnyway ==
    /\ pc \in Asking /\ waiting = None /\ Next1.op \in Methods
    /\ Written(Frame("request", issued + 1, Next1.doc))
    /\ issued' = issued + 1 /\ waiting' = issued + 1
    /\ UNCHANGED <<process, in, server, responses, reader, faults>>
    /\ UNCHANGED <<pc, tasks, opened, handles, hierarchy, calls, worker, streams>>

Ask ==
    /\ pc \in Asking /\ waiting = None /\ Next1.op \in Methods
    /\ Next1.doc \in opened \cup {None}
    /\ Written(Frame("request", issued + 1, Next1.doc))
    /\ issued' = issued + 1 /\ waiting' = issued + 1
    /\ UNCHANGED <<process, in, server, responses, reader, faults>>
    /\ UNCHANGED <<pc, tasks, opened, handles, hierarchy, calls, worker, streams>>

Initialized ==
    /\ Doing("initialized") /\ Written(Frame("reply", 0, None)) /\ Goes(<<>>)
    /\ UNCHANGED <<process, in, server, responses, reader, issued, faults>>
    /\ UNCHANGED <<opened, handles, hierarchy>>

(* The task at hand is to write a frame.                                   *)
Writing ==
    /\ pc \in Asking /\ waiting = None
    /\ \/ Next1.op \in Methods \cup {"initialized"}
       \/ Next1.op = "open" /\ Next1.doc \notin opened

(* The write is refused, or its deadline passes with the pipe full.        *)
WriteFails ==
    /\ Writing /\ (Next1.op = "open" \/ Next1.doc \in opened \cup {None})
    /\ \/ Refused /\ UNCHANGED transport
       \/ Blocked /\ Abort /\ UNCHANGED faults
    /\ Ends

-----------------------------------------------------------------------------
(* request, waiting for the answer.                                        *)
SkipOther == waiting # None /\ pc \in Asking /\ Skip(waiting) /\ UNCHANGED <<client, worker, streams>>

AskFails == waiting # None /\ pc \in Asking /\ WaitFails /\ Ends

(* Mutant: a wait without a deadline.                                      *)
NeverTimesOut == FALSE

TimesOut == waiting # None /\ pc \in Asking /\ Abort /\ UNCHANGED faults /\ Ends

(* What a result makes of the query.  callers and callees: the items name  *)
(* documents anywhere, which are opened to identify the symbol they hold.  *)
AfterResult(t) ==
    CASE t.op = "prepareCallHierarchy" -> {<<T("calls", t.doc, t.sym)>>, <<>>}
      [] t.op = "calls" -> {<<>>} \cup {<<T("relate", d, s)>> : d \in Docs, s \in Symbols}
      [] OTHER -> {<<>>}

Answered ==
    /\ waiting # None /\ pc \in Asking /\ Answers1(waiting) /\ Consume
    /\ \/ /\ Response1.kind = "result"
          /\ \E more \in AfterResult(Next1) : Goes(more \o Tail(tasks))
          /\ UNCHANGED <<opened, handles, hierarchy>>
       \/ /\ Response1.kind = "unsupported" /\ Next1.op = "symbolInfo"
          /\ Goes(Tail(tasks)) /\ UNCHANGED <<opened, handles, hierarchy>>
       \/ /\ Response1.kind = "unsupported" /\ Next1.op \in {"prepareCallHierarchy", "calls"}
          /\ Goes(<<>>) /\ hierarchy' = FALSE /\ UNCHANGED <<opened, handles>>
       \/ /\ Response1.kind \in {"unsupported", "error"}
          /\ Response1.kind = "unsupported" =>
               Next1.op \notin {"symbolInfo", "prepareCallHierarchy", "calls"}
          /\ Ends
    /\ UNCHANGED <<process, out, in, server, reader, issued, faults>>

-----------------------------------------------------------------------------
Collect ==
    /\ Doing("collect")
    /\ LET found == SymbolsOf[Next1.doc]
       IN Goes([i \in DOMAIN found |-> T("identify", Next1.doc, found[i])] \o Tail(tasks))
    /\ UNCHANGED <<transport, opened, handles, hierarchy>>

RelateItem ==
    /\ Doing("relate")
    /\ Goes(<<T("open", Next1.doc, None), T("identify", Next1.doc, Next1.sym)>> \o Tail(tasks))
    /\ UNCHANGED <<transport, opened, handles, hierarchy>>

(* The facts of one symbol in a document: its identity, and the locations  *)
(* that symbolInfo left open.                                              *)
Identify ==
    /\ Doing("identify")
    /\ \E more \in {<<>>, <<"declaration">>, <<"definition">>, <<"declaration", "definition">>} :
         Goes(<<T("symbolInfo", Next1.doc, Next1.sym)>>
                \o [i \in DOMAIN more |-> T(more[i], Next1.doc, Next1.sym)]
                \o <<T("handle", Next1.doc, Next1.sym)>> \o Tail(tasks))
    /\ UNCHANGED <<transport, opened, handles, hierarchy>>

(* Mutant: identity and document are swapped.                              *)
HandleSwapped ==
    /\ Doing("handle")
    /\ handles' = [handles EXCEPT ![Next1.sym] = IF @ = None THEN Next1.sym ELSE @]
    /\ Goes(Tail(tasks))
    /\ UNCHANGED <<transport, opened, hierarchy>>

(* _handles.setdefault.                                                    *)
Handle ==
    /\ Doing("handle")
    /\ handles' = [handles EXCEPT ![Next1.sym] = IF @ = None THEN Next1.doc ELSE @]
    /\ Goes(Tail(tasks))
    /\ UNCHANGED <<transport, opened, hierarchy>>

-----------------------------------------------------------------------------
(* KeyboardInterrupt leaves the query where it is.  A frame being written  *)
(* then still goes out, while the caller no longer notes it.               *)
Pending ==
    CASE Next1.op \in Methods -> Frame("request", issued + 1, Next1.doc)
      [] Next1.op = "initialized" -> Frame("reply", 0, None)
      [] Next1.op = "open" /\ Cardinality(opened) >= MaxOpenDocuments -> Frame("didClose", 0, Min(opened))
      [] Next1.op = "open" /\ Cardinality(opened) < MaxOpenDocuments -> Frame("didOpen", 0, Next1.doc)

Interrupt ==
    /\ pc \in Asking /\ Fault
    /\ Writing /\ Next1.op \in Methods => Next1.doc \in opened \cup {None}
    /\ \/ UNCHANGED <<out, issued>>
       \/ /\ Writing /\ Written(Pending)
          /\ issued' = issued + (IF Next1.op \in Methods THEN 1 ELSE 0)
    /\ pc' = IF pc = "start" THEN "abort" ELSE "left"
    /\ tasks' = <<>> /\ waiting' = None
    /\ UNCHANGED <<process, in, server, responses, reader>>
    /\ UNCHANGED <<opened, handles, hierarchy, calls, worker, streams>>

(* The except clause of __init__, with the interrupt deferred.             *)
AbortStart ==
    /\ pc = "abort" /\ pc' = "closed"
    /\ Gone /\ streams' = "closed"
    /\ UNCHANGED <<in, server, responses, reader, issued, faults>>
    /\ UNCHANGED <<tasks, waiting, opened, handles, hierarchy, calls, worker>>

-----------------------------------------------------------------------------
(* close.  The thread marks the provider closed, gives the worker two      *)
(* seconds, terminates the process, gives it two more, and only then       *)
(* closes the pipes.                                                       *)
Moves(step) == pc' = step /\ UNCHANGED <<tasks, waiting, opened, handles, hierarchy, calls>>

Close ==
    /\ pc \in {"idle", "left"} /\ Moves("join")
    /\ worker' = [pc |-> "ask", id |-> None]
    /\ UNCHANGED <<transport, streams>>

Join == pc = "join" /\ Moves("terminate") /\ UNCHANGED <<transport, worker, streams>>

Terminate ==
    /\ pc = "terminate" /\ Moves("rejoin")
    /\ Gone
    /\ UNCHANGED <<in, server, responses, reader, issued, faults, worker, streams>>

(* A process that survives SIGKILL for five seconds.                       *)
TerminateFails ==
    /\ pc = "terminate" /\ process = "running" /\ Fault /\ Moves("unkilled")
    /\ UNCHANGED <<process, out, in, server, responses, reader, issued, worker, streams>>

(* The worker can run: two seconds are enough for what it has left to do.  *)
Stuck == worker.pc = "wait" /\ responses = <<>> /\ ~reader

(* Mutant: the pipes are closed whether or not the worker has ended.       *)
RejoinNot == pc = "rejoin" /\ Moves("release") /\ UNCHANGED <<transport, worker, streams>>

Rejoin ==
    /\ pc = "rejoin"
    /\ \/ worker.pc = "done" /\ Moves("release")
       \/ Stuck /\ Moves("raised")
    /\ UNCHANGED <<transport, worker, streams>>

Release ==
    /\ pc = "release" /\ Moves("closed") /\ streams' = "closed"
    /\ UNCHANGED <<transport, worker>>

CloseAgain ==
    /\ pc \in {"raised", "closed"} /\ Moves("reclosed")
    /\ UNCHANGED <<transport, worker, streams>>

-----------------------------------------------------------------------------
(* The shutdown worker: shutdown, its answer, exit, one second for the     *)
(* process to end.  It records what goes wrong and ends.                   *)
WorkerAt(step, id) == worker' = [pc |-> step, id |-> id] /\ UNCHANGED <<client, streams>>

WorkerAsks ==
    /\ worker.pc = "ask"
    /\ \/ /\ Written(Frame("shutdown", issued + 1, None)) /\ issued' = issued + 1
          /\ WorkerAt("wait", issued + 1)
          /\ UNCHANGED <<process, in, server, responses, reader, faults>>
       \/ Refused /\ WorkerAt("done", None) /\ UNCHANGED transport
       \/ Blocked /\ Abort /\ WorkerAt("done", None) /\ UNCHANGED faults

WorkerSkips == worker.pc = "wait" /\ Skip(worker.id) /\ UNCHANGED <<client, worker, streams>>

WorkerWaits ==
    /\ worker.pc = "wait"
    /\ \/ /\ Answers1(worker.id) /\ Consume /\ WorkerAt("exit", None)
          /\ UNCHANGED <<process, out, in, server, reader, issued, faults>>
       \/ WaitFails /\ WorkerAt("done", None)
       \/ Abort /\ WorkerAt("done", None) /\ UNCHANGED faults

WorkerExits ==
    /\ worker.pc = "exit"
    /\ \/ /\ Written(Frame("exit", 0, None)) /\ WorkerAt("reap", None)
          /\ UNCHANGED <<process, in, server, responses, reader, issued, faults>>
       \/ Refused /\ WorkerAt("done", None) /\ UNCHANGED transport
       \/ Blocked /\ Abort /\ WorkerAt("done", None) /\ UNCHANGED faults

WorkerReaps == worker.pc = "reap" /\ WorkerAt("done", None) /\ UNCHANGED transport

-----------------------------------------------------------------------------
Main ==
    \/ OpenAlready \/ Evict \/ Open \/ Reopen \/ Ask \/ Initialized \/ WriteFails
    \/ SkipOther \/ AskFails \/ TimesOut \/ Answered
    \/ Collect \/ RelateItem \/ Identify \/ Handle \/ AbortStart
    \/ Join \/ Terminate \/ Rejoin \/ Release

Worker == WorkerAsks \/ WorkerSkips \/ WorkerWaits \/ WorkerExits \/ WorkerReaps

Environment == (Read \/ Serve \/ Interject \/ Crash) /\ UNCHANGED <<client, worker, streams>>

Next ==
    \/ Observe \/ Relate \/ Close \/ CloseAgain
    \/ Main \/ Worker \/ Environment
    \/ OpenMissing \/ Interrupt \/ TerminateFails

Spec == Init /\ [][Next]_vars

(* The two threads run, and so does the reader: each of their waits has a  *)
(* deadline.  Nothing is assumed of clangd.                                *)
Fairness ==
    /\ WF_vars(Main) /\ WF_vars(Worker)
    /\ WF_vars(Read /\ UNCHANGED <<client, worker, streams>>)

FairSpec == Spec /\ Fairness

-----------------------------------------------------------------------------
(* Whatever clangd takes from the pipe that names a document finds it      *)
(* open, or closed in the case of didOpen, while the client is in order:   *)
(* the window, evictions and all, never lets a request reach a document    *)
(* that was closed, nor a document be opened twice (_open_document,        *)
(* _request).                                                              *)
FramesFindDocument ==
    out # <<>> /\ Head(out).doc # None /\ process = "running" =>
        IF Head(out).kind = "didOpen" THEN Head(out).doc \notin server.open
                                      ELSE Head(out).doc \in server.open

(* clangd never holds more open documents than the window, not even after  *)
(* an interrupt that lost track of one (MAX_OPEN_DOCUMENTS).               *)
WindowHolds == Cardinality(server.open) <= MaxOpenDocuments

(* The worker sends exit only when clangd has answered its shutdown, not   *)
(* on the strength of a late answer to a request that was given up.        *)
ExitAfterShutdown == worker.pc \in {"exit", "reap"} => server.down

(* When close returns, nothing of clangd is left: no process, no worker,   *)
(* no open pipe (_close_owned, and __init__ when it fails).                *)
CloseReleases ==
    pc = "closed" => /\ process = "gone" /\ streams = "closed"
                     /\ worker.pc \in {"none", "done"}

(* Every query and every close ends, whatever clangd does or fails to do.  *)
EveryCallEnds == pc \notin AtRest ~> pc \in AtRest

(* "Pipes are closed after the workers stop.  Close is idempotent" and     *)
(* "repeated calls must be safe" (SemanticProvider.close): once a repeated *)
(* close has returned and the process is gone, the pipes are closed.       *)
RepeatedCloseReleases == pc = "reclosed" /\ process = "gone" => streams = "closed"
=============================================================================
