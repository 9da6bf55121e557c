--------------------------- MODULE ClangdTransport ---------------------------
(***************************************************************************)
(* _JsonRpcTransport (repository/clangd.py) and the clangd process it      *)
(* talks to: two pipes, the thread that drains the standard output into a  *)
(* queue of responses, and the server that takes what is written in order. *)
(*                                                                         *)
(* A frame is a record; a notification of the server carries no id and is  *)
(* dropped by the reader thread, so the model has none.  The threads that  *)
(* write one frame each are folded into the step that writes: what remains *)
(* of them is that a full pipe blocks, and that a frame may still go out   *)
(* after its caller was interrupted (see ClangdProvider.Interrupt).        *)
(***************************************************************************)
EXTENDS Naturals, Sequences, FiniteSets

CONSTANTS
    NDocs,         \* repository files, numbered in the order of their URIs
    None,          \* "no value"
    PipeCapacity,  \* frames the standard input holds before a write blocks
    MaxFaults      \* bound: what the server and the environment do amiss

ASSUME TransportBounds == NDocs \in Nat /\ PipeCapacity \in Nat \ {0} /\ MaxFaults \in Nat

VARIABLES
    process,    \* the clangd process: "running" or "gone"
    out,        \* its standard input: frames written and not yet taken
    in,         \* its standard output: frames sent and not yet read
    server,     \* what clangd knows: open documents, shutdown answered
    responses,  \* the queue _responses
    reader,     \* the thread _drain_stdout is running
    issued,     \* request ids issued so far (_next_request_id - 1)
    faults      \* faults so far

transport == <<process, out, in, server, responses, reader, issued, faults>>

-----------------------------------------------------------------------------
Docs == 1..NDocs

(* What the client writes.  A request without a document names None.       *)
ToServer == [kind : {"request"}, id : Nat, doc : Docs \cup {None}]
              \cup [kind : {"shutdown", "exit", "reply"}, id : Nat, doc : {None}]
              \cup [kind : {"didOpen", "didClose"}, id : {0}, doc : Docs]

(* What clangd answers; "ask" is a request of the server's own, "garbage"  *)
(* a frame that does not parse.                                            *)
Answers == {"result", "unsupported", "error"}
FromServer == [kind : Answers \cup {"ask", "garbage"}, id : Nat]

(* What the reader queues: messages, or the exception that ended it.       *)
Response == FromServer \cup [kind : {"raised"}, id : {0}]

Frame(kind, id, doc) == [kind |-> kind, id |-> id, doc |-> doc]

TransportTypeOK ==
    /\ process \in {"running", "gone"}
    /\ out \in Seq(ToServer)
    /\ in \in Seq(FromServer)
    /\ server \in [open : SUBSET Docs, down : BOOLEAN]
    /\ responses \in Seq(Response)
    /\ reader \in BOOLEAN
    /\ issued \in Nat
    /\ faults \in 0..MaxFaults

TransportInit ==
    /\ process = "running" /\ reader = TRUE
    /\ out = <<>> /\ in = <<>> /\ responses = <<>>
    /\ server = [open |-> {}, down |-> FALSE]
    /\ issued = 0 /\ faults = 0

Fault == faults < MaxFaults /\ faults' = faults + 1

-----------------------------------------------------------------------------
(* What the client's threads do with the transport.                        *)

(* A write goes through, is refused at once by a process that is gone, or  *)
(* waits for room.                                                         *)
Written(frame) ==
    /\ process = "running" /\ Len(out) < PipeCapacity
    /\ out' = Append(out, frame)

Refused == process = "gone"
Blocked == process = "running" /\ Len(out) = PipeCapacity

(* The process ends, and what it has not read of its input with it.        *)
(*                                                                         *)
(* _raise_timeout: the deadline of a write or of an answer passes and the  *)
(* process is killed; the reader is left to meet the end of the pipe.      *)
Gone == process' = "gone" /\ out' = <<>>

Abort == Gone /\ UNCHANGED <<in, server, responses, reader, issued>>

Received == responses # <<>>
Response1 == Head(responses)

(* Mutant: the id of a response is not compared.                           *)
AnyAnswer(id) == Received /\ Response1.kind \in Answers

(* A response that ends the request waiting for id, and one that does not. *)
Answers1(id) == Received /\ Response1.kind \in Answers /\ Response1.id = id
Stale(id)    == Received /\ Response1.kind \in Answers /\ Response1.id # id
Raises1      == Received /\ Response1.kind = "raised"

Consume == responses' = Tail(responses)

(* What does not end the request: a stale answer is skipped, a request of  *)
(* the server is answered, whatever it asks, and the wait goes on.         *)
Skip(id) ==
    /\ \/ Stale(id) /\ UNCHANGED out
       \/ Received /\ Response1.kind = "ask" /\ Written(Frame("reply", Response1.id, None))
    /\ Consume
    /\ UNCHANGED <<process, in, server, reader, issued, faults>>

(* The wait ends without an answer: the reader's exception, or a reply the *)
(* process no longer takes.                                                *)
WaitFails ==
    /\ \/ Raises1
       \/ Received /\ Response1.kind = "ask" /\ Refused
    /\ Consume
    /\ UNCHANGED <<process, out, in, server, reader, issued, faults>>

-----------------------------------------------------------------------------
(* _drain_stdout: one frame, or the error that ends the thread.            *)
Read ==
    /\ reader
    /\ \/ /\ in # <<>> /\ Head(in).kind # "garbage"
          /\ responses' = Append(responses, Head(in))
          /\ in' = Tail(in) /\ UNCHANGED reader
       \/ /\ in = <<>> => process = "gone"
          /\ in # <<>> => Head(in).kind = "garbage"
          /\ responses' = Append(responses, [kind |-> "raised", id |-> 0])
          /\ reader' = FALSE /\ UNCHANGED in
    /\ UNCHANGED <<process, out, server, issued, faults>>

(* The documents clangd has open after a frame.                            *)
OpenAfter(frame, open) ==
    CASE frame.kind = "didOpen"  -> open \cup {frame.doc}
      [] frame.kind = "didClose" -> open \ {frame.doc}
      [] OTHER                   -> open

(* clangd takes the next frame.  Only requests are answered, in order.     *)
Serve ==
    /\ process = "running" /\ out # <<>>
    /\ LET frame == Head(out) IN
         /\ server' = [open |-> OpenAfter(frame, server.open),
                       down |-> server.down \/ frame.kind = "shutdown"]
         /\ IF frame.kind = "exit" THEN Gone
                                   ELSE out' = Tail(out) /\ UNCHANGED process
         /\ \/ /\ frame.kind \in {"request", "shutdown"}
               /\ \/ in' = Append(in, [kind |-> "result", id |-> frame.id]) /\ UNCHANGED faults
                  \/ /\ frame.kind = "request" /\ Fault
                     /\ \E kind \in {"unsupported", "error"} :
                          in' = Append(in, [kind |-> kind, id |-> frame.id])
            \/ frame.kind \notin {"request", "shutdown"} /\ UNCHANGED <<in, faults>>
    /\ UNCHANGED <<responses, reader, issued>>

(* clangd asks something itself, or sends a frame that does not parse.     *)
Interject ==
    /\ process = "running" /\ Fault
    /\ \E kind \in {"ask", "garbage"} : in' = Append(in, [kind |-> kind, id |-> 0])
    /\ UNCHANGED <<process, out, server, responses, reader, issued>>

(* clangd exits by itself.                                                 *)
Crash ==
    /\ process = "running" /\ Fault
    /\ Gone
    /\ UNCHANGED <<in, server, responses, reader, issued>>
=============================================================================
