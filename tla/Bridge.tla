------------------------------- MODULE Bridge -------------------------------
(***************************************************************************)
(* The connection between PostgreSQL backends and the hypergraph server.   *)
(*                                                                         *)
(* PostgresMain calls connectToHGDB before its query loop.  The function   *)
(* connects once, then reads a message from standard input, sends it and   *)
(* waits for an answer, for ever.  At the other end Server.connectToClient *)
(* accepts one client and answers its lines.                               *)
(*                                                                         *)
(* SIGTERM only sets a flag that neither loop of the backend looks at, so  *)
(* that a backend in connectToHGDB ends by SIGQUIT or a crash.             *)
(***************************************************************************)
EXTENDS Sequences, Naturals

CONSTANTS
    Backends,
    Inputs,    \* what fgets may find: a line, 499 bytes of a longer line,
               \* or the end of standard input
    Nobody     \* the server has no client

ASSUME BridgeAssumption ==
    /\ Inputs \subseteq {"line", "piece", "eof"}
    /\ Nobody \notin Backends

VARIABLES
    pc,        \* where a backend is
    sock,      \* the socket it opened
    message,   \* what it last read from standard input
    inbox,     \* what the server has not read of it
    outbox,    \* answers it has not read
    srv,       \* where the server is
    serving    \* the client the server accepted

vars == <<pc, sock, message, inbox, outbox, srv, serving>>
backend == <<pc, sock, message>>

TypeOK ==
    /\ pc \in [Backends -> {"start", "prompt", "recv", "gone"}]
    /\ sock \in [Backends -> {"none", "failed", "open", "broken", "closed", "reset"}]
    /\ message \in [Backends -> Inputs \cup {"none"}]
    /\ inbox \in [Backends -> Seq({"line", "piece"})]
    /\ outbox \in [Backends -> Seq({"SUCCESS", "FAIL"})]
    /\ srv \in {"down", "accepting", "reading", "SUCCESS", "FAIL"}
    /\ serving \in Backends \cup {Nobody}

Init ==
    /\ pc = [b \in Backends |-> "start"]
    /\ sock = [b \in Backends |-> "none"]
    /\ message = [b \in Backends |-> "none"]
    /\ inbox = [b \in Backends |-> <<>>]
    /\ outbox = [b \in Backends |-> <<>>]
    /\ srv = "down"
    /\ serving = Nobody

----------------------------------------------------------------------------
(* connectToHGDB.  The results of connect, send and recvfrom are ignored. *)

(* The listening socket stays open while the server serves a client, and
   the kernel completes the connections of others. *)
connect(b) ==
    /\ pc[b] = "start"
    /\ pc' = [pc EXCEPT ![b] = "prompt"]
    /\ sock' = [sock EXCEPT ![b] = IF srv = "down" THEN "failed" ELSE "open"]
    /\ UNCHANGED <<message, inbox, outbox, srv, serving>>

(* Mutant: what fgets left in the buffer is sent at the end of the input. *)
MutPromptSendsAll(b) ==
    /\ pc[b] = "prompt"
    /\ pc' = [pc EXCEPT ![b] = "recv"]
    /\ \E m \in Inputs :
           /\ message' = [message EXCEPT ![b] = m]
           /\ inbox' = IF sock[b] = "open"
                       THEN [inbox EXCEPT ![b] = Append(@, m)] ELSE inbox
    /\ UNCHANGED <<sock, outbox, srv, serving>>

(* fgets and send; at the end of the input there is nothing to send. *)
prompt(b) ==
    /\ pc[b] = "prompt"
    /\ pc' = [pc EXCEPT ![b] = "recv"]
    /\ \E m \in Inputs :
           /\ message' = [message EXCEPT ![b] = m]
           /\ inbox' = IF sock[b] = "open" /\ m # "eof"
                       THEN [inbox EXCEPT ![b] = Append(@, m)] ELSE inbox
    /\ UNCHANGED <<sock, outbox, srv, serving>>

(* recvfrom returns all there is; without a connection it returns at once. *)
recvfrom(b) ==
    /\ pc[b] = "recv"
    /\ outbox[b] # <<>> \/ sock[b] \in {"failed", "broken"}
    /\ pc' = [pc EXCEPT ![b] = "prompt"]
    /\ outbox' = [outbox EXCEPT ![b] = <<>>]
    /\ UNCHANGED <<sock, message, inbox, srv, serving>>

(* SIGQUIT or a crash.  A socket closed with unread data is reset. *)
quit(b) ==
    /\ pc[b] # "gone"
    /\ pc' = [pc EXCEPT ![b] = "gone"]
    /\ sock' = [sock EXCEPT ![b] = CASE @ # "open" -> "none"
                                     [] outbox[b] = <<>> -> "closed"
                                     [] OTHER -> "reset"]
    /\ outbox' = [outbox EXCEPT ![b] = <<>>]
    /\ UNCHANGED <<message, inbox, srv, serving>>

----------------------------------------------------------------------------
(* Server.connectToClient. *)

bind ==
    /\ srv = "down"
    /\ srv' = "accepting"
    /\ UNCHANGED <<backend, inbox, outbox, serving>>

accept ==
    /\ srv = "accepting"
    /\ \E b \in Backends :
           /\ sock[b] \in {"open", "closed", "reset"}
           /\ serving' = b
    /\ srv' = "reading"
    /\ UNCHANGED <<backend, inbox, outbox>>

Lines(s) == {i \in DOMAIN s : s[i] = "line"}
AfterLine(s) ==
    SubSeq(s, 1 + CHOOSE i \in Lines(s) : \A j \in Lines(s) : i <= j, Len(s))

(* Mutant: a line may have come in two parts, and both are answered. *)
MutReadPiece ==
    /\ srv = "reading"
    /\ inbox[serving] # <<>>
    /\ inbox' = [inbox EXCEPT ![serving] = IF Lines(@) = {} THEN @ ELSE AfterLine(@)]
    /\ srv' = "SUCCESS"
    /\ UNCHANGED <<backend, outbox, serving>>

(* Mutant: a line is read and not answered. *)
MutReadSilently ==
    /\ srv = "reading"
    /\ Lines(inbox[serving]) # {}
    /\ inbox' = [inbox EXCEPT ![serving] = AfterLine(@)]
    /\ UNCHANGED <<backend, srv, outbox, serving>>

(* readLine returns a line.  performOperation parses the same constant
   document each time and returns 1. *)
readLine ==
    /\ srv = "reading"
    /\ Lines(inbox[serving]) # {}
    /\ inbox' = [inbox EXCEPT ![serving] = AfterLine(@)]
    /\ srv' = "SUCCESS"
    /\ UNCHANGED <<backend, outbox, serving>>

(* The client has gone.  readLine returns what is left of a line, and null
   ever after; neither ends the loop. *)
readEnd ==
    /\ srv = "reading"
    /\ Lines(inbox[serving]) = {} /\ sock[serving] = "closed"
    /\ inbox' = [inbox EXCEPT ![serving] = <<>>]
    /\ srv' = IF inbox[serving] = <<>> THEN "FAIL" ELSE "SUCCESS"
    /\ UNCHANGED <<backend, outbox, serving>>

(* println; a PrintWriter swallows the error of a connection that is gone. *)
println ==
    /\ srv \in {"SUCCESS", "FAIL"}
    /\ outbox' = IF sock[serving] = "open"
                 THEN [outbox EXCEPT ![serving] = Append(@, srv)] ELSE outbox
    /\ srv' = "reading"
    /\ UNCHANGED <<backend, inbox, serving>>

(* The process of the server ends: it is killed, or readLine raises because
   the connection was reset.  Answers under way are lost when the server had
   something left to read. *)
down ==
    /\ srv # "down"
    /\ srv' = "down"
    /\ serving' = Nobody
    /\ sock' = [b \in Backends |-> CASE sock[b] = "open" -> "broken"
                                     [] sock[b] \in {"closed", "reset"} -> "none"
                                     [] OTHER -> sock[b]]
    /\ outbox' = [b \in Backends |-> IF inbox[b] = <<>> THEN outbox[b] ELSE <<>>]
    /\ inbox' = [b \in Backends |-> <<>>]
    /\ UNCHANGED <<pc, message>>

readRaises ==
    /\ srv = "reading"
    /\ Lines(inbox[serving]) = {} /\ sock[serving] = "reset"
    /\ down

BackendStep(b) == connect(b) \/ prompt(b) \/ recvfrom(b)
ServerStep == accept \/ readLine \/ readEnd \/ println \/ readRaises

Next ==
    \/ \E b \in Backends : BackendStep(b) \/ quit(b)
    \/ ServerStep \/ bind \/ down

(* Processes that can go on do; standard input has something or has ended. *)
Spec ==
    /\ Init /\ [][Next]_vars
    /\ \A b \in Backends : WF_vars(BackendStep(b))
    /\ WF_vars(ServerStep)

----------------------------------------------------------------------------
(* At most one message of a backend is under way, and none when the backend
   asks for the next: the answer it reads is the answer to what it has just
   sent, although both ends only count lines. *)
UnderWay(b) ==
    Len(inbox[b]) + Len(outbox[b])
        + IF serving = b /\ srv \in {"SUCCESS", "FAIL"} THEN 1 ELSE 0
InStep ==
    \A b \in Backends :
        /\ pc[b] = "recv" => UnderWay(b) <= 1
        /\ pc[b] \in {"start", "prompt"} => UnderWay(b) = 0

(* A backend and the server that serves it wait for each other only when the
   backend has sent something without an end of line, or nothing. *)
BothWait(b) ==
    /\ serving = b /\ srv = "reading" /\ Lines(inbox[b]) = {}
    /\ pc[b] = "recv" /\ sock[b] = "open" /\ outbox[b] = <<>>
WaitsHaveACause == \A b \in Backends : BothWait(b) => message[b] # "line"

(* A line of the backend that is served is answered, or its wait ends with
   one of the processes. *)
ServedLinesAreAnswered ==
    \A b \in Backends :
        serving = b /\ pc[b] = "recv" /\ message[b] = "line" ~> pc[b] # "recv"

(* What the comments of PostgresMain say of the loop after the call,
   "Non-error queries loop here" and "(1) If we've reached idle state, tell
   the frontend we're ready for a new query": a backend that has started gets
   there, or ends. *)
BackendsGetReady ==
    \A b \in Backends : pc[b] = "start" ~> pc[b] \in {"loop", "gone"}

============================================================================
