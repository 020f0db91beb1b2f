---------------------------- MODULE BridgeProofs ----------------------------
(***************************************************************************)
(* Requests and answers between connectToHGDB and Server.connectToClient   *)
(* stay in step, for any number of backends.                               *)
(***************************************************************************)
EXTENDS Bridge, TLAPS

Answering(b) == serving = b /\ srv \in {"SUCCESS", "FAIL"}

(* Nothing of a backend is under way. *)
Quiet(b) == inbox[b] = <<>> /\ outbox[b] = <<>> /\ ~Answering(b)

(* What it sent has not been read; it has been read; it has been answered. *)
Sent(b) ==
    /\ message[b] \in {"line", "piece"} /\ inbox[b] = <<message[b]>>
    /\ outbox[b] = <<>> /\ ~Answering(b)
BeingAnswered(b) == inbox[b] = <<>> /\ outbox[b] = <<>> /\ Answering(b)
Answered(b) ==
    /\ inbox[b] = <<>> /\ ~Answering(b)
    /\ \E a \in {"SUCCESS", "FAIL"} : outbox[b] = <<a>>

(* The server has a client exactly while it serves it, and a client has made
   a connection. *)
ServingInv ==
    /\ serving = Nobody <=> srv \in {"down", "accepting"}
    /\ serving # Nobody => sock[serving] \in {"open", "closed", "reset"}

(* The socket of a backend fits where it is, and nobody is left to read what
   is under way without a connection or without a backend. *)
SockInv(b) ==
    /\ sock[b] \in {"failed", "open", "broken"} => pc[b] \in {"prompt", "recv"}
    /\ sock[b] \in {"closed", "reset"} => pc[b] = "gone"
    /\ pc[b] \in {"prompt", "recv"} => sock[b] \in {"failed", "open", "broken"}
    /\ sock[b] \in {"failed", "broken"} => inbox[b] = <<>>
    /\ pc[b] = "gone" => outbox[b] = <<>>

(* One request at a time, and none while the backend asks for the next. *)
TurnInv(b) ==
    /\ Quiet(b) \/ Sent(b) \/ BeingAnswered(b) \/ Answered(b)
    /\ pc[b] \in {"start", "prompt"} => Quiet(b)
    /\ pc[b] = "recv" /\ sock[b] = "open" /\ message[b] = "line" => ~Quiet(b)

BridgeInv ==
    /\ TypeOK
    /\ ServingInv
    /\ \A b \in Backends : SockInv(b) /\ TurnInv(b)

----------------------------------------------------------------------------
(* A queue holds a whole line or it does not. *)
LEMMA LinesOfNothing == Lines(<<>>) = {}
BY DEF Lines

LEMMA LinesOfPiece == Lines(<<"piece">>) = {}
BY DEF Lines

LEMMA LinesOfLine == Lines(<<"line">>) = {1}
BY DEF Lines

(* Nothing is left of a line that readLine has taken. *)
LEMMA AfterOneLine == AfterLine(<<"line">>) = <<>>
<1> DEFINE first == CHOOSE i \in Lines(<<"line">>) : \A j \in Lines(<<"line">>) : i <= j
<1>1. first \in Lines(<<"line">>)
  BY LinesOfLine
<1>2. AfterLine(<<"line">>) = SubSeq(<<"line">>, 1 + first, Len(<<"line">>))
  BY DEF AfterLine
<1> HIDE DEF first
<1>3. first = 1
  BY <1>1, LinesOfLine
<1>4. SubSeq(<<"line">>, 2, 1) = <<>>
  OBVIOUS
<1>5. Len(<<"line">>) = 1
  OBVIOUS
<1>6. 1 + first = 2
  BY <1>3
<1> QED
  BY <1>2, <1>4, <1>5, <1>6

----------------------------------------------------------------------------
(* The handlers of the two programs keep the invariant. *)

LEMMA BridgeInit == Init => BridgeInv
BY BridgeAssumption DEF Init, BridgeInv, TypeOK, ServingInv, SockInv, TurnInv, Quiet,
   Answering

LEMMA ConnectKeeps ==
    ASSUME BridgeInv, NEW b \in Backends, connect(b) PROVE BridgeInv'
<1>1. TypeOK' /\ ServingInv'
  BY DEF connect, BridgeInv, TypeOK, ServingInv, SockInv
<1>2. ASSUME NEW c \in Backends PROVE SockInv(c)' /\ TurnInv(c)'
  BY DEF connect, BridgeInv, TypeOK, SockInv, TurnInv, Quiet, Sent, BeingAnswered,
     Answered, Answering
<1> QED
  BY <1>1, <1>2 DEF BridgeInv

LEMMA PromptKeeps ==
    ASSUME BridgeInv, NEW b \in Backends, prompt(b) PROVE BridgeInv'
<1>1. PICK m \in Inputs :
         /\ message' = [message EXCEPT ![b] = m]
         /\ inbox' = IF sock[b] = "open" /\ m # "eof"
                     THEN [inbox EXCEPT ![b] = Append(@, m)] ELSE inbox
  BY DEF prompt
<1>2. Quiet(b) /\ sock[b] \in {"failed", "open", "broken"}
  BY DEF prompt, BridgeInv, TurnInv, SockInv
<1>3. m \in {"line", "piece", "eof"}
  BY BridgeAssumption
<1>4. sock[b] = "open" /\ m # "eof" => inbox'[b] = <<m>>
  BY <1>1, <1>2 DEF BridgeInv, TypeOK, Quiet
<1>5. ~(sock[b] = "open" /\ m # "eof") => inbox' = inbox
  BY <1>1
<1>6. \A c \in Backends \ {b} : inbox'[c] = inbox[c] /\ message'[c] = message[c]
  BY <1>1 DEF BridgeInv, TypeOK
<1>7. message'[b] = m /\ message' \in [Backends -> Inputs \cup {"none"}]
  BY <1>1 DEF BridgeInv, TypeOK
<1>8. inbox' \in [Backends -> Seq({"line", "piece"})]
  <2>1. CASE sock[b] = "open" /\ m # "eof"
    <3>1. Append(inbox[b], m) \in Seq({"line", "piece"})
      BY <2>1, <1>3 DEF BridgeInv, TypeOK
    <3> QED
      BY <3>1, <2>1, <1>1 DEF BridgeInv, TypeOK
  <2>2. CASE ~(sock[b] = "open" /\ m # "eof")
    BY <2>2, <1>5 DEF BridgeInv, TypeOK
  <2> QED
    BY <2>1, <2>2
<1>9. TypeOK' /\ ServingInv'
  BY <1>7, <1>8 DEF prompt, BridgeInv, TypeOK, ServingInv
<1>10. ASSUME NEW c \in Backends PROVE SockInv(c)'
  BY <1>2 DEF prompt, BridgeInv, TypeOK, SockInv
<1>11. TurnInv(b)'
  BY <1>2, <1>3, <1>4, <1>5, <1>7
     DEF prompt, BridgeInv, TypeOK, TurnInv, Quiet, Sent, Answering
<1>12. ASSUME NEW c \in Backends, c # b PROVE TurnInv(c)'
  BY <1>6, <1>12 DEF prompt, BridgeInv, TypeOK, TurnInv, Quiet, Sent, BeingAnswered,
     Answered, Answering
<1> QED
  BY <1>9, <1>10, <1>11, <1>12 DEF BridgeInv

LEMMA RecvKeeps ==
    ASSUME BridgeInv, NEW b \in Backends, recvfrom(b) PROVE BridgeInv'
<1>1. TypeOK' /\ ServingInv'
  BY DEF recvfrom, BridgeInv, TypeOK, ServingInv
<1>2. ASSUME NEW c \in Backends PROVE SockInv(c)'
  BY DEF recvfrom, BridgeInv, TypeOK, SockInv
<1>3. Answered(b) \/ sock[b] \in {"failed", "broken"}
  BY DEF recvfrom, BridgeInv, TurnInv, SockInv, Quiet, Sent, BeingAnswered
<1>4. TurnInv(b)'
  BY <1>3 DEF recvfrom, BridgeInv, TypeOK, TurnInv, SockInv, ServingInv, Quiet,
     Sent, BeingAnswered, Answered, Answering
<1>5. ASSUME NEW c \in Backends, c # b PROVE TurnInv(c)'
  BY <1>5 DEF recvfrom, BridgeInv, TypeOK, TurnInv, Quiet, Sent, BeingAnswered,
     Answered, Answering
<1> QED
  BY <1>1, <1>2, <1>4, <1>5 DEF BridgeInv

(* Once a backend has gone its connection has no answers, and the server may
   still read what it sent. *)
LEMMA QuitKeeps ==
    ASSUME BridgeInv, NEW b \in Backends, quit(b) PROVE BridgeInv'
<1> QED
  BY DEF quit, BridgeInv, TypeOK, TurnInv, SockInv, ServingInv, Quiet,
     Sent, BeingAnswered, Answered, Answering

LEMMA BindKeeps == BridgeInv /\ bind => BridgeInv'
BY DEF bind, backend, BridgeInv, TypeOK, ServingInv, SockInv, TurnInv, Quiet, Sent,
   BeingAnswered, Answered, Answering

LEMMA AcceptKeeps == BridgeInv /\ accept => BridgeInv'
BY BridgeAssumption DEF accept, backend, BridgeInv, TypeOK, ServingInv, SockInv, TurnInv, Quiet, Sent,
   BeingAnswered, Answered, Answering

(* The answer is the first thing in the way to a backend that waits for it. *)
LEMMA PrintlnKeeps == ASSUME BridgeInv, println PROVE BridgeInv'
<1>0. PICK b \in Backends : b = serving
  BY BridgeAssumption DEF println, BridgeInv, TypeOK, ServingInv
<1>1. Answering(b) /\ BeingAnswered(b)
  BY <1>0, BridgeAssumption DEF println, BridgeInv, TypeOK, ServingInv, TurnInv, Answering,
     Quiet, Sent, Answered
<1>2. CASE sock[b] = "open"
  <2>1. outbox' = [outbox EXCEPT ![b] = <<srv>>]
    BY <1>0, <1>1, <1>2 DEF println, BridgeInv, TypeOK, BeingAnswered
  <2>2. <<srv>> \in Seq({"SUCCESS", "FAIL"})
    BY <1>0 DEF println
  <2>3. TypeOK' /\ ServingInv'
    BY <1>0, <1>1, <2>1, <2>2, BridgeAssumption
       DEF println, backend, BridgeInv, TypeOK, ServingInv
  <2>4. ASSUME NEW c \in Backends PROVE SockInv(c)'
    BY <1>0 DEF println, backend, BridgeInv, SockInv
  <2>5. TurnInv(b)'
    BY <1>0, <1>1, <1>2, <2>1 DEF println, backend, BridgeInv, TypeOK, TurnInv, SockInv,
       Quiet, BeingAnswered, Answered, Answering
  <2>6. ASSUME NEW c \in Backends, c # b PROVE TurnInv(c)'
    BY <1>0, <2>1, <2>6 DEF println, backend, BridgeInv, TypeOK, TurnInv, Quiet, Sent,
       BeingAnswered, Answered, Answering
  <2> QED
    BY <1>0, <2>3, <2>4, <2>5, <2>6 DEF BridgeInv
<1>3. CASE sock[b] # "open"
  BY <1>0, <1>1, <1>3, BridgeAssumption
     DEF println, backend, BridgeInv, TypeOK, ServingInv, SockInv, TurnInv, Quiet, Sent,
     BeingAnswered, Answered, Answering
<1> QED
  BY <1>0, <1>2, <1>3

(* What readLine takes is the one line the backend has sent. *)
LEMMA ReadLineKeeps == ASSUME BridgeInv, readLine PROVE BridgeInv'
<1>0. PICK b \in Backends : b = serving
  BY BridgeAssumption DEF readLine, BridgeInv, TypeOK, ServingInv
<1>1. ~Answering(b) /\ inbox[b] # <<>>
  BY <1>0, BridgeAssumption, LinesOfNothing
     DEF readLine, BridgeInv, TypeOK, ServingInv, Answering
<1>2. Sent(b)
  BY <1>0, <1>1 DEF BridgeInv, TurnInv, Quiet, BeingAnswered, Answered
<1>3. inbox[b] = <<"line">>
  BY <1>0, <1>2, LinesOfPiece DEF readLine, Sent
<1>4. inbox' = [inbox EXCEPT ![b] = <<>>]
  BY <1>0, <1>1, <1>3, AfterOneLine DEF readLine, BridgeInv, TypeOK
<1>5. TypeOK' /\ ServingInv'
  BY <1>0, <1>1, <1>4, BridgeAssumption DEF readLine, backend, BridgeInv, TypeOK, ServingInv
<1>6. ASSUME NEW c \in Backends PROVE SockInv(c)'
  BY <1>0, <1>4 DEF readLine, backend, BridgeInv, TypeOK, SockInv
<1>7. TurnInv(b)'
  BY <1>0, <1>1, <1>2, <1>4 DEF readLine, backend, BridgeInv, TypeOK, TurnInv, Quiet, Sent,
     BeingAnswered, Answering
<1>8. ASSUME NEW c \in Backends, c # b PROVE TurnInv(c)'
  BY <1>0, <1>4, <1>8 DEF readLine, backend, BridgeInv, TypeOK, TurnInv, Quiet, Sent,
     BeingAnswered, Answered, Answering
<1> QED
  BY <1>0, <1>5, <1>6, <1>7, <1>8 DEF BridgeInv

(* The end of the input of a backend that has gone. *)
LEMMA ReadEndKeeps == ASSUME BridgeInv, readEnd PROVE BridgeInv'
<1>0. PICK b \in Backends : b = serving
  BY BridgeAssumption DEF readEnd, BridgeInv, TypeOK, ServingInv
<1>1. /\ ~Answering(b)
      /\ pc[b] = "gone" /\ sock[b] = "closed" /\ outbox[b] = <<>>
  BY <1>0, BridgeAssumption
     DEF readEnd, BridgeInv, TypeOK, ServingInv, SockInv, Answering
<1>2. inbox' = [inbox EXCEPT ![b] = <<>>]
  BY <1>0 DEF readEnd
<1>5. TypeOK' /\ ServingInv'
  BY <1>0, <1>1, <1>2, BridgeAssumption DEF readEnd, backend, BridgeInv, TypeOK, ServingInv
<1>6. ASSUME NEW c \in Backends PROVE SockInv(c)'
  BY <1>0, <1>2 DEF readEnd, backend, BridgeInv, TypeOK, SockInv
<1>7. TurnInv(b)'
  BY <1>0, <1>1, <1>2 DEF readEnd, backend, BridgeInv, TypeOK, TurnInv, BeingAnswered, Answering
<1>8. ASSUME NEW c \in Backends, c # b PROVE TurnInv(c)'
  BY <1>0, <1>2, <1>8 DEF readEnd, backend, BridgeInv, TypeOK, TurnInv, Quiet, Sent,
     BeingAnswered, Answered, Answering
<1> QED
  BY <1>0, <1>5, <1>6, <1>7, <1>8 DEF BridgeInv

(* Without a server nothing is being answered, and an answer that was under
   way arrives or is lost. *)
LEMMA DownKeeps == ASSUME BridgeInv, down PROVE BridgeInv'
<1>1. TypeOK' /\ ServingInv'
  BY DEF down, BridgeInv, TypeOK, ServingInv
<1>2. ASSUME NEW c \in Backends PROVE SockInv(c)'
  BY DEF down, BridgeInv, TypeOK, SockInv
<1>3. ASSUME NEW c \in Backends PROVE TurnInv(c)'
  <2>1. ~Answering(c)' /\ inbox'[c] = <<>> /\ sock'[c] # "open"
    BY BridgeAssumption DEF down, Answering, BridgeInv, TypeOK
  <2>2. outbox'[c] \in {outbox[c], <<>>} /\ pc'[c] = pc[c]
    BY DEF down
  <2> QED
    BY <2>1, <2>2 DEF BridgeInv, TurnInv, Quiet, Sent, BeingAnswered, Answered
<1> QED
  BY <1>1, <1>2, <1>3 DEF BridgeInv

(* BridgeInv is inductive. *)
LEMMA BridgeStep == BridgeInv /\ [Next]_vars => BridgeInv'
<1> SUFFICES ASSUME BridgeInv, [Next]_vars PROVE BridgeInv'
  OBVIOUS
<1>1. ASSUME NEW b \in Backends, BackendStep(b) \/ quit(b) PROVE BridgeInv'
  BY <1>1, ConnectKeeps, PromptKeeps, RecvKeeps, QuitKeeps DEF BackendStep
<1>2. CASE ServerStep \/ bind \/ down
  BY <1>2, BindKeeps, AcceptKeeps, ReadLineKeeps, ReadEndKeeps, PrintlnKeeps, DownKeeps
     DEF ServerStep, readRaises
<1>3. CASE UNCHANGED vars
  BY <1>3 DEF vars, BridgeInv, TypeOK, ServingInv, SockInv, TurnInv, Quiet, Sent,
     BeingAnswered, Answered, Answering
<1> QED
  BY <1>1, <1>2, <1>3 DEF Next

LEMMA BridgeInvariant == Spec => []BridgeInv
BY BridgeInit, BridgeStep, PTL DEF Spec

----------------------------------------------------------------------------
(* The types of the sockets, queues and processes, for any number of backends
   and any mix of inputs of connectToHGDB. *)
THEOREM BridgeTypeCorrect == Spec => []TypeOK
<1>1. BridgeInv => TypeOK
  BY DEF BridgeInv
<1> QED
  BY <1>1, BridgeInvariant, PTL

(* At most one request of a backend is under way, and none when it asks for
   the next: an answer of connectToClient is never taken for that of another
   request, although nothing numbers them. *)
THEOREM InStepHolds == Spec => []InStep
<1>1. BridgeInv => InStep
  <2> SUFFICES ASSUME BridgeInv, NEW b \in Backends
               PROVE  /\ pc[b] = "recv" => UnderWay(b) <= 1
                      /\ pc[b] \in {"start", "prompt"} => UnderWay(b) = 0
    BY DEF InStep
  <2>1. Quiet(b) => UnderWay(b) = 0
    BY DEF Quiet, UnderWay, Answering
  <2>2. Sent(b) => UnderWay(b) = 1
    BY DEF Sent, UnderWay, Answering
  <2>3. BeingAnswered(b) => UnderWay(b) = 1
    BY DEF BeingAnswered, UnderWay, Answering
  <2>4. Answered(b) => UnderWay(b) = 1
    BY DEF Answered, UnderWay, Answering
  <2> QED
    BY <2>1, <2>2, <2>3, <2>4 DEF BridgeInv, TurnInv
<1> QED
  BY <1>1, BridgeInvariant, PTL

(* A backend and the server that serves it only wait for each other after a
   message without an end of line: readLine never sits on a whole line. *)
THEOREM WaitsHaveACauseHolds == Spec => []WaitsHaveACause
<1>1. BridgeInv => WaitsHaveACause
  BY LinesOfLine DEF BridgeInv, TurnInv, WaitsHaveACause, BothWait, Quiet, Sent,
     BeingAnswered, Answered, Answering
<1> QED
  BY <1>1, BridgeInvariant, PTL

=============================================================================
