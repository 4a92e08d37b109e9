------------------------------- MODULE NetInput -------------------------------
(***************************************************************************)
(* A disc on a server (the sacd_net_input functions of sacd_input.c, with  *)
(* the reader of sacd_reader.c above them and the socket below).  A call   *)
(* sends one request and waits for one answer; neither carries a number,   *)
(* so what belongs together is told by the order alone.                    *)
(*                                                                         *)
(* Messages are whole here: their bytes are the subject of PbMessages.  A  *)
(* sector is told from the others by its place on the disc.  The server    *)
(* and the memory are the environment: it may go away at any time, answer  *)
(* with an error, or with a message that pb_decode gives up on halfway.    *)
(***************************************************************************)
EXTENDS Integers, Sequences

CONSTANTS Total,         \* sectors of the disc on the server
          MaxRead,       \* bound: sectors asked for at once
          MaxRejected    \* bound: answers given up halfway

NetAssumption == {Total, MaxRead} \subseteq Nat \ {0} /\ MaxRejected \in Nat

VARIABLES pc, call,      \* where the caller is, and the call that it makes
          held,          \* what it must give back: memory and the descriptor
          fd,            \* dev->fd: "stdin" is the 0 that calloc puts there
          stdin,         \* whether the process still has its standard input
          link,          \* the connection: "none", "up", or "down"
          toServer, toClient,
          rejected,      \* how many answers were given up halfway
          buffer, value  \* what the last read put into the buffer and returned

vars == <<pc, call, held, fd, stdin, link, toServer, toClient, rejected, buffer, value>>

Smaller(a, b) == IF a <= b THEN a ELSE b
Positions == 0..Total - 1
Request(type, pos, count) == [type |-> type, pos |-> pos, count |-> count]
Requests == [type : {"open", "size", "read", "close"}, pos : Positions, count : 1..MaxRead]
Message(type, result, data) == [type |-> type, result |-> result, data |-> data]
Rest == Message("rest", 0, <<>>)
NoCall == Request("none", 0, 1)
\* The fields that a call does not assign are whatever the stack holds.
Uninitialised(type) == {Request(type, pos, 1) : pos \in Positions}

Init == /\ pc = "closed" /\ call = NoCall /\ held = {} /\ fd = "stdin" /\ stdin = TRUE
        /\ link = "none" /\ toServer = <<>> /\ toClient = <<>> /\ rejected = 0
        /\ buffer = <<>> /\ value = 0

connection == <<link, toServer, toClient, rejected>>
answer == <<buffer, value>>
-----------------------------------------------------------------------------
(* Opening: sacd_open_image_file calls sacd_net_input_open.                *)

\* The structure: without it there is nothing to open.
Allocate == /\ pc = "closed"
            /\ \/ UNCHANGED <<pc, held, fd>>
               \/ pc' = "buffer" /\ held' = {"device"} /\ fd' = "stdin"
            /\ UNCHANGED <<call, stdin, connection, answer>>

\* Without memory for the buffer the device is closed before it has a socket.
AllocateBuffer == /\ pc = "buffer"
                  /\ \/ pc' = "close" /\ UNCHANGED held
                     \/ pc' = "socket" /\ held' = held \cup {"buffer"}
                  /\ UNCHANGED <<call, fd, stdin, connection, answer>>

CreateSocket == /\ pc = "socket" /\ pc' = "connect"
                /\ \/ fd' = "invalid" /\ UNCHANGED held
                   \/ fd' = "socket" /\ held' = held \cup {"socket"}
                /\ UNCHANGED <<call, stdin, connection, answer>>

Connect == /\ pc = "connect"
           /\ \/ pc' = "close" /\ UNCHANGED link
              \/ fd = "socket" /\ pc' = "open" /\ link' = "up"
           /\ UNCHANGED <<call, held, fd, stdin, toServer, toClient, rejected, answer>>

\* The reader above the device.
AllocateReader == /\ pc = "reader"
                  /\ \/ pc' = "close" /\ UNCHANGED held
                     \/ pc' = "idle" /\ held' = held \cup {"reader"}
                  /\ UNCHANGED <<call, fd, stdin, connection, answer>>
-----------------------------------------------------------------------------
(* A call: its request, and its answer or the lack of one.                 *)

\* Where each of them goes on without an answer that it can use.
Failed(request) == IF request.type = "open" THEN "close"
                   ELSE IF request.type = "close" THEN "free" ELSE "idle"

\* Both are seen as 0 by the caller, whatever the buffer holds by then.
Fail == pc' = Failed(call) /\ value' = 0 /\ UNCHANGED fd

\* To a server that has just gone away a message can still be sent.
Send(request) ==
    /\ call' = request /\ buffer' = <<>> /\ value' = 0
    /\ \/ /\ fd = "socket" /\ link \in {"up", "down"}
          /\ toServer' = IF link = "up" THEN Append(toServer, request) ELSE toServer
          /\ pc' = "answer"
       \/ /\ fd # "socket" \/ link # "up"
          /\ pc' = Failed(request) /\ UNCHANGED toServer
    /\ UNCHANGED <<held, fd, stdin, link, toClient, rejected>>

SendOpen == pc = "open" /\ \E r \in Uninitialised("open") : Send(r)
TotalSectors == pc = "idle" /\ \E r \in Uninitialised("size") : Send(r)
ReadBlocks == pc = "idle" /\ \E pos \in Positions, count \in 1..MaxRead :
                 pos + count <= Total /\ Send(Request("read", pos, count))

\* sacd_close, or the close with which an open that failed ends.
CloseIdle == pc = "idle" /\ pc' = "close"
             /\ UNCHANGED <<call, held, fd, stdin, connection, answer>>
SendClose == pc = "close" /\ \E r \in Uninitialised("close") : Send(r)

\* What each call makes of an answer that could be decoded: its data go into the
\* buffer of a read before its type is looked at.
Accept(a) ==
    /\ pc' = IF call.type = "open" THEN (IF a.type = "open" /\ a.result = 0 THEN "reader" ELSE "close") ELSE Failed(call)
    /\ value' = IF a.type = call.type /\ (call.type = "read" => a.data # <<>>) THEN a.result ELSE 0
    /\ buffer' = IF call.type = "read" THEN a.data ELSE <<>>

\* Mutant of Receive: the end of the connection is not an answer.
ReceiveForever ==
    /\ pc = "answer" /\ toClient # <<>>
    /\ toClient' = Tail(toClient)
    /\ IF Head(toClient) = Rest THEN Fail /\ UNCHANGED buffer ELSE Accept(Head(toClient)) /\ UNCHANGED fd
    /\ UNCHANGED <<call, held, stdin, link, toServer, rejected>>

\* Mutant of Receive: the zero tag that ends an answer is not read.
ReceiveUpToTheEnd ==
    /\ pc = "answer"
    /\ IF toClient = <<>> THEN link = "down" /\ Fail /\ UNCHANGED <<buffer, toClient>>
       ELSE IF Head(toClient) = Rest THEN toClient' = Tail(toClient) /\ Fail /\ UNCHANGED buffer
       ELSE toClient' = <<Rest>> \o Tail(toClient) /\ Accept(Head(toClient)) /\ UNCHANGED fd
    /\ UNCHANGED <<call, held, stdin, link, toServer, rejected>>

\* pb_decode on the socket; it waits for the server without a limit.
Receive ==
    /\ pc = "answer"
    /\ IF toClient = <<>> THEN link = "down" /\ Fail /\ UNCHANGED <<buffer, toClient>>
       ELSE /\ toClient' = Tail(toClient)
            /\ IF Head(toClient) = Rest THEN Fail /\ UNCHANGED buffer ELSE Accept(Head(toClient)) /\ UNCHANGED fd
    /\ UNCHANGED <<call, held, stdin, link, toServer, rejected>>

\* pb_decode gives up in the middle of an answer and leaves the rest unread; a
\* part of its data may be in the buffer.
Reject ==
    /\ pc = "answer" /\ toClient # <<>> /\ Head(toClient) # Rest /\ rejected < MaxRejected
    /\ toClient' = <<Rest>> \o Tail(toClient)
    /\ rejected' = rejected + 1 /\ Fail
    /\ \E n \in 0..Len(Head(toClient).data) : buffer' = IF call.type = "read" THEN SubSeq(Head(toClient).data, 1, n) ELSE <<>>
    /\ UNCHANGED <<call, held, stdin, link, toServer>>

\* The end of sacd_net_input_close, and sacd_close: whatever the server said.
Free == /\ pc = "free" /\ pc' = "closed"
        /\ held' = {} /\ fd' = "invalid"
        /\ stdin' = (stdin /\ fd # "stdin")
        /\ link' = "none" /\ toServer' = <<>> /\ toClient' = <<>> /\ rejected' = 0
        /\ UNCHANGED <<call, answer>>
-----------------------------------------------------------------------------
(* The server, as the client relies on it: sectors from the place that was *)
(* asked for, and as its result how many; or an error.                     *)

Answers(r) ==
    {Message("error", 0, <<>>)} \cup
    IF r.type = "read" THEN {Message("read", n, [i \in 1..n |-> r.pos + i - 1]) : n \in 0..r.count}
    ELSE IF r.type = "size" THEN {Message("size", Total, <<>>)}
    ELSE IF r.type = "open" THEN {Message("open", 0, <<>>), Message("open", 1, <<>>)}
    ELSE {Message("close", 0, <<>>)}

Answer == /\ link = "up" /\ toServer # <<>>
          /\ \E a \in Answers(Head(toServer)) : toClient' = Append(toClient, a)
          /\ toServer' = Tail(toServer)
          /\ UNCHANGED <<pc, call, held, fd, stdin, link, rejected, answer>>

\* What was on its way may still arrive.
GoAway == /\ link = "up" /\ link' = "down" /\ toServer' = <<>>
          /\ toClient' \in {toClient, <<>>}
          /\ UNCHANGED <<pc, call, held, fd, stdin, rejected, answer>>
-----------------------------------------------------------------------------
Caller == \/ AllocateBuffer \/ CreateSocket \/ Connect \/ AllocateReader
          \/ SendOpen \/ SendClose \/ Receive \/ Reject \/ Free
Next == Allocate \/ TotalSectors \/ ReadBlocks \/ CloseIdle \/ Caller \/ Answer \/ GoAway

\* A call that began is carried on with; a server that is there answers.
Spec == Init /\ [][Next]_vars /\ WF_vars(Caller) /\ WF_vars(Answer)
-----------------------------------------------------------------------------
(* Properties.                                                             *)

NetTypeOK ==
    /\ pc \in {"closed", "buffer", "socket", "connect", "open", "reader", "idle", "answer", "close", "free"}
    /\ call \in Requests \cup {NoCall} /\ held \subseteq {"device", "buffer", "socket", "reader"}
    /\ fd \in {"stdin", "invalid", "socket"} /\ link \in {"none", "up", "down"}
    /\ \A i \in 1..Len(toServer) : toServer[i] \in Requests
    /\ Len(buffer) <= MaxRead /\ value \in Nat /\ rejected \in 0..MaxRejected

\* While no answer was rejected, client and server are in step: between two calls
\* nothing is on its way, and the sectors that a read reports are the ones it was
\* asked for and are all in the buffer, though answers carry no number.
ReadsAreAnswered ==
    rejected = 0 =>
      /\ pc \in {"idle", "reader"} => toServer = <<>> /\ toClient = <<>>
      /\ pc = "idle" /\ call.type = "read" =>
           /\ value \in 0..Smaller(call.count, Len(buffer))
           /\ \A i \in 1..value : buffer[i] = call.pos + i - 1
      /\ pc = "idle" /\ call.type = "size" => value \in {0, Total}

\* However opening or closing ends, with the server there or gone, a device that
\* is closed holds no memory and no socket, and one that is open holds all.
ClosedHoldsNothing ==
    /\ pc = "closed" => held = {} /\ link = "none"
    /\ pc = "idle" => held = {"device", "buffer", "socket", "reader"}

\* A call comes to its end, also when the server goes away under it or stops
\* making sense.
CallsReturn == pc = "answer" ~> pc \in {"idle", "closed"}
==============================================================================
