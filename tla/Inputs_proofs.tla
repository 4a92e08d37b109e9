---------------------------- MODULE Inputs_proofs ----------------------------
(***************************************************************************)
(* The disc inputs and the tables, for images, servers and discs of any    *)
(* size: a read gives the sectors that were asked for, the tables are      *)
(* found where a disc has them, and closing gives back what opening took.  *)
(***************************************************************************)
EXTENDS MCInputs, FiniteSetTheorems, WellFoundedInduction, TLAPS

\* Unless a seek was missed the file stands where the request wants it.
SeekIsRight == pc = "reading" => result = 0 /\ (~missed => filePos = request.pos * LsnSize)

IInv == TypeOK /\ SeekIsRight /\ ReadsTheBlocksAskedFor

\* On such an image the offset of a sector is what it should be, however the
\* build multiplies.
LEMMA OffsetIsExact ==
    ASSUME ImageSize <= IntRange, NEW pos \in 0..Sectors - 1
    PROVE  /\ Offsets(pos) = {pos * LsnSize}
           /\ pos * LsnSize \in 0..ImageSize
  <1>1. /\ pos \in Nat /\ pos + 1 <= Sectors
        /\ Sectors \in Nat /\ Sectors * LsnSize <= ImageSize
    BY LsnAssumption, ImageAssumption DEF Sectors
  <1>2. (pos + 1) * LsnSize <= Sectors * LsnSize
    BY <1>1, LsnAssumption
  <1>3. pos * LsnSize \in Nat /\ pos * LsnSize < ImageSize
    BY <1>1, <1>2, LsnAssumption, ImageAssumption
  <1>4. \A n \in Nat : n < IntRange => Wrapped(n) = n
    BY IntAssumption DEF Wrapped
  <1> QED BY <1>3, <1>4, ImageAssumption, IntAssumption DEF Offsets

LEMMA InitHolds == Init => IInv
  <1>1. 0 * LsnSize = 0 /\ 1..0 = {}
    BY LsnAssumption
  <1>2. Init => SeekIsRight
    BY DEF Init, SeekIsRight
  <1>3. Init => TypeOK
    <2>1. NoRequest \in [pos : Nat, blocks : Nat] /\ 0 \in 0..ImageSize
      BY ImageAssumption DEF NoRequest
    <2>2. Init => missed \in BOOLEAN
      BY Zenon DEF Init
    <2>3. <<>> \in Seq(Nat) /\ 0 \in Nat
      OBVIOUS
    <2> QED BY <2>1, <2>2, <2>3 DEF Init, TypeOK
  <1>4. Init => ReadsTheBlocksAskedFor
    BY <1>1, LsnAssumption DEF Init, ReadsTheBlocksAskedFor, NoRequest
  <1> QED BY <1>2, <1>3, <1>4 DEF IInv

LEMMA SeekKeepsIInv ==
    ASSUME ImageSize <= IntRange, IInv,
           NEW pos \in 0..Sectors - 1, NEW blocks \in 1..MaxBlocks, Seek(pos, blocks)
    PROVE  IInv'
  <1>0. filePos \in 0..ImageSize
    BY DEF IInv, TypeOK
  <1>1. PICK refuses \in BOOLEAN :
           /\ filePos' = IF refuses THEN filePos ELSE pos * LsnSize
           /\ missed' = (refuses /\ pos * LsnSize # filePos)
    BY OffsetIsExact DEF Seek
  <1>a. filePos' \in 0..ImageSize /\ missed' \in BOOLEAN /\ (~missed' => filePos' = pos * LsnSize)
    BY <1>0, <1>1, OffsetIsExact
  <1>2. pos \in Nat /\ blocks \in Nat
    BY ImageAssumption, LsnAssumption
  <1>3. request' = [pos |-> pos, blocks |-> blocks] /\ result' = 0 /\ buffer' = <<>>
    BY DEF Seek
  <1>4. TypeOK'
    BY <1>a, <1>2, <1>3 DEF Seek, TypeOK
  <1>5. SeekIsRight'
    BY <1>a, <1>3 DEF SeekIsRight
  <1>6. ReadsTheBlocksAskedFor'
    BY <1>2, <1>3, LsnAssumption DEF ReadsTheBlocksAskedFor
  <1> QED BY <1>4, <1>5, <1>6 DEF IInv

\* The whole sectors in as many bytes.
LEMMA WholeSectors ==
    ASSUME NEW bytes \in Nat, NEW blocks \in Nat, bytes <= blocks * LsnSize
    PROVE  /\ bytes \div LsnSize \in Nat
           /\ (bytes \div LsnSize) * LsnSize <= bytes
           /\ bytes \div LsnSize <= blocks
  BY LsnAssumption

LEMMA ReadKeepsIInv ==
    ASSUME IInv, ReadBytes
    PROVE  IInv'
  <1>1. PICK bytes \in 0..request.blocks * LsnSize :
           /\ filePos + bytes <= ImageSize
           /\ buffer' = [i \in 1..bytes |-> filePos + i - 1]
           /\ filePos' = filePos + bytes
           /\ result' = bytes \div LsnSize
    BY DEF ReadBytes
  <1>2. /\ filePos \in Nat /\ request.pos \in Nat /\ request.blocks \in Nat
        /\ request \in [pos : Nat, blocks : Nat]
        /\ missed \in BOOLEAN /\ (~missed => filePos = request.pos * LsnSize)
        /\ pc' = "open" /\ request' = request /\ missed' = missed
    BY ImageAssumption DEF IInv, TypeOK, SeekIsRight, ReadBytes
  <1>3. bytes \in Nat
    BY <1>2, LsnAssumption
  <1>4. buffer' \in Seq(Nat) /\ Len(buffer') = bytes
    BY <1>1, <1>2, <1>3
  <1>5. bytes <= request.blocks * LsnSize
    BY <1>2, <1>3, LsnAssumption
  <1>6. result' \in Nat /\ result' * LsnSize <= bytes /\ result' <= request.blocks
    BY <1>1, <1>2, <1>3, <1>5, WholeSectors
  <1>7. TypeOK'
    BY <1>1, <1>2, <1>3, <1>4, <1>6, ImageAssumption DEF TypeOK
  <1>8. ReadsTheBlocksAskedFor'
    BY <1>1, <1>2, <1>3, <1>4, <1>6, LsnAssumption DEF ReadsTheBlocksAskedFor
  <1> QED BY <1>2, <1>7, <1>8 DEF IInv, SeekIsRight

LEMMA StepKeepsIInv ==
    ASSUME ImageSize <= IntRange, IInv, [Next]_vars
    PROVE  IInv'
  <1>1. CASE Open
    BY <1>1, ImageAssumption DEF Open, IInv, TypeOK, SeekIsRight, ReadsTheBlocksAskedFor
  <1>2. CASE Close
    <2>1. 0 * LsnSize = 0 /\ 1..0 = {}
      BY LsnAssumption
    <2>2. NoRequest \in [pos : Nat, blocks : Nat] /\ filePos \in 0..ImageSize
      BY DEF NoRequest, IInv, TypeOK
    <2>6. missed' \in BOOLEAN
      BY <1>2, Zenon DEF Close
    <2>7. <<>> \in Seq(Nat) /\ 0 \in Nat
      OBVIOUS
    <2>4. TypeOK'
      BY <1>2, <2>2, <2>6, <2>7 DEF Close, TypeOK
    <2>5. SeekIsRight'
      BY <1>2 DEF Close, SeekIsRight
    <2>3. ReadsTheBlocksAskedFor'
      BY <1>2, <2>1, LsnAssumption DEF Close, ReadsTheBlocksAskedFor, NoRequest
    <2> QED BY <2>3, <2>4, <2>5 DEF IInv
  <1>3. CASE ReadBytes
    BY <1>3, ReadKeepsIInv
  <1>4. CASE \E pos \in 0..Sectors - 1, blocks \in 1..MaxBlocks : Seek(pos, blocks)
    BY <1>4, SeekKeepsIInv
  <1>5. CASE UNCHANGED vars
    BY <1>5 DEF vars, IInv, TypeOK, SeekIsRight, ReadsTheBlocksAskedFor
  <1> QED BY <1>1, <1>2, <1>3, <1>4, <1>5 DEF Next

\* As long as an int can count the bytes of the image, sacd_read_block_raw
\* gives the sectors it was asked for, for images and requests of any size and
\* reads that fail or stop anywhere, unless the file refused a seek that was needed;
\* a sequence of reads of whole sectors needs none.  The run over a longer image shows that
\* the condition is needed.
THEOREM ReadsAreRight ==
    ASSUME ImageSize <= IntRange
    PROVE  Spec => []ReadsTheBlocksAskedFor
  <1>1. IInv /\ [Next]_vars => IInv'
    BY StepKeepsIInv
  <1>2. IInv => ReadsTheBlocksAskedFor
    BY DEF IInv
  <1> QED BY InitHolds, <1>1, <1>2, PTL DEF Spec
-----------------------------------------------------------------------------
(* NetInput.                                                               *)

ServerMessages == {m \in [type : {"open", "size", "read", "close", "error", "rest"}, result : Nat, data : Seq(Nat)] :
                      Len(m.data) <= MaxRead}

NetTypes ==
    /\ netPc \in {"closed", "buffer", "socket", "connect", "open", "reader", "idle", "answer", "close", "free"}
    /\ call \in Net!Requests \cup {Net!NoCall}
    /\ held \subseteq {"device", "buffer", "socket", "reader"}
    /\ fd \in {"stdin", "invalid", "socket"} /\ link \in {"none", "up", "down"}
    /\ toServer \in Seq(Net!Requests) /\ toClient \in Seq(ServerMessages)
    /\ netBuffer \in Seq(Nat) /\ Len(netBuffer) <= MaxRead
    /\ value \in Nat /\ rejected \in 0..MaxRejected

\* What the caller has, wherever it is.
HeldOK ==
    /\ netPc = "closed" => held = {} /\ link = "none"
    /\ netPc = "buffer" => held = {"device"}
    /\ netPc = "socket" => held = {"device", "buffer"}
    /\ netPc = "connect" /\ fd = "socket" => held = {"device", "buffer", "socket"}
    /\ netPc \in {"open", "reader"} \/ (netPc = "answer" /\ call.type = "open") =>
          held = {"device", "buffer", "socket"}
    /\ netPc = "idle" \/ (netPc = "answer" /\ call.type \in {"size", "read"}) =>
          held = {"device", "buffer", "socket", "reader"}

\* The one call that is under way has its request or its answer on the way, or
\* the server is gone.
CallOK ==
    /\ link # "up" => toServer = <<>>
    /\ netPc = "answer" => call \in Net!Requests
    /\ netPc = "reader" => call.type = "open"

OnTheWay ==
    IF netPc = "answer"
    THEN \/ toServer \in {<<>>, <<call>>} /\ toClient = <<>>
         \/ toServer = <<>> /\ \E a \in Net!Answers(call) : toClient = <<a>>
    ELSE toServer = <<>> /\ toClient = <<>>

\* What the last call has left, when the caller is free for another.
LastCallOK ==
    netPc = "idle" =>
      /\ call.type = "read" => /\ value <= call.count /\ value <= Len(netBuffer)
                               /\ \A i \in 1..value : netBuffer[i] = call.pos + i - 1
      /\ call.type = "size" => value \in {0, Total}

NetInv == /\ NetTypes /\ HeldOK /\ CallOK
          /\ rejected = 0 => OnTheWay /\ LastCallOK

LEMMA NetNumbers == Total \in Nat /\ Total # 0 /\ MaxRead \in Nat /\ MaxRead # 0 /\ MaxRejected \in Nat
  BY DiscOnServerAssumption DEF Net!NetAssumption

\* The answers to a request are of its type or an error, and as long as a read
\* may be; those to a read name its sectors.
LEMMA AnswersAreRight ==
    ASSUME NEW r \in Net!Requests, NEW a \in Net!Answers(r)
    PROVE  /\ a \in ServerMessages /\ a # Net!Rest
           /\ a.type = r.type \/ a.type = "error"
           /\ a.type = "size" => a.result = Total
           /\ r.type = "read" /\ a.type = "read" =>
                a.result = Len(a.data) /\ a.result <= r.count /\ \A i \in 1..a.result : a.data[i] = r.pos + i - 1
  <1>1. /\ r.type \in {"open", "size", "read", "close"} /\ r.pos \in 0..Total - 1
        /\ r.count \in 1..MaxRead
    BY DEF Net!Requests, Net!Positions
  <1>2. \A t \in {"open", "size", "read", "close", "error", "rest"}, n \in Nat :
          Net!Message(t, n, <<>>) \in ServerMessages
    BY NetNumbers DEF ServerMessages, Net!Message
  <1>3. CASE a = Net!Message("error", 0, <<>>)
    BY <1>1, <1>2, <1>3 DEF Net!Message, Net!Rest
  <1>4. CASE r.type = "read" /\ \E n \in 0..r.count : a = Net!Message("read", n, [i \in 1..n |-> r.pos + i - 1])
    <2>1. PICK n \in 0..r.count : a = Net!Message("read", n, [i \in 1..n |-> r.pos + i - 1])
      BY <1>4
    <2>2. n \in Nat /\ n <= r.count /\ n <= MaxRead /\ r.pos \in Nat
      BY <1>1, <2>1, NetNumbers
    <2> DEFINE d == [i \in 1..n |-> r.pos + i - 1]
    <2>3. d \in Seq(Nat) /\ Len(d) = n /\ \A i \in 1..n : d[i] = r.pos + i - 1
      BY <2>2
    <2> HIDE DEF d
    <2>4. a = Net!Message("read", n, d)
      BY <2>1 DEF d
    <2> QED BY <1>4, <2>2, <2>3, <2>4 DEF ServerMessages, Net!Message, Net!Rest
  <1>5. CASE r.type = "size" /\ a = Net!Message("size", Total, <<>>)
    BY <1>1, <1>2, <1>5, NetNumbers DEF Net!Message, Net!Rest
  <1>6. CASE r.type = "open" /\ a \in {Net!Message("open", 0, <<>>), Net!Message("open", 1, <<>>)}
    BY <1>1, <1>2, <1>6 DEF Net!Message, Net!Rest
  <1>7. CASE r.type = "close" /\ a = Net!Message("close", 0, <<>>)
    BY <1>1, <1>2, <1>7 DEF Net!Message, Net!Rest
  <1> QED BY <1>1, <1>3, <1>4, <1>5, <1>6, <1>7 DEF Net!Answers

LEMMA NetInit == Net!Init => NetInv
  BY NetNumbers DEF Net!Init, NetInv, NetTypes, HeldOK, CallOK, OnTheWay, LastCallOK, Net!NoCall, Net!Request

\* The steps of opening and closing that take and give back.
LEMMA OpeningKeepsNetInv ==
    ASSUME NetInv,
           Net!Allocate \/ Net!AllocateBuffer \/ Net!CreateSocket \/ Net!Connect \/ Net!AllocateReader
              \/ Net!CloseIdle \/ Net!Free
    PROVE  NetInv'
  <1> USE DEF Net!connection, Net!answer
  <1>1. NetTypes'
    <2>1. CASE Net!Free
      BY <2>1, NetNumbers DEF NetInv, NetTypes, Net!Free
    <2>2. CASE Net!Allocate \/ Net!AllocateBuffer \/ Net!CreateSocket
      BY <2>2 DEF NetInv, NetTypes, Net!Allocate, Net!AllocateBuffer, Net!CreateSocket
    <2>3. CASE Net!Connect \/ Net!AllocateReader \/ Net!CloseIdle
      BY <2>3 DEF NetInv, NetTypes, Net!Connect, Net!AllocateReader, Net!CloseIdle
    <2> QED BY <2>1, <2>2, <2>3
  <1>2. HeldOK'
    BY DEF NetInv, NetTypes, HeldOK, CallOK, Net!Allocate, Net!AllocateBuffer, Net!CreateSocket, Net!Connect,
       Net!AllocateReader, Net!CloseIdle, Net!Free
  <1>3. CallOK'
    BY DEF NetInv, NetTypes, CallOK, Net!Allocate, Net!AllocateBuffer, Net!CreateSocket, Net!Connect,
       Net!AllocateReader, Net!CloseIdle, Net!Free
  <1>4. rejected' = 0 => OnTheWay'
    BY DEF NetInv, OnTheWay, Net!Allocate, Net!AllocateBuffer, Net!CreateSocket, Net!Connect,
       Net!AllocateReader, Net!CloseIdle, Net!Free
  <1>5. LastCallOK'
    BY DEF NetInv, CallOK, LastCallOK, Net!Allocate, Net!AllocateBuffer, Net!CreateSocket, Net!Connect,
       Net!AllocateReader, Net!CloseIdle, Net!Free
  <1> QED BY <1>1, <1>2, <1>3, <1>4, <1>5 DEF NetInv

\* A request is sent, or the call fails at once.
LEMMA SendKeepsNetInv ==
    ASSUME NetInv, NEW r \in Net!Requests, Net!Send(r),
           \/ netPc = "open" /\ r.type = "open"
           \/ netPc = "idle" /\ r.type \in {"size", "read"}
           \/ netPc = "close" /\ r.type = "close"
    PROVE  NetInv'
  <1>1. /\ call' = r /\ netBuffer' = <<>> /\ value' = 0
        /\ UNCHANGED <<held, fd, link, toClient, rejected>>
        /\ \/ netPc' = "answer" /\ toServer' = IF link = "up" THEN Append(toServer, r) ELSE toServer
           \/ netPc' = Net!Failed(r) /\ toServer' = toServer
    BY DEF Net!Send
  <1>2. toServer \in Seq(Net!Requests) /\ toServer' \in Seq(Net!Requests)
    <2>1. toServer \in Seq(Net!Requests)
      BY DEF NetInv, NetTypes
    <2>2. Append(toServer, r) \in Seq(Net!Requests)
      BY <2>1
    <2> QED BY <1>1, <2>1, <2>2
  <1>3. Net!Failed(r) \in {"close", "free", "idle"}
    BY DEF Net!Failed
  <1>4. NetTypes'
    BY <1>1, <1>2, <1>3, NetNumbers DEF NetInv, NetTypes
  <1>5. HeldOK'
    BY <1>1 DEF NetInv, HeldOK, Net!Failed
  <1>6. CallOK'
    BY <1>1, <1>3 DEF NetInv, CallOK
  <1>7. ASSUME rejected' = 0 PROVE OnTheWay'
    <2>1. toServer = <<>> /\ toClient = <<>> /\ toClient' = <<>>
      BY <1>1, <1>7 DEF NetInv, OnTheWay
    <2>2. Append(toServer, r) = <<r>>
      BY <2>1
    <2> QED BY <1>1, <1>3, <2>1, <2>2 DEF OnTheWay
  <1>8. LastCallOK'
    BY <1>1, NetNumbers DEF LastCallOK, Net!Requests
  <1> QED BY <1>4, <1>5, <1>6, <1>7, <1>8 DEF NetInv

\* What a call keeps of an answer, when client and server are in step.
LEMMA AcceptedIsRight ==
    ASSUME NetInv, netPc = "answer", NEW a \in ServerMessages, Net!Accept(a), UNCHANGED call,
           rejected = 0 => a \in Net!Answers(call)
    PROVE  /\ netPc' \in {"reader", "close", "free", "idle"}
           /\ netPc' = "reader" => call.type = "open"
           /\ netPc' = "idle" => call.type \in {"size", "read"}
           /\ value' \in Nat /\ netBuffer' \in Seq(Nat) /\ Len(netBuffer') <= MaxRead
           /\ rejected = 0 => LastCallOK'
  <1>1. call \in Net!Requests /\ call.type \in {"open", "size", "read", "close"}
    BY DEF NetInv, CallOK, Net!Requests
  <1>2. a.result \in Nat /\ a.data \in Seq(Nat) /\ Len(a.data) <= MaxRead
    BY DEF ServerMessages
  <1>3. /\ netPc' \in {"reader", "close", "free", "idle"}
        /\ netPc' = "reader" => call.type = "open"
        /\ netPc' = "idle" => call.type \in {"size", "read"}
    BY <1>1 DEF Net!Accept, Net!Failed
  <1>4. value' \in Nat /\ netBuffer' \in Seq(Nat) /\ Len(netBuffer') <= MaxRead
    BY <1>2, NetNumbers DEF Net!Accept
  <1>5. ASSUME rejected = 0, netPc' = "idle", call.type = "size" PROVE value' \in {0, Total}
    BY <1>1, <1>5, AnswersAreRight DEF Net!Accept
  <1>6. ASSUME rejected = 0, netPc' = "idle", call.type = "read"
        PROVE  /\ value' <= call.count /\ value' <= Len(netBuffer')
               /\ \A i \in 1..value' : netBuffer'[i] = call.pos + i - 1
    <2>1. netBuffer' = a.data /\ (value' = 0 \/ (value' = a.result /\ a.type = "read"))
      BY <1>6 DEF Net!Accept
    <2>2. call.count \in Nat
      BY <1>1, NetNumbers DEF Net!Requests
    <2>3. CASE value' = 0
      BY <2>1, <2>2, <2>3, <1>2
    <2>4. CASE value' = a.result /\ a.type = "read"
      BY <2>1, <2>4, <1>1, <1>2, <1>6, AnswersAreRight
    <2> QED BY <2>1, <2>3, <2>4
  <1> QED BY <1>3, <1>4, <1>5, <1>6 DEF LastCallOK

\* A call that fails keeps nothing that it reports.
LEMMA FailKeepsNetInv ==
    ASSUME NetInv, netPc = "answer", Net!Fail, UNCHANGED <<call, held, link, toServer>>,
           toClient' \in Seq(ServerMessages), rejected' \in 0..MaxRejected,
           netBuffer' \in Seq(Nat), Len(netBuffer') <= MaxRead,
           rejected' = 0 => toServer = <<>> /\ toClient' = <<>>
    PROVE  NetInv'
  <1>1. /\ netPc' = Net!Failed(call) /\ value' = 0 /\ fd' = fd
        /\ netPc' \in {"close", "free", "idle"}
        /\ netPc' = "idle" => call.type \notin {"open", "close"}
    BY DEF Net!Fail, Net!Failed
  <1>2. NetTypes'
    BY <1>1 DEF NetInv, NetTypes
  <1>3. HeldOK'
    <2>1. call.type \in {"open", "size", "read", "close"}
      BY DEF NetInv, CallOK, Net!Requests
    <2> QED BY <1>1, <2>1 DEF NetInv, HeldOK
  <1>4. CallOK'
    BY <1>1 DEF NetInv, CallOK
  <1>5. rejected' = 0 => OnTheWay'
    BY <1>1 DEF OnTheWay
  <1>6. LastCallOK'
    <2>1. call.type = "read" => call.count \in Nat
      BY NetNumbers DEF NetInv, CallOK, Net!Requests
    <2> QED BY <1>1, <2>1 DEF LastCallOK
  <1> QED BY <1>2, <1>3, <1>4, <1>5, <1>6 DEF NetInv

\* The answer is taken, or the end of the connection.
LEMMA ReceiveKeepsNetInv ==
    ASSUME NetInv, Net!Receive
    PROVE  NetInv'
  <1>1. /\ netPc = "answer" /\ UNCHANGED <<call, held, link, toServer, rejected>>
        /\ toClient \in Seq(ServerMessages) /\ toServer \in Seq(Net!Requests)
        /\ netBuffer \in Seq(Nat) /\ Len(netBuffer) <= MaxRead /\ rejected \in 0..MaxRejected
    BY DEF Net!Receive, NetInv, NetTypes
  <1>2. CASE toClient = <<>>
    <2>1. link = "down" /\ Net!Fail /\ UNCHANGED <<netBuffer, toClient>>
      BY <1>2 DEF Net!Receive
    <2>2. toServer = <<>>
      BY <2>1 DEF NetInv, CallOK
    <2> QED BY <1>1, <1>2, <2>1, <2>2, FailKeepsNetInv
  <1>3. CASE toClient # <<>>
    <2>0. toClient' = Tail(toClient)
      BY <1>3 DEF Net!Receive
    <2>1. toClient' = Tail(toClient) /\ Head(toClient) \in ServerMessages /\ toClient' \in Seq(ServerMessages)
      BY <1>1, <1>3, <2>0
    <2>2. rejected = 0 => /\ toServer = <<>> /\ toClient' = <<>>
                          /\ Head(toClient) \in Net!Answers(call) /\ Head(toClient) # Net!Rest
      <3>1. ASSUME rejected = 0 PROVE toServer = <<>> /\ \E a \in Net!Answers(call) : toClient = <<a>>
        BY <1>1, <1>3, <3>1 DEF NetInv, OnTheWay
      <3>2. call \in Net!Requests
        BY <1>1 DEF NetInv, CallOK
      <3> QED BY <3>1, <3>2, <2>1, AnswersAreRight
    <2>3. CASE Head(toClient) = Net!Rest
      <3>1. Net!Fail /\ UNCHANGED netBuffer
        BY <1>3, <2>3 DEF Net!Receive
      <3> QED BY <1>1, <2>1, <2>2, <2>3, <3>1, FailKeepsNetInv
    <2>4. CASE Head(toClient) # Net!Rest
      <3>1. Net!Accept(Head(toClient)) /\ fd' = fd
        BY <1>3, <2>4 DEF Net!Receive
      <3>2. /\ netPc' \in {"reader", "close", "free", "idle"}
            /\ netPc' = "reader" => call.type = "open"
            /\ netPc' = "idle" => call.type \in {"size", "read"}
            /\ value' \in Nat /\ netBuffer' \in Seq(Nat) /\ Len(netBuffer') <= MaxRead
            /\ rejected = 0 => LastCallOK'
        BY <1>1, <2>1, <2>2, <3>1, AcceptedIsRight
      <3>3. NetTypes'
        BY <1>1, <2>1, <3>1, <3>2 DEF NetInv, NetTypes
      <3>4. HeldOK'
        BY <1>1, <3>1, <3>2 DEF NetInv, HeldOK
      <3>5. CallOK'
        BY <1>1, <3>2 DEF NetInv, CallOK
      <3>6. rejected' = 0 => OnTheWay'
        BY <1>1, <2>2, <3>2 DEF OnTheWay
      <3> QED BY <1>1, <3>2, <3>3, <3>4, <3>5, <3>6 DEF NetInv
    <2> QED BY <2>3, <2>4
  <1> QED BY <1>2, <1>3

\* An answer is given up halfway.
LEMMA RejectKeepsNetInv ==
    ASSUME NetInv, Net!Reject
    PROVE  NetInv'
  <1>1. /\ netPc = "answer" /\ toClient # <<>> /\ Net!Fail /\ UNCHANGED <<call, held, link, toServer>>
        /\ rejected' = rejected + 1 /\ rejected < MaxRejected /\ rejected \in 0..MaxRejected
        /\ toClient \in Seq(ServerMessages) /\ toClient' = <<Net!Rest>> \o Tail(toClient)
    BY DEF Net!Reject, NetInv, NetTypes
  <1>2. rejected' \in 0..MaxRejected /\ rejected' # 0
    BY <1>1, NetNumbers
  <1>3. Net!Rest \in ServerMessages
    BY NetNumbers DEF Net!Rest, Net!Message, ServerMessages
  <1>4. toClient' \in Seq(ServerMessages) /\ Head(toClient) \in ServerMessages
    BY <1>1, <1>3
  <1>5. netBuffer' \in Seq(Nat) /\ Len(netBuffer') <= MaxRead
    <2> DEFINE d == Head(toClient).data
    <2>1. d \in Seq(Nat) /\ Len(d) <= MaxRead
      BY <1>4 DEF ServerMessages
    <2>2. PICK n \in 0..Len(d) : netBuffer' = IF call.type = "read" THEN SubSeq(d, 1, n) ELSE <<>>
      BY DEF Net!Reject
    <2> HIDE DEF d
    <2>3. SubSeq(d, 1, n) \in Seq(Nat) /\ Len(SubSeq(d, 1, n)) <= Len(d) /\ Len(d) \in Nat
      BY <2>1
    <2> QED BY <2>1, <2>2, <2>3, NetNumbers
  <1> QED BY <1>1, <1>2, <1>4, <1>5, FailKeepsNetInv

\* The server answers, or goes away.
LEMMA ServerKeepsNetInv ==
    ASSUME NetInv, Net!Answer \/ Net!GoAway
    PROVE  NetInv'
  <1> USE DEF Net!answer
  <1>1. /\ UNCHANGED <<netPc, call, held, fd, rejected, netBuffer, value>> /\ link' \in {"up", "down"} /\ link = "up"
        /\ toClient \in Seq(ServerMessages) /\ toServer \in Seq(Net!Requests)
    BY DEF Net!Answer, Net!GoAway, NetInv, NetTypes
  <1>2. /\ toServer' \in Seq(Net!Requests) /\ toClient' \in Seq(ServerMessages) /\ CallOK'
        /\ rejected = 0 => OnTheWay'
    <2>1. CASE Net!Answer
      <3>1. toServer # <<>> /\ toServer' = Tail(toServer) /\ link' = "up" /\ Head(toServer) \in Net!Requests
        BY <1>1, <2>1 DEF Net!Answer
      <3>2. PICK a \in Net!Answers(Head(toServer)) : toClient' = Append(toClient, a)
        BY <2>1 DEF Net!Answer
      <3>3. a \in ServerMessages
        BY <3>1, AnswersAreRight
      <3>4. toServer' \in Seq(Net!Requests) /\ toClient' \in Seq(ServerMessages)
        BY <1>1, <3>1, <3>2, <3>3
      <3>5. CallOK'
        BY <1>1, <3>1 DEF NetInv, CallOK
      <3>6. ASSUME rejected = 0 PROVE OnTheWay'
        <4>1. netPc = "answer" /\ toServer = <<call>> /\ toClient = <<>>
          BY <3>1, <3>6 DEF NetInv, OnTheWay
        <4>2. Head(toServer) = call /\ Tail(toServer) = <<>> /\ Append(toClient, a) = <<a>>
          BY <4>1
        <4> QED BY <1>1, <3>1, <3>2, <4>1, <4>2 DEF OnTheWay
      <3> QED BY <3>4, <3>5, <3>6
    <2>2. CASE Net!GoAway
      <3>1. toServer' = <<>> /\ toClient' \in {toClient, <<>>} /\ link' = "down"
        BY <2>2 DEF Net!GoAway
      <3>2. CallOK'
        BY <1>1, <3>1 DEF NetInv, CallOK
      <3>3. rejected = 0 => OnTheWay'
        BY <1>1, <3>1 DEF NetInv, OnTheWay
      <3>4. toServer' \in Seq(Net!Requests) /\ toClient' \in Seq(ServerMessages)
        <4>1. CASE toClient' = toClient
          BY <1>1, <3>1, <4>1
        <4>2. CASE toClient' = <<>>
          BY <3>1, <4>2
        <4> QED BY <3>1, <4>1, <4>2
      <3> QED BY <1>1, <3>2, <3>3, <3>4
    <2> QED BY <2>1, <2>2
  <1>3. NetTypes'
    BY <1>1, <1>2 DEF NetInv, NetTypes
  <1>4. HeldOK'
    <2>1. netPc # "closed"
      BY <1>1 DEF NetInv, HeldOK
    <2> QED BY <1>1, <2>1 DEF NetInv, HeldOK
  <1>5. rejected = 0 => LastCallOK'
    BY <1>1 DEF NetInv, LastCallOK
  <1> QED BY <1>1, <1>2, <1>3, <1>4, <1>5 DEF NetInv

LEMMA NetStepKeepsNetInv ==
    ASSUME NetInv, [Net!Next]_netVars
    PROVE  NetInv'
  <1>1. ASSUME NEW type \in {"open", "size", "close"}, NEW r \in Net!Uninitialised(type)
        PROVE  r \in Net!Requests /\ r.type = type
    BY <1>1, NetNumbers DEF Net!Uninitialised, Net!Requests, Net!Request, Net!Positions
  <1>2. CASE Net!SendOpen
    BY <1>1, <1>2, SendKeepsNetInv DEF Net!SendOpen
  <1>3. CASE Net!TotalSectors
    BY <1>1, <1>3, SendKeepsNetInv DEF Net!TotalSectors
  <1>4. CASE Net!SendClose
    BY <1>1, <1>4, SendKeepsNetInv DEF Net!SendClose
  <1>5. CASE Net!ReadBlocks
    <2>1. PICK pos \in Net!Positions, count \in 1..MaxRead : Net!Send(Net!Request("read", pos, count))
      BY <1>5 DEF Net!ReadBlocks
    <2>2. Net!Request("read", pos, count) \in Net!Requests /\ Net!Request("read", pos, count).type = "read"
      BY DEF Net!Request, Net!Requests
    <2> QED BY <1>5, <2>1, <2>2, SendKeepsNetInv DEF Net!ReadBlocks
  <1>6. CASE UNCHANGED netVars
    BY <1>6 DEF netVars, NetInv, NetTypes, HeldOK, CallOK, OnTheWay, LastCallOK
  <1> QED BY <1>2, <1>3, <1>4, <1>5, <1>6, OpeningKeepsNetInv, ReceiveKeepsNetInv, RejectKeepsNetInv,
             ServerKeepsNetInv DEF Net!Next, Net!Caller
-----------------------------------------------------------------------------
(* DiscTables: what the folds over blocks, widths and sectors go through.  *)

\* Induction: a least number that is not in S would belong to an interval with
\* none inside it.
LEMMA Induct ==
  ASSUME NEW S, 0 \in S, \A n \in Nat : n \in S => n + 1 \in S
  PROVE  Nat \subseteq S
  <1> DEFINE T == {0..m : m \in Nat \ S}
  <1> SUFFICES ASSUME Nat \ S # {}
               PROVE  FALSE
    OBVIOUS
  <1>1. \A A \in T : A \in FiniteSubsetsOf(Nat)
    <2> SUFFICES ASSUME NEW m \in Nat PROVE 0..m \in FiniteSubsetsOf(Nat)
      OBVIOUS
    <2>1. IsFiniteSet(0..m)
      BY FS_Interval
    <2> QED BY <2>1 DEF FiniteSubsetsOf
  <1>2. T \subseteq FiniteSubsetsOf(Nat) /\ T # {}
    BY <1>1
  <1> HIDE DEF T
  <1>3. PICK A \in T : \A B \in T : ~ (<<B, A>> \in StrictSubsetOrdering(Nat))
    BY <1>2, FS_StrictSubsetOrderingWellFounded, WFMin
  <1> USE DEF T
  <1>4. PICK m \in Nat \ S : A = 0..m
    OBVIOUS
  <1>5. m # 0 /\ m - 1 \in Nat /\ m - 1 \notin S
    BY <1>4
  <1>6. 0..m-1 \in T /\ 0..m-1 \subseteq 0..m /\ 0..m-1 # 0..m
    <2>1. m \in 0..m /\ m \notin 0..m-1
      OBVIOUS
    <2> QED BY <1>5, <2>1
  <1>7. <<0..m-1, A>> \in StrictSubsetOrdering(Nat)
    BY <1>4, <1>6 DEF StrictSubsetOrdering
  <1> QED BY <1>3, <1>6, <1>7

\* The greatest and the least of a set of numbers.
LEMMA GreatestIsIn == \A n \in Nat : \A s \in SUBSET (1..n) : s # {} =>
                         Tables!Max(s) \in s /\ \A x \in s : x <= Tables!Max(s)
  <1> DEFINE Right(n) == \A s \in SUBSET (1..n) : s # {} => \E m \in s : \A x \in s : m >= x
             S == {n \in Nat : Right(n)}
  <1>1. 0 \in S
    <2>1. 1..0 = {}
      OBVIOUS
    <2> QED BY <2>1
  <1>2. ASSUME NEW n \in Nat, n \in S PROVE n + 1 \in S
    <2>1. ASSUME NEW s \in SUBSET (1..n + 1), s # {} PROVE \E m \in s : \A x \in s : m >= x
      <3>1. CASE n + 1 \in s
        <4>1. \A x \in s : n + 1 >= x
          OBVIOUS
        <4> QED BY <3>1, <4>1
      <3>2. CASE n + 1 \notin s
        <4>1. s \in SUBSET (1..n)
          BY <3>2
        <4> QED BY <1>2, <2>1, <4>1
      <3> QED BY <3>1, <3>2
    <2> QED BY <2>1
  <1>3. Nat \subseteq S
    <2> HIDE DEF S
    <2> QED BY <1>1, <1>2, Induct
  <1>4. ASSUME NEW n \in Nat, NEW s \in SUBSET (1..n), s # {}
        PROVE  Tables!Max(s) \in s /\ \A x \in s : x <= Tables!Max(s)
    <2>1. \E m \in s : \A x \in s : m >= x
      BY <1>3, <1>4
    <2>2. Tables!Max(s) \in s /\ \A x \in s : Tables!Max(s) >= x
      BY <2>1 DEF Tables!Max
    <2>3. \A x \in s : x \in Nat
      OBVIOUS
    <2> QED BY <2>2, <2>3
  <1> QED BY <1>4

LEMMA LeastIsIn == ASSUME NEW s \in SUBSET Nat, s # {}
                   PROVE  Tables!Min(s) \in s /\ \A x \in s : Tables!Min(s) <= x
  <1> DEFINE S == {n \in Nat : \A x \in s : n <= x}
  <1>1. SUFFICES ASSUME \A m \in s : \E x \in s : ~(m <= x) PROVE FALSE
    BY DEF Tables!Min
  <1>2. 0 \in S
    OBVIOUS
  <1>3. ASSUME NEW n \in Nat, n \in S PROVE n + 1 \in S
    <2>1. n \notin s
      BY <1>1, <1>3
    <2> QED BY <1>3, <2>1
  <1>4. Nat \subseteq S
    <2> HIDE DEF S
    <2> QED BY <1>2, <1>3, Induct
  <1>5. PICK m \in s : TRUE
    OBVIOUS
  <1>6. m + 1 \in S
    BY <1>4, <1>5
  <1> QED BY <1>5, <1>6

\* What a fold goes through: at k it has taken the first k elements.
LEMMA TopOf ==
    ASSUME NEW k \in Nat
    PROVE  /\ Tables!Max(1..k + 1) = k + 1 /\ (1..k + 1) \ {k + 1} = 1..k /\ 1..k + 1 # {}
           /\ \A n \in Nat : k + 1 <= n => 1..k + 1 \in SUBSET (1..n)
           /\ 1..0 = {}
  <1>1. 1..k + 1 \in SUBSET (1..k + 1) /\ k + 1 \in 1..k + 1 /\ k + 1 \in Nat
    OBVIOUS
  <1>2. Tables!Max(1..k + 1) \in 1..k + 1 /\ k + 1 <= Tables!Max(1..k + 1)
    BY <1>1, GreatestIsIn
  <1>3. Tables!Max(1..k + 1) = k + 1
    BY <1>2
  <1> QED BY <1>3

\* The recursion of a fold exists, if F keeps to X.
Folding(g, n, base, F) ==
    g = [s \in SUBSET (1..n) |->
            IF s = {} THEN base ELSE F[<<g[s \ {Tables!Max(s)}], Tables!Max(s)>>]]

LEMMA FoldingExists ==
    ASSUME NEW N \in Nat, NEW X, NEW base \in X, NEW F \in [X \X (1..N) -> X]
    PROVE  \E g : Folding(g, N, base, F) /\ \A s \in SUBSET (1..N) : g[s] \in X
  <1> DEFINE Good(g, n) == Folding(g, n, base, F) /\ \A s \in SUBSET (1..n) : g[s] \in X
             S == {n \in Nat : n <= N => \E g : Good(g, n)}
  <1>1. 0 \in S
    <2> DEFINE g == [s \in SUBSET (1..0) |-> base]
    <2>1. SUBSET (1..0) = {{}}
      OBVIOUS
    <2>2. g = [s \in SUBSET (1..0) |-> IF s = {} THEN base ELSE F[<<g[s \ {Tables!Max(s)}], Tables!Max(s)>>]]
      BY ONLY <2>1
    <2>3. Good(g, 0)
      BY <2>1, <2>2 DEF Folding
    <2> QED BY <2>3
  <1>2. ASSUME NEW n \in Nat, n \in S PROVE n + 1 \in S
    <2>1. SUFFICES ASSUME n + 1 <= N PROVE \E g : Good(g, n + 1)
      OBVIOUS
    <2>2. PICK g : Good(g, n)
      BY <1>2, <2>1
    <2> DEFINE h == [s \in SUBSET (1..n + 1) |->
                       IF s \in SUBSET (1..n) THEN g[s] ELSE F[<<g[s \ {n + 1}], n + 1>>]]
    <2>3. ASSUME NEW s \in SUBSET (1..n + 1)
          PROVE  /\ h[s] = IF s = {} THEN base ELSE F[<<h[s \ {Tables!Max(s)}], Tables!Max(s)>>]
                 /\ h[s] \in X
      <3>1. CASE s \in SUBSET (1..n)
        <4>1. h[s] = g[s] /\ h[s \ {Tables!Max(s)}] = g[s \ {Tables!Max(s)}]
          BY <3>1
        <4>2. g[s] = IF s = {} THEN base ELSE F[<<g[s \ {Tables!Max(s)}], Tables!Max(s)>>]
          BY <2>2, <3>1 DEF Folding
        <4>3. g[s] \in X
          BY <2>2, <3>1
        <4> HIDE DEF h, Good
        <4> QED BY <4>1, <4>2, <4>3
      <3>2. CASE s \notin SUBSET (1..n)
        <4>1. n + 1 \in s /\ s # {}
          BY <3>2
        <4>2. Tables!Max(s) = n + 1
          <5>1. PICK m : m = Tables!Max(s)
            OBVIOUS
          <5>2. m \in s /\ n + 1 <= m
            <6>1. n + 1 \in Nat /\ s \in SUBSET (1..n + 1)
              OBVIOUS
            <6> QED BY ONLY <4>1, <5>1, <6>1, GreatestIsIn
          <5>3. m \in 1..n + 1
            BY <5>2
          <5> QED BY <5>1, <5>2, <5>3
        <4>3. s \ {n + 1} \in SUBSET (1..n) /\ s \ {n + 1} \in SUBSET (1..n + 1)
          OBVIOUS
        <4>4. h[s] = F[<<g[s \ {n + 1}], n + 1>>] /\ h[s \ {n + 1}] = g[s \ {n + 1}]
          BY <3>2, <4>3
        <4>5. g[s \ {n + 1}] \in X /\ n + 1 \in 1..N
          BY <2>1, <2>2, <4>3
        <4> HIDE DEF h, Good
        <4>6. F[<<g[s \ {n + 1}], n + 1>>] \in X
          BY <4>5
        <4> QED BY <4>1, <4>2, <4>4, <4>6
      <3> QED BY <3>1, <3>2
    <2>4. DOMAIN h = SUBSET (1..n + 1) /\ h = [s \in SUBSET (1..n + 1) |-> h[s]]
      OBVIOUS
    <2> HIDE DEF h
    <2>5. h = [s \in SUBSET (1..n + 1) |->
                 IF s = {} THEN base ELSE F[<<h[s \ {Tables!Max(s)}], Tables!Max(s)>>]]
      BY <2>3, <2>4
    <2>6. Good(h, n + 1)
      BY <2>3, <2>5 DEF Folding
    <2> QED BY <2>6
  <1>3. N \in S
    <2> HIDE DEF S
    <2> QED BY <1>1, <1>2, Induct
  <1> QED BY <1>3

\* The fold of SumOf adds one width after the other.
LEMMA SumInTurn ==
    ASSUME NEW w, NEW n \in Nat, w \in [1..n -> Nat]
    PROVE  \E t \in [0..n -> Nat] : /\ t[0] = 0 /\ \A k \in 1..n : t[k] = t[k - 1] + w[k]
                                    /\ Tables!SumOf(w) = t[n]
  <1> DEFINE F == [p \in Nat \X (1..n) |-> p[1] + w[p[2]]]
             Is(g) == g = [s \in SUBSET (1..n) |->
                             IF s = {} THEN 0 ELSE g[s \ {Tables!Max(s)}] + w[Tables!Max(s)]]
             g == CHOOSE g : Is(g)
  <1>1. \E h : Is(h)
    <2>1. F \in [Nat \X (1..n) -> Nat]
      OBVIOUS
    <2>2. PICK h : Folding(h, n, 0, F) /\ \A s \in SUBSET (1..n) : h[s] \in Nat
      BY <2>1, FoldingExists
    <2>3. ASSUME NEW s \in SUBSET (1..n), s # {}
          PROVE  F[<<h[s \ {Tables!Max(s)}], Tables!Max(s)>>] = h[s \ {Tables!Max(s)}] + w[Tables!Max(s)]
      <3>1. Tables!Max(s) \in 1..n
        BY <2>3, GreatestIsIn
      <3> QED BY <2>2, <3>1
    <2> HIDE DEF F
    <2>4. h = [s \in SUBSET (1..n) |-> IF s = {} THEN 0 ELSE h[s \ {Tables!Max(s)}] + w[Tables!Max(s)]]
      BY <2>2, <2>3 DEF Folding
    <2> QED BY <2>4
  <1>2. Is(g)
    BY <1>1
  <1>3. Tables!SumOf(w) = g[1..n]
    BY DEF Tables!SumOf, Tables!FoldLeft, Tables!MapThenFoldSet
  <1> HIDE DEF g, F
  <1>4. g[1..0] = 0 /\ \A k \in Nat : k + 1 <= n => g[1..k + 1] = g[1..k] + w[k + 1]
    <2>1. g[1..0] = 0
      BY <1>2, TopOf
    <2>2. ASSUME NEW k \in Nat, k + 1 <= n PROVE g[1..k + 1] = g[1..k] + w[k + 1]
      <3>1. /\ 1..k + 1 \in SUBSET (1..n) /\ 1..k + 1 # {}
            /\ (1..k + 1) \ {Tables!Max(1..k + 1)} = 1..k /\ Tables!Max(1..k + 1) = k + 1
        BY <2>2, TopOf
      <3>2. g[1..k + 1] = g[(1..k + 1) \ {Tables!Max(1..k + 1)}] + w[Tables!Max(1..k + 1)]
        BY <1>2, <3>1
      <3> QED BY <3>1, <3>2
    <2> QED BY <2>1, <2>2
  <1> HIDE DEF Is
  <1> DEFINE t == [k \in 0..n |-> g[1..k]]
             S == {k \in Nat : k <= n => g[1..k] \in Nat}
  <1>5. n \in Nat /\ \A k \in 0..n : g[1..k] \in Nat
    <2>1. 0 \in S
      BY <1>4
    <2>2. ASSUME NEW k \in Nat, k \in S PROVE k + 1 \in S
      <3>1. SUFFICES ASSUME k + 1 <= n PROVE g[1..k + 1] \in Nat
        OBVIOUS
      <3>2. g[1..k] \in Nat /\ w[k + 1] \in Nat /\ g[1..k + 1] = g[1..k] + w[k + 1]
        BY <1>4, <2>2, <3>1
      <3> QED BY <3>2
    <2>3. Nat \subseteq S
      <3> HIDE DEF S
      <3> QED BY <2>1, <2>2, Induct
    <2> QED BY <2>3
  <1>6. \A k \in 1..n : t[k] = t[k - 1] + w[k]
    <2> SUFFICES ASSUME NEW k \in 1..n PROVE t[k] = t[k - 1] + w[k]
      OBVIOUS
    <2>1. k - 1 \in Nat /\ k - 1 \in 0..n /\ k \in 0..n /\ (k - 1) + 1 = k
      OBVIOUS
    <2> QED BY <1>4, <2>1
  <1>7. t \in [0..n -> Nat] /\ t[0] = 0 /\ t[n] = g[1..n]
    BY <1>4, <1>5
  <1> QED BY <1>3, <1>6, <1>7
-----------------------------------------------------------------------------
(* The structures take the sectors that the parser passes for them.        *)

\* The sums of the structures' widths.
LEMMA SumOfTwo == ASSUME NEW a \in Nat, NEW b \in Nat PROVE Tables!SumOf(<<a, b>>) = a + b
  <1>1. PICK n \in Nat : n = 2
    OBVIOUS
  <1>2. PICK w : w = <<a, b>>
    OBVIOUS
  <1>3. w \in [1..n -> Nat]
    BY <1>1, <1>2
  <1>4. PICK t \in [0..n -> Nat] : /\ t[0] = 0 /\ \A k \in 1..n : t[k] = t[k - 1] + w[k]
                                   /\ Tables!SumOf(w) = t[n]
    BY <1>3, SumInTurn
  <1>5. t[1] = a /\ t[2] = t[1] + b
    BY <1>1, <1>2, <1>4
  <1> QED BY <1>1, <1>2, <1>4, <1>5

LEMMA SumOfThree ==
    ASSUME NEW a \in Nat, NEW b \in Nat, NEW c \in Nat
    PROVE  Tables!SumOf(<<a, b, c>>) = a + b + c
  <1>1. PICK n \in Nat : n = 3
    OBVIOUS
  <1>2. PICK w : w = <<a, b, c>>
    OBVIOUS
  <1>3. w \in [1..n -> Nat]
    BY <1>1, <1>2
  <1>4. PICK t \in [0..n -> Nat] : /\ t[0] = 0 /\ \A k \in 1..n : t[k] = t[k - 1] + w[k]
                                   /\ Tables!SumOf(w) = t[n]
    BY <1>3, SumInTurn
  <1>5. t[1] = a /\ t[2] = t[1] + b /\ t[3] = t[2] + c
    BY <1>1, <1>2, <1>4
  <1> QED BY <1>1, <1>2, <1>4, <1>5

LEMMA SumOfFour ==
    ASSUME NEW a \in Nat, NEW b \in Nat, NEW c \in Nat, NEW d \in Nat
    PROVE  Tables!SumOf(<<a, b, c, d>>) = a + b + c + d
  <1>1. PICK n \in Nat : n = 4
    OBVIOUS
  <1>2. PICK w : w = <<a, b, c, d>>
    OBVIOUS
  <1>3. w \in [1..n -> Nat]
    BY <1>1, <1>2
  <1>4. PICK t \in [0..n -> Nat] : /\ t[0] = 0 /\ \A k \in 1..n : t[k] = t[k - 1] + w[k]
                                   /\ Tables!SumOf(w) = t[n]
    BY <1>3, SumInTurn
  <1>5. t[1] = a /\ t[2] = t[1] + b /\ t[3] = t[2] + c /\ t[4] = t[3] + d
    BY <1>1, <1>2, <1>4
  <1> QED BY <1>1, <1>2, <1>4, <1>5

LEMMA SmallWidths ==
    /\ Tables!GenreTable = 4 /\ Tables!LocaleTable = 4 /\ Tables!MasterText = 2048 /\ Tables!MasterMan = 2048
    /\ Tables!IsrcGenre = 4092 /\ Tables!TracklistOffset = 2048 /\ Tables!TracklistTime = 2048
  <1>1. /\ Tables!GenreTable = 4 /\ Tables!LocaleTable = 4 /\ Tables!Isrc = 12
        /\ Tables!TracklistTimeEntry = 4
    BY SumOfThree, SumOfFour
    DEF Tables!GenreTable, Tables!LocaleTable, Tables!Isrc, Tables!TracklistTimeEntry
  <1>2. Tables!MasterText = 2048 /\ Tables!MasterMan = 2048 /\ Tables!TracklistOffset = 2048
    BY SumOfTwo, SumOfThree, SumOfFour DEF Tables!MasterText, Tables!MasterMan, Tables!TracklistOffset
  <1>3. Tables!IsrcGenre = 4092 /\ Tables!TracklistTime = 2048
    BY <1>1, SumOfThree, SumOfFour DEF Tables!IsrcGenre, Tables!TracklistTime
  <1> QED BY <1>1, <1>2, <1>3

LEMMA AreaTocWidth == Tables!AreaToc = 2048
  <1> DEFINE w == <<8, 1 + 1, 2, 4, 4, 1, 1, 10, 1, 1, 1, 1, 12, 1, 15, 3, 1, 1, 1, 2, 4, 4, 1, 7, 10 *
                      Tables!LocaleTable, 2, 2, 2, 10, 2, 2, 2, 2, 1896>>
  <1>1. PICK n \in Nat : n = 34
    OBVIOUS
  <1>2. w \in [1..n -> Nat]
    BY <1>1, SmallWidths
  <1>3. Tables!AreaToc = Tables!SumOf(w)
    BY DEF Tables!AreaToc
  <1> HIDE DEF w
  <1>4. PICK t \in [0..n -> Nat] : /\ t[0] = 0 /\ \A k \in 1..n : t[k] = t[k - 1] + w[k]
                                   /\ Tables!SumOf(w) = t[n]
    BY <1>2, SumInTurn
  <1>5. /\ t[1] = 8 /\ t[2] = 10 /\ t[3] = 12 /\ t[4] = 16 /\ t[5] = 20 /\ t[6] = 21 /\ t[7] = 22 /\ t[8] = 32
    BY <1>1, <1>4, SmallWidths DEF w
  <1>6. /\ t[9] = 33 /\ t[10] = 34 /\ t[11] = 35 /\ t[12] = 36 /\ t[13] = 48 /\ t[14] = 49 /\ t[15] = 64
       /\ t[16] = 67
    BY <1>1, <1>4, <1>5, SmallWidths DEF w
  <1>7. /\ t[17] = 68 /\ t[18] = 69 /\ t[19] = 70 /\ t[20] = 72 /\ t[21] = 76 /\ t[22] = 80 /\ t[23] = 81
       /\ t[24] = 88
    BY <1>1, <1>4, <1>6, SmallWidths DEF w
  <1>8. /\ t[25] = 128 /\ t[26] = 130 /\ t[27] = 132 /\ t[28] = 134 /\ t[29] = 144 /\ t[30] = 146
       /\ t[31] = 148 /\ t[32] = 150
    BY <1>1, <1>4, <1>7, SmallWidths DEF w
  <1>9. /\ t[33] = 152 /\ t[34] = 2048
    BY <1>1, <1>4, <1>8, SmallWidths DEF w
  <1> QED BY ONLY <1>1, <1>3, <1>4, <1>9

LEMMA MasterTocWidth == Tables!MasterToc = 168
  <1> DEFINE w == <<8, 1 + 1, 6, 2, 2, 4, 16, 4 * Tables!GenreTable, 8, 4, 4, 4, 4, 1, 3, 2, 2, 16, 4 *
                      Tables!GenreTable, 2, 1, 1, 4, 1, 7, 8 * Tables!LocaleTable>>
  <1>1. PICK n \in Nat : n = 26
    OBVIOUS
  <1>2. w \in [1..n -> Nat]
    BY <1>1, SmallWidths
  <1>3. Tables!MasterToc = Tables!SumOf(w)
    BY DEF Tables!MasterToc
  <1> HIDE DEF w
  <1>4. PICK t \in [0..n -> Nat] : /\ t[0] = 0 /\ \A k \in 1..n : t[k] = t[k - 1] + w[k]
                                   /\ Tables!SumOf(w) = t[n]
    BY <1>2, SumInTurn
  <1>5. /\ t[1] = 8 /\ t[2] = 10 /\ t[3] = 16 /\ t[4] = 18 /\ t[5] = 20 /\ t[6] = 24 /\ t[7] = 40 /\ t[8] = 56
    BY <1>1, <1>4, SmallWidths DEF w
  <1>6. /\ t[9] = 64 /\ t[10] = 68 /\ t[11] = 72 /\ t[12] = 76 /\ t[13] = 80 /\ t[14] = 81 /\ t[15] = 84
       /\ t[16] = 86
    BY <1>1, <1>4, <1>5, SmallWidths DEF w
  <1>7. /\ t[17] = 88 /\ t[18] = 104 /\ t[19] = 120 /\ t[20] = 122 /\ t[21] = 123 /\ t[22] = 124 /\ t[23] = 128
       /\ t[24] = 129
    BY <1>1, <1>4, <1>6, SmallWidths DEF w
  <1>8. /\ t[25] = 136 /\ t[26] = 168
    BY <1>1, <1>4, <1>7, SmallWidths DEF w
  <1> QED BY ONLY <1>1, <1>3, <1>4, <1>8

LEMMA AccessListWidth == Tables!AccessList = 65536
  <1> DEFINE w == <<8, 2, 1, 5, 6550 * 5, 2, 32768>>
  <1>1. PICK n \in Nat : n = 7
    OBVIOUS
  <1>2. w \in [1..n -> Nat]
    BY <1>1
  <1>3. Tables!AccessList = Tables!SumOf(w)
    BY DEF Tables!AccessList
  <1> HIDE DEF w
  <1>4. PICK t \in [0..n -> Nat] : /\ t[0] = 0 /\ \A k \in 1..n : t[k] = t[k - 1] + w[k]
                                   /\ Tables!SumOf(w) = t[n]
    BY <1>2, SumInTurn
  <1>5. /\ t[1] = 8 /\ t[2] = 10 /\ t[3] = 11 /\ t[4] = 16 /\ t[5] = 32766 /\ t[6] = 32768 /\ t[7] = 65536
    BY <1>1, <1>4 DEF w
  <1> QED BY ONLY <1>1, <1>3, <1>4, <1>5

LEMMA Widths ==
    /\ Tables!AreaToc = Tables!SACD_LSN_SIZE /\ Tables!MasterToc <= Tables!SACD_LSN_SIZE
    /\ Tables!MasterText = Tables!SACD_LSN_SIZE /\ Tables!MasterMan = Tables!SACD_LSN_SIZE
    /\ \A block \in Tables!Blocks : /\ Tables!SectorsOf(block) = Tables!Step(block)
                                    /\ Tables!Step(block) \in Nat \ {0}
  <1>1. \A block \in Tables!Blocks : Tables!SectorsOf(block) = Tables!Step(block)
    BY SmallWidths, AccessListWidth DEF Tables!Blocks, Tables!SectorsOf, Tables!Step, Tables!SACD_LSN_SIZE
  <1>2. \A block \in Tables!Blocks : Tables!Step(block) \in Nat \ {0}
    BY DEF Tables!Blocks, Tables!Step
  <1> QED BY <1>1, <1>2, SmallWidths, AreaTocWidth, MasterTocWidth DEF Tables!SACD_LSN_SIZE

LEMMA SumOfMore ==
    ASSUME NEW n \in Nat, NEW v \in [1..n -> Nat], NEW w \in [1..n + 1 -> Nat], \A k \in 1..n : v[k] = w[k]
    PROVE  Tables!SumOf(v) \in Nat /\ Tables!SumOf(w) = Tables!SumOf(v) + w[n + 1]
  <1>1. PICK t \in [0..n -> Nat] : /\ t[0] = 0 /\ \A k \in 1..n : t[k] = t[k - 1] + v[k]
                                   /\ Tables!SumOf(v) = t[n]
    BY SumInTurn
  <1>2. PICK m \in Nat : m = n + 1
    OBVIOUS
  <1>3. PICK u \in [0..m -> Nat] : /\ u[0] = 0 /\ \A k \in 1..m : u[k] = u[k - 1] + w[k]
                                   /\ Tables!SumOf(w) = u[m]
    BY <1>2, SumInTurn
  <1> DEFINE S == {k \in Nat : k <= n => t[k] = u[k]}
  <1>4. 0 \in S
    BY <1>1, <1>3
  <1>5. ASSUME NEW k \in Nat, k \in S PROVE k + 1 \in S
    <2>1. SUFFICES ASSUME k + 1 <= n PROVE t[k + 1] = u[k + 1]
      OBVIOUS
    <2>2. k + 1 \in 1..n /\ k + 1 \in 1..m /\ (k + 1) - 1 = k
      BY <1>2, <2>1
    <2>3. t[k + 1] = t[k] + v[k + 1] /\ u[k + 1] = u[k] + w[k + 1] /\ v[k + 1] = w[k + 1]
      BY <1>1, <1>3, <2>2
    <2> QED BY <1>5, <2>1, <2>3
  <1>6. t[n] = u[n]
    <2> HIDE DEF S
    <2>1. n \in S
      BY <1>4, <1>5, Induct
    <2> QED BY <2>1 DEF S
  <1>7. u[m] = u[n] + w[m] /\ t[n] \in Nat
    <2>1. m \in 1..m /\ m - 1 = n /\ n \in 0..n
      BY <1>2
    <2> QED BY <1>3, <2>1
  <1> QED BY <1>1, <1>2, <1>3, <1>6, <1>7
-----------------------------------------------------------------------------
(* The blocks of an area's table.                                          *)

BlocksOf(a) == disc.areas[a].blocks

\* A block begins where the one before ends.
LEMMA StartsAreApart ==
    ASSUME disc \in Discs, NEW a \in {1, 2}
    PROVE  /\ BlocksOf(a) \in Seq(Tables!Blocks) /\ Tables!StartOf(a, 1) = 1
           /\ \A i \in 1..Len(BlocksOf(a)) :
                 /\ Tables!StartOf(a, i) \in Nat \ {0}
                 /\ Tables!StartOf(a, i + 1) = Tables!StartOf(a, i) + Tables!SectorsOf(BlocksOf(a)[i])
                 /\ Tables!SectorsOf(BlocksOf(a)[i]) \in Nat \ {0}
                 /\ Tables!StartOf(a, i + 1) \in Nat \ {0}
  <1> DEFINE bl == BlocksOf(a)
             w(i) == [k \in 1..i |-> Tables!SectorsOf(bl[k])]
  <1>1. bl \in Seq(Tables!Blocks)
    BY TablesAssumption DEF Tables!DiscsAssumption, Tables!AreaNumbers, BlocksOf
  <1>2. \A i \in 1..Len(bl) : Tables!SectorsOf(bl[i]) \in Nat \ {0}
    BY <1>1, Widths
  <1>3. \A i \in Nat : i <= Len(bl) => w(i) \in [1..i -> Nat]
    BY <1>2
  <1>4. Tables!StartOf(a, 1) = 1
    <2>1. PICK n \in Nat : n = 0
      OBVIOUS
    <2>2. PICK v : v = w(n)
      OBVIOUS
    <2>3. v \in [1..n -> Nat]
      BY <1>1, <1>3, <2>1, <2>2
    <2>4. PICK t \in [0..n -> Nat] : t[0] = 0 /\ Tables!SumOf(v) = t[n]
      BY <2>3, SumInTurn
    <2>5. Tables!StartOf(a, 1) = 1 + Tables!SumOf(w(n))
      BY <2>1 DEF Tables!StartOf, BlocksOf
    <2> QED BY <2>1, <2>2, <2>4, <2>5
  <1>5. ASSUME NEW i \in 1..Len(bl)
        PROVE  /\ Tables!StartOf(a, i) \in Nat \ {0}
               /\ Tables!StartOf(a, i + 1) = Tables!StartOf(a, i) + Tables!SectorsOf(bl[i])
    <2>1. PICK n \in Nat : n = i - 1
      OBVIOUS
    <2>2. w(n) \in [1..n -> Nat] /\ w(n + 1) \in [1..n + 1 -> Nat] /\ w(n + 1)[n + 1] = Tables!SectorsOf(bl[i])
      BY <1>3, <2>1
    <2>3. \A k \in 1..n : w(n)[k] = w(n + 1)[k]
      OBVIOUS
    <2>4. Tables!StartOf(a, i) = 1 + Tables!SumOf(w(n)) /\ Tables!StartOf(a, i + 1) = 1 + Tables!SumOf(w(n + 1))
      BY <2>1 DEF Tables!StartOf, BlocksOf
    <2> HIDE DEF w
    <2>5. Tables!SumOf(w(n)) \in Nat /\ Tables!SumOf(w(n + 1)) = Tables!SumOf(w(n)) + w(n + 1)[n + 1]
      BY <2>2, <2>3, SumOfMore
    <2> QED BY <1>2, <2>2, <2>4, <2>5
  <1> QED BY <1>1, <1>2, <1>4, <1>5

\* The sectors behind an area's table: each block is where it should be.
AnyBlock == Tables!Blocks \cup {Tables!Data}
SectorsWith(s, block) == s \o <<block>> \o [i \in 1..Tables!SectorsOf(block) - 1 |-> Tables!Data]

LEMMA Joined ==
    ASSUME NEW S, NEW s \in Seq(S), NEW t \in Seq(S)
    PROVE  s \o t \in Seq(S) /\ Len(s \o t) = Len(s) + Len(t) /\ \A i \in 1..Len(s) : (s \o t)[i] = s[i]
  OBVIOUS

LEMMA Appended ==
    ASSUME NEW S, NEW s \in Seq(S), NEW x \in S
    PROVE  /\ s \o <<x>> \in Seq(S) /\ Len(s \o <<x>>) = Len(s) + 1 /\ (s \o <<x>>)[Len(s) + 1] = x
           /\ \A i \in 1..Len(s) : (s \o <<x>>)[i] = s[i]
  OBVIOUS

LEMMA SectorsAdded ==
    ASSUME NEW s \in Seq(AnyBlock), NEW block \in Tables!Blocks
    PROVE  /\ SectorsWith(s, block) \in Seq(AnyBlock)
           /\ Len(SectorsWith(s, block)) = Len(s) + Tables!SectorsOf(block)
           /\ SectorsWith(s, block)[Len(s) + 1] = block
           /\ \A i \in 1..Len(s) : SectorsWith(s, block)[i] = s[i]
  <1> DEFINE m == Tables!SectorsOf(block) - 1
             d == [i \in 1..m |-> Tables!Data]
             e == s \o <<block>>
  <1>1. m \in Nat /\ Tables!SectorsOf(block) = m + 1
    BY Widths
  <1>2. SectorsWith(s, block) = e \o d
    BY DEF SectorsWith
  <1>3. block \in AnyBlock /\ Tables!Data \in AnyBlock
    BY DEF AnyBlock
  <1> HIDE DEF m
  <1>4. d \in Seq(AnyBlock) /\ Len(d) = m
    BY <1>1, <1>3
  <1>5. /\ e \in Seq(AnyBlock) /\ Len(e) = Len(s) + 1 /\ e[Len(s) + 1] = block
        /\ \A i \in 1..Len(s) : e[i] = s[i]
    BY <1>3, Appended
  <1> HIDE DEF d, e
  <1>6. e \o d \in Seq(AnyBlock) /\ Len(e \o d) = Len(e) + m /\ \A i \in 1..Len(e) : (e \o d)[i] = e[i]
    BY <1>4, <1>5, Joined
  <1>7. Len(s) + 1 \in 1..Len(e) /\ \A i \in 1..Len(s) : i \in 1..Len(e)
    BY <1>5
  <1> QED BY <1>1, <1>2, <1>5, <1>6, <1>7

LEMMA SectorsInTurn ==
    ASSUME disc \in Discs, NEW a \in {1, 2}
    PROVE  \E t : /\ t[0] = <<>> /\ \A k \in 1..Len(BlocksOf(a)) : t[k] = SectorsWith(t[k - 1], BlocksOf(a)[k])
                  /\ Tables!Sectors(disc.areas[a]) = t[Len(BlocksOf(a))]
  <1> DEFINE w == BlocksOf(a)
             n == Len(w)
             F == [p \in Seq(AnyBlock) \X (1..n) |-> SectorsWith(p[1], w[p[2]])]
             Is(g) == g = [s \in SUBSET (1..n) |->
                             IF s = {} THEN <<>> ELSE SectorsWith(g[s \ {Tables!Max(s)}], w[Tables!Max(s)])]
             g == CHOOSE g : Is(g)
  <1>0. w \in Seq(Tables!Blocks) /\ n \in Nat /\ DOMAIN w = 1..n /\ \A k \in 1..n : w[k] \in Tables!Blocks
    BY StartsAreApart
  <1>1. \E h : Is(h)
    <2>1. F \in [Seq(AnyBlock) \X (1..n) -> Seq(AnyBlock)] /\ <<>> \in Seq(AnyBlock)
      BY <1>0, SectorsAdded
    <2>2. PICK h : Folding(h, n, <<>>, F) /\ \A s \in SUBSET (1..n) : h[s] \in Seq(AnyBlock)
      BY <1>0, <2>1, FoldingExists
    <2>3. ASSUME NEW s \in SUBSET (1..n), s # {}
          PROVE  F[<<h[s \ {Tables!Max(s)}], Tables!Max(s)>>] = SectorsWith(h[s \ {Tables!Max(s)}], w[Tables!Max(s)])
      <3>1. Tables!Max(s) \in 1..n
        BY <1>0, <2>3, GreatestIsIn
      <3> QED BY <2>2, <3>1
    <2> HIDE DEF F
    <2>4. h = [s \in SUBSET (1..n) |-> IF s = {} THEN <<>> ELSE SectorsWith(h[s \ {Tables!Max(s)}], w[Tables!Max(s)])]
      BY <2>2, <2>3 DEF Folding
    <2> QED BY <2>4
  <1>2. Is(g)
    BY <1>1
  <1>3. Tables!Sectors(disc.areas[a]) = g[1..n]
    BY <1>0 DEF Tables!Sectors, Tables!FoldLeft, Tables!MapThenFoldSet, SectorsWith, BlocksOf
  <1> HIDE DEF g, F, n
  <1>4. g[1..0] = <<>> /\ \A k \in Nat : k + 1 <= n => g[1..k + 1] = SectorsWith(g[1..k], w[k + 1])
    <2>1. g[1..0] = <<>>
      BY <1>2, TopOf
    <2>2. ASSUME NEW k \in Nat, k + 1 <= n PROVE g[1..k + 1] = SectorsWith(g[1..k], w[k + 1])
      <3>1. /\ 1..k + 1 \in SUBSET (1..n) /\ 1..k + 1 # {}
            /\ (1..k + 1) \ {Tables!Max(1..k + 1)} = 1..k /\ Tables!Max(1..k + 1) = k + 1
        BY <1>0, <2>2, TopOf
      <3>2. g[1..k + 1] = SectorsWith(g[(1..k + 1) \ {Tables!Max(1..k + 1)}], w[Tables!Max(1..k + 1)])
        BY <1>2, <3>1
      <3> QED BY <3>1, <3>2
    <2> QED BY <2>1, <2>2
  <1> HIDE DEF Is
  <1> DEFINE t == [k \in 0..n |-> g[1..k]]
  <1>5. \A k \in 1..n : t[k] = SectorsWith(t[k - 1], w[k])
    <2> SUFFICES ASSUME NEW k \in 1..n PROVE t[k] = SectorsWith(t[k - 1], w[k])
      OBVIOUS
    <2>1. k - 1 \in Nat /\ k - 1 \in 0..n /\ k \in 0..n /\ (k - 1) + 1 = k /\ k <= n
      BY <1>0
    <2> QED BY <1>4, <2>1
  <1>6. t[0] = <<>> /\ t[n] = g[1..n]
    BY <1>0, <1>4
  <1> QED BY <1>3, <1>5, <1>6 DEF n

\* Behind the table, every block is where it should be.
LEMMA SectorsHoldTheBlocks ==
    ASSUME disc \in Discs, NEW a \in {1, 2}
    PROVE  /\ Tables!Sectors(disc.areas[a]) \in Seq(AnyBlock)
           /\ Len(Tables!Sectors(disc.areas[a])) = Tables!StartOf(a, Len(BlocksOf(a)) + 1) - 1
           /\ Len(BlocksOf(a)) <= Len(Tables!Sectors(disc.areas[a]))
           /\ \A i \in 1..Len(BlocksOf(a)) :
                 /\ Tables!StartOf(a, i) \in 1..Len(Tables!Sectors(disc.areas[a]))
                 /\ Tables!Sectors(disc.areas[a])[Tables!StartOf(a, i)] = BlocksOf(a)[i]
  <1>1. PICK t : /\ t[0] = <<>> /\ \A k \in 1..Len(BlocksOf(a)) : t[k] = SectorsWith(t[k - 1], BlocksOf(a)[k])
                 /\ Tables!Sectors(disc.areas[a]) = t[Len(BlocksOf(a))]
    BY SectorsInTurn
  <1>2. PICK bl \in Seq(Tables!Blocks) : bl = BlocksOf(a)
    BY StartsAreApart
  <1>3. PICK start : start = [i \in 1..Len(bl) + 1 |-> Tables!StartOf(a, i)]
    OBVIOUS
  <1>4. /\ start[1] = 1 /\ Len(bl) \in Nat
        /\ \A i \in 1..Len(bl) : /\ start[i] \in Nat \ {0} /\ start[i + 1] = start[i] + Tables!SectorsOf(bl[i])
                                 /\ bl[i] \in Tables!Blocks /\ Tables!SectorsOf(bl[i]) \in Nat \ {0}
    <2>1. Tables!StartOf(a, 1) = 1 /\ Len(bl) \in Nat
      BY <1>2, StartsAreApart
    <2>2. ASSUME NEW i \in 1..Len(bl)
          PROVE  /\ Tables!StartOf(a, i) \in Nat \ {0}
                 /\ Tables!StartOf(a, i + 1) = Tables!StartOf(a, i) + Tables!SectorsOf(bl[i])
                 /\ bl[i] \in Tables!Blocks /\ Tables!SectorsOf(bl[i]) \in Nat \ {0}
      BY <1>2, StartsAreApart
    <2>3. \A i \in 1..Len(bl) : i \in 1..Len(bl) + 1 /\ i + 1 \in 1..Len(bl) + 1
      BY <2>1
    <2>4. 1 \in 1..Len(bl) + 1
      BY <2>1
    <2> QED BY <1>3, <2>1, <2>2, <2>3, <2>4
  <1> DEFINE Right(k) == /\ t[k] \in Seq(AnyBlock) /\ Len(t[k]) = start[k + 1] - 1 /\ k <= Len(t[k])
                         /\ \A i \in 1..k : start[i] \in 1..Len(t[k]) /\ t[k][start[i]] = bl[i]
             S == {k \in Nat : k <= Len(bl) => Right(k)}
  <1>5. 0 \in S
    <2>1. t[0] = <<>>
      BY <1>1
    <2>2. <<>> \in Seq(AnyBlock) /\ Len(<<>>) = 0
      OBVIOUS
    <2>3. start[0 + 1] = 1 /\ 1..0 = {}
      BY <1>4
    <2>4. Right(0)
      BY <2>1, <2>2, <2>3
    <2> HIDE DEF Right
    <2> QED BY <2>4
  <1>6. ASSUME NEW k \in Nat, k \in S PROVE k + 1 \in S
    <2>1. SUFFICES ASSUME k + 1 <= Len(bl) PROVE Right(k + 1)
      OBVIOUS
    <2>2. k + 1 \in 1..Len(bl) /\ Right(k) /\ (k + 1) - 1 = k
      BY <1>4, <1>6, <2>1
    <2>3. PICK s \in Seq(AnyBlock) : s = t[k]
      BY <2>2
    <2>4. PICK e : e = SectorsWith(s, bl[k + 1])
      OBVIOUS
    <2>5. /\ e \in Seq(AnyBlock) /\ Len(e) = Len(s) + Tables!SectorsOf(bl[k + 1])
          /\ e[Len(s) + 1] = bl[k + 1] /\ \A i \in 1..Len(s) : e[i] = s[i]
      <3>1. PICK block \in Tables!Blocks : block = bl[k + 1]
        BY <1>4, <2>2
      <3> HIDE DEF S, Right
      <3>2. e = SectorsWith(s, block)
        BY <2>4, <3>1
      <3> QED BY ONLY <3>1, <3>2, SectorsAdded
    <2>6. t[k + 1] = e
      BY <1>1, <1>2, <2>2, <2>3, <2>4
    <2>7. PICK w \in Nat \ {0} : w = Tables!SectorsOf(bl[k + 1])
      BY <1>4, <2>2
    <2>8. Len(s) = start[k + 1] - 1 /\ start[k + 1] \in Nat \ {0} /\ start[(k + 1) + 1] = start[k + 1] + w /\ k <= Len(s)
      BY <1>4, <2>2, <2>3, <2>7
    <2>9. ASSUME NEW i \in 1..k + 1 PROVE start[i] \in 1..Len(e) /\ e[start[i]] = bl[i]
      <3>1. CASE i = k + 1
        BY <2>5, <2>7, <2>8, <3>1
      <3>2. CASE i # k + 1
        <4>1. i \in 1..k
          BY <3>2
        <4>2. start[i] \in 1..Len(s) /\ s[start[i]] = bl[i]
          BY <2>2, <2>3, <4>1
        <4> QED BY <2>5, <2>7, <4>2
      <3> QED BY <3>1, <3>2
    <2>10. Len(e) = start[(k + 1) + 1] - 1 /\ k + 1 <= Len(e)
      BY <2>5, <2>7, <2>8
    <2> QED BY <2>5, <2>6, <2>9, <2>10
  <1>7. Right(Len(bl))
    <2> HIDE DEF Right
    <2>1. Nat \subseteq S
      <3> HIDE DEF S
      <3> QED BY <1>5, <1>6, Induct
    <2> QED BY <1>4, <2>1
  <1>8. \A i \in 1..Len(bl) + 1 : start[i] = Tables!StartOf(a, i)
    BY <1>3
  <1>9. Len(bl) + 1 \in 1..Len(bl) + 1 /\ \A i \in 1..Len(bl) : i \in 1..Len(bl) + 1
    BY <1>4
  <1>10. Tables!Sectors(disc.areas[a]) = t[Len(bl)]
    BY <1>1, <1>2
  <1> QED BY <1>2, <1>7, <1>8, <1>9, <1>10
-----------------------------------------------------------------------------
(* The parser, one turn after the other.                                   *)

FoundTables == [text : Nat, genres : Nat, offsets : Nat, times : Nat, texts : Nat]
Turns == [p : Nat \ {0}, stopped : BOOLEAN, found : FoundTables]
FirstTurn == [p |-> 1, stopped |-> FALSE, found |-> Tables!NothingFound]
Turned(s, u) ==
    IF u.p > Len(s) \/ u.stopped THEN u
    ELSE LET block == s[u.p] IN
         IF block \in {"unknown", Tables!Data} THEN [u EXCEPT !.stopped = TRUE]
         ELSE [u EXCEPT !.found = Tables!TakeBlock(@, u.p, block), !.p = @ + Tables!Step(block)]

LEMMA TakenBlock ==
    ASSUME NEW f \in FoundTables, NEW p \in Nat, NEW block
    PROVE  /\ Tables!TakeBlock(f, p, block) \in FoundTables
           /\ LET g == Tables!TakeBlock(f, p, block) IN
              /\ g.text = IF block = "SACDTTxt" /\ f.texts = 0 THEN p ELSE f.text
              /\ g.texts = IF block = "SACDTTxt" THEN f.texts + 1 ELSE f.texts
              /\ g.genres = IF block = "SACD_IGL" THEN p ELSE f.genres
              /\ g.offsets = IF block = "SACDTRL1" THEN p ELSE f.offsets
              /\ g.times = IF block = "SACDTRL2" THEN p ELSE f.times
  <1>1. CASE block = "SACDTTxt"
    <2>1. Tables!TakeBlock(f, p, block) = [f EXCEPT !.text = IF f.texts = 0 THEN p ELSE @, !.texts = @ + 1]
      BY <1>1 DEF Tables!TakeBlock
    <2>2. f.text \in Nat /\ f.texts + 1 \in Nat
      BY DEF FoundTables
    <2> QED BY <1>1, <2>1, <2>2 DEF FoundTables
  <1>2. CASE block = "SACD_IGL"
    BY <1>2 DEF Tables!TakeBlock, FoundTables
  <1>3. CASE block = "SACDTRL1"
    BY <1>3 DEF Tables!TakeBlock, FoundTables
  <1>4. CASE block = "SACDTRL2"
    BY <1>4 DEF Tables!TakeBlock, FoundTables
  <1>5. CASE block \notin {"SACDTTxt", "SACD_IGL", "SACDTRL1", "SACDTRL2"}
    BY <1>5 DEF Tables!TakeBlock, FoundTables
  <1> QED BY <1>1, <1>2, <1>3, <1>4, <1>5

LEMMA TurnedType ==
    ASSUME NEW s \in Seq(AnyBlock), NEW u \in Turns
    PROVE  Turned(s, u) \in Turns
  <1>1. u.p \in Nat \ {0} /\ u.stopped \in BOOLEAN /\ u.found \in FoundTables
    BY DEF Turns
  <1>2. CASE u.p > Len(s) \/ u.stopped
    BY <1>2 DEF Turned
  <1>3. CASE ~(u.p > Len(s) \/ u.stopped)
    <2>1. PICK block : block = s[u.p]
      OBVIOUS
    <2>2. CASE block \in {"unknown", Tables!Data}
      BY <1>3, <2>1, <2>2 DEF Turned, Turns
    <2>3. CASE block \notin {"unknown", Tables!Data}
      <3>1. u.p \in 1..Len(s)
        BY <1>1, <1>3
      <3>2. block \in Tables!Blocks
        BY <2>1, <2>3, <3>1 DEF AnyBlock
      <3>3. Tables!Step(block) \in Nat \ {0} /\ Tables!TakeBlock(u.found, u.p, block) \in FoundTables
        BY <1>1, <3>2, Widths, TakenBlock
      <3>4. Turned(s, u) = [u EXCEPT !.found = Tables!TakeBlock(@, u.p, block), !.p = @ + Tables!Step(block)]
        BY <1>3, <2>1, <2>3 DEF Turned
      <3>5. u.p + Tables!Step(block) \in Nat \ {0}
        BY <1>1, <3>3
      <3> QED BY <3>3, <3>4, <3>5 DEF Turns
    <2> QED BY <2>2, <2>3
  <1> QED BY <1>2, <1>3

LEMMA ParseInTurn ==
    ASSUME NEW s \in Seq(AnyBlock)
    PROVE  \E t : /\ t[0] = FirstTurn /\ \A k \in 1..Len(s) : t[k] = Turned(s, t[k - 1])
                  /\ Tables!ParseBlocks(s) = t[Len(s)].found
  <1>0. PICK n \in Nat : n = Len(s)
    OBVIOUS
  <1> DEFINE F == [p \in Turns \X (1..n) |-> Turned(s, p[1])]
             Is(g) == g = [r \in SUBSET (1..n) |->
                             IF r = {} THEN FirstTurn ELSE Turned(s, g[r \ {Tables!Max(r)}])]
             g == CHOOSE g : Is(g)
  <1>1. \E h : Is(h)
    <2>1. F \in [Turns \X (1..n) -> Turns]
      BY TurnedType
    <2>2. FirstTurn \in Turns
      BY DEF FirstTurn, Turns, FoundTables, Tables!NothingFound, Tables!NoBlock
    <2>3. PICK h : Folding(h, n, FirstTurn, F) /\ \A r \in SUBSET (1..n) : h[r] \in Turns
      BY <2>1, <2>2, FoldingExists
    <2>4. ASSUME NEW r \in SUBSET (1..n), r # {}
          PROVE  F[<<h[r \ {Tables!Max(r)}], Tables!Max(r)>>] = Turned(s, h[r \ {Tables!Max(r)}])
      <3>1. Tables!Max(r) \in 1..n
        BY <2>4, GreatestIsIn
      <3> QED BY <2>3, <3>1
    <2> HIDE DEF F
    <2>5. h = [r \in SUBSET (1..n) |-> IF r = {} THEN FirstTurn ELSE Turned(s, h[r \ {Tables!Max(r)}])]
      BY <2>3, <2>4 DEF Folding
    <2> QED BY <2>5
  <1>2. Is(g)
    BY <1>1
  <1>3. Tables!ParseBlocks(s) = g[1..n].found
    <2>1. DOMAIN [k \in 1..n |-> k] = 1..n
      OBVIOUS
    <2> QED BY <1>0, <2>1 DEF Tables!ParseBlocks, Tables!FoldLeft, Tables!MapThenFoldSet, Turned, FirstTurn
  <1> HIDE DEF g, F
  <1>4. g[1..0] = FirstTurn /\ \A k \in Nat : k + 1 <= n => g[1..k + 1] = Turned(s, g[1..k])
    <2>1. g[1..0] = FirstTurn
      BY <1>2, TopOf
    <2>2. ASSUME NEW k \in Nat, k + 1 <= n PROVE g[1..k + 1] = Turned(s, g[1..k])
      <3>1. /\ 1..k + 1 \in SUBSET (1..n) /\ 1..k + 1 # {}
            /\ (1..k + 1) \ {Tables!Max(1..k + 1)} = 1..k
        BY <2>2, TopOf
      <3>2. g[1..k + 1] = Turned(s, g[(1..k + 1) \ {Tables!Max(1..k + 1)}])
        BY <1>2, <3>1
      <3> QED BY <3>1, <3>2
    <2> QED BY <2>1, <2>2
  <1> HIDE DEF Is
  <1> DEFINE t == [k \in 0..n |-> g[1..k]]
  <1>5. \A k \in 1..n : t[k] = Turned(s, t[k - 1])
    <2> SUFFICES ASSUME NEW k \in 1..n PROVE t[k] = Turned(s, t[k - 1])
      OBVIOUS
    <2>1. k - 1 \in Nat /\ k - 1 \in 0..n /\ k \in 0..n /\ (k - 1) + 1 = k /\ k <= n
      OBVIOUS
    <2>2. t[k] = g[1..(k - 1) + 1] /\ t[k - 1] = g[1..k - 1]
      BY <2>1
    <2> QED BY <1>4, <2>1, <2>2
  <1>6. t[0] = FirstTurn /\ t[n] = g[1..n]
    BY <1>4
  <1> QED BY <1>0, <1>3, <1>5, <1>6

\* A table is found at the first block of its kind, or the last, of those that
\* have been passed.
At(a, block, k) == {Tables!StartOf(a, i) : i \in {j \in 1..k : BlocksOf(a)[j] = block}}

LEMMA LeastOfMore ==
    ASSUME NEW S \in SUBSET Nat, NEW x \in Nat, \A y \in S : y < x
    PROVE  Tables!Least(S \cup {x}) = IF S = {} THEN x ELSE Tables!Least(S)
  <1>1. CASE S = {}
    BY <1>1 DEF Tables!Least
  <1>2. CASE S # {}
    <2>1. PICK m \in S : \A y \in S : m <= y
      BY <1>2, LeastIsIn
    <2> DEFINE T == S \cup {x}
               c == CHOOSE z \in S : \A y \in S : z <= y
               e == CHOOSE z \in T : \A y \in T : z <= y
    <2>2. c \in S /\ \A y \in S : c <= y
      BY <2>1
    <2>3. m \in T /\ \A y \in T : m <= y
      BY <2>1
    <2>4. e \in T /\ \A y \in T : e <= y
      <3> HIDE DEF T
      <3> QED BY <2>3
    <2>5. m \in Nat /\ c \in Nat /\ e \in Nat /\ m <= c /\ c <= m /\ m <= e /\ e <= m
      BY <2>1, <2>2, <2>3, <2>4
    <2>6. Tables!Least(T) = e /\ Tables!Least(S) = c
      BY <1>2 DEF Tables!Least
    <2> HIDE DEF c, e
    <2> QED BY <1>2, <2>5, <2>6
  <1> QED BY <1>1, <1>2

LEMMA GreatestOfMore ==
    ASSUME NEW S \in SUBSET Nat, NEW x \in Nat, \A y \in S : y < x
    PROVE  Tables!Greatest(S \cup {x}) = x
  <1> DEFINE T == S \cup {x}
             e == CHOOSE z \in T : \A y \in T : y <= z
  <1>1. x \in T /\ \A y \in T : y <= x
    OBVIOUS
  <1>2. e \in T /\ \A y \in T : y <= e
    <2> HIDE DEF T
    <2> QED BY <1>1
  <1>3. e \in Nat /\ e <= x /\ x <= e
    BY <1>1, <1>2
  <1>4. Tables!Greatest(T) = e
    BY <1>1 DEF Tables!Greatest
  <1> HIDE DEF e
  <1> QED BY <1>3, <1>4

LEMMA AtMore ==
    ASSUME NEW a, NEW k \in Nat
    PROVE  \A block : At(a, block, k + 1) =
              IF BlocksOf(a)[k + 1] = block THEN At(a, block, k) \cup {Tables!StartOf(a, k + 1)} ELSE At(a, block, k)
  BY DEF At

LEMMA AtBelow ==
    ASSUME disc \in Discs, NEW a \in {1, 2}
    PROVE  \A k \in Nat : k <= Len(BlocksOf(a)) =>
              \A block : /\ At(a, block, k) \in SUBSET Nat
                         /\ \A y \in At(a, block, k) : y < Tables!StartOf(a, k + 1)
  <1> DEFINE n == Len(BlocksOf(a))
             st(i) == Tables!StartOf(a, i)
             S == {k \in Nat : k <= n => \A i \in 1..k : st(i) < st(k + 1)}
  <1>1. n \in Nat /\ st(1) = 1
        /\ \A i \in 1..n : st(i) \in Nat /\ st(i + 1) \in Nat /\ st(i) < st(i + 1)
    <2>1. n \in Nat /\ st(1) = 1
      BY StartsAreApart
    <2>2. ASSUME NEW i \in 1..n PROVE st(i) \in Nat /\ st(i + 1) \in Nat /\ st(i) < st(i + 1)
      <3>1. PICK w \in Nat \ {0} : w = Tables!SectorsOf(BlocksOf(a)[i])
        BY StartsAreApart
      <3> QED BY <3>1, StartsAreApart
    <2> QED BY <2>1, <2>2
  <1> HIDE DEF n, st
  <1>2. 0 \in S
    OBVIOUS
  <1>3. ASSUME NEW k \in Nat, k \in S PROVE k + 1 \in S
    <2>1. SUFFICES ASSUME k + 1 <= n, NEW i \in 1..k + 1 PROVE st(i) < st((k + 1) + 1)
      OBVIOUS
    <2>2. k + 1 \in 1..n
      BY <1>1, <2>1
    <2>3. CASE i = k + 1
      BY <1>1, <2>2, <2>3
    <2>4. CASE i # k + 1
      <3>1. i \in 1..k /\ i \in 1..n /\ k <= n
        BY <1>1, <2>1, <2>4
      <3>2. st(i) < st(k + 1) /\ st(k + 1) < st((k + 1) + 1) /\ st(i) \in Nat
            /\ st(k + 1) \in Nat /\ st((k + 1) + 1) \in Nat
        BY <1>1, <1>3, <2>2, <3>1
      <3> QED BY <3>2
    <2> QED BY <2>3, <2>4
  <1>4. Nat \subseteq S
    <2> HIDE DEF S
    <2> QED BY <1>2, <1>3, Induct
  <1>5. SUFFICES ASSUME NEW k \in Nat, k <= n, NEW block
                 PROVE  At(a, block, k) \in SUBSET Nat /\ \A y \in At(a, block, k) : y < st(k + 1)
    BY DEF n, st
  <1>6. \A i \in 1..k : st(i) \in Nat /\ st(i) < st(k + 1)
    BY <1>1, <1>4, <1>5
  <1> QED BY <1>6 DEF At, st

LEMMA KnownBlocks ==
    ASSUME disc \in Discs, NEW a \in {1, 2}
    PROVE  /\ Tables!Known(a) \in Nat /\ Tables!Known(a) <= Len(BlocksOf(a))
           /\ \A i \in 1..Tables!Known(a) : BlocksOf(a)[i] \in Tables!Blocks \ {"unknown"}
           /\ Tables!Known(a) < Len(BlocksOf(a)) => BlocksOf(a)[Tables!Known(a) + 1] = "unknown"
  <1>1. PICK bl \in Seq(Tables!Blocks) : bl = BlocksOf(a)
    BY StartsAreApart
  <1>2. PICK e : e = bl \o <<"unknown">>
    OBVIOUS
  <1>3. /\ e \in Seq(Tables!Blocks) /\ Len(e) = Len(bl) + 1 /\ e[Len(bl) + 1] = "unknown"
        /\ \A i \in 1..Len(bl) : e[i] = bl[i]
    <2>1. "unknown" \in Tables!Blocks
      BY DEF Tables!Blocks
    <2> QED BY <1>2, <2>1, Appended
  <1> DEFINE I == {i \in 1..Len(e) : e[i] = "unknown"}
  <1>4. Len(bl) + 1 \in I /\ I \in SUBSET Nat
    BY <1>3
  <1>5. Tables!Known(a) = Tables!Min(I) - 1
    BY <1>1, <1>2, <1>4 DEF Tables!Known, Tables!SelectInSeq, BlocksOf
  <1>6. PICK m : m = Tables!Min(I)
    OBVIOUS
  <1>7. m \in I /\ \A x \in I : m <= x
    <2> HIDE DEF I
    <2> QED BY <1>4, <1>6, LeastIsIn
  <1>8. m \in 1..Len(bl) + 1 /\ Tables!Known(a) = m - 1 /\ Len(bl) \in Nat
    BY <1>3, <1>5, <1>6, <1>7
  <1>9. ASSUME NEW i \in 1..m - 1 PROVE bl[i] \in Tables!Blocks \ {"unknown"}
    <2>1. i \in 1..Len(bl) /\ i \in 1..Len(e) /\ i < m
      BY <1>3, <1>8
    <2> QED BY <1>3, <1>7, <2>1
  <1>10. ASSUME m - 1 < Len(bl) PROVE bl[m] = "unknown"
    <2>1. m \in 1..Len(bl)
      BY <1>8, <1>10
    <2> QED BY <1>3, <1>7, <2>1
  <1> QED BY <1>1, <1>8, <1>9, <1>10

FoundUpTo(a, f, k) ==
    /\ f \in FoundTables
    /\ f.texts = 0 <=> At(a, "SACDTTxt", k) = {}
    /\ f.text = Tables!Least(At(a, "SACDTTxt", k))
    /\ f.genres = Tables!Greatest(At(a, "SACD_IGL", k))
    /\ f.offsets = Tables!Greatest(At(a, "SACDTRL1", k))
    /\ f.times = Tables!Greatest(At(a, "SACDTRL2", k))

LEMMA OneMoreFound ==
    ASSUME disc \in Discs, NEW a \in {1, 2}, NEW k \in Nat, k + 1 <= Len(BlocksOf(a)),
           NEW f, FoundUpTo(a, f, k)
    PROVE  FoundUpTo(a, Tables!TakeBlock(f, Tables!StartOf(a, k + 1), BlocksOf(a)[k + 1]), k + 1)
  <1>1. PICK p \in Nat : p = Tables!StartOf(a, k + 1)
    BY StartsAreApart
  <1>2. PICK block : block = BlocksOf(a)[k + 1]
    OBVIOUS
  <1>3. PICK g : g = Tables!TakeBlock(f, p, block)
    OBVIOUS
  <1>4. /\ g \in FoundTables
        /\ g.text = IF block = "SACDTTxt" /\ f.texts = 0 THEN p ELSE f.text
        /\ g.texts = IF block = "SACDTTxt" THEN f.texts + 1 ELSE f.texts
        /\ g.genres = IF block = "SACD_IGL" THEN p ELSE f.genres
        /\ g.offsets = IF block = "SACDTRL1" THEN p ELSE f.offsets
        /\ g.times = IF block = "SACDTRL2" THEN p ELSE f.times
    BY <1>3, TakenBlock DEF FoundUpTo
  <1>5. \A b : /\ At(a, b, k + 1) = IF block = b THEN At(a, b, k) \cup {p} ELSE At(a, b, k)
               /\ At(a, b, k) \in SUBSET Nat /\ \A y \in At(a, b, k) : y < p
    <2>1. Len(BlocksOf(a)) \in Nat /\ k <= Len(BlocksOf(a))
      BY StartsAreApart
    <2> SUFFICES ASSUME NEW b
                 PROVE  /\ At(a, b, k + 1) = IF block = b THEN At(a, b, k) \cup {p} ELSE At(a, b, k)
                        /\ At(a, b, k) \in SUBSET Nat /\ \A y \in At(a, b, k) : y < p
      OBVIOUS
    <2>2. At(a, b, k + 1) = IF block = b THEN At(a, b, k) \cup {p} ELSE At(a, b, k)
      <3>1. At(a, b, k + 1) = IF BlocksOf(a)[k + 1] = b THEN At(a, b, k) \cup {Tables!StartOf(a, k + 1)}
                             ELSE At(a, b, k)
        BY AtMore
      <3> QED BY ONLY <1>1, <1>2, <3>1
    <2>3. At(a, b, k) \in SUBSET Nat /\ \A y \in At(a, b, k) : y < p
      BY <1>1, <2>1, AtBelow
    <2> QED BY <2>2, <2>3
  <1>6. \A b : Tables!Greatest(At(a, b, k + 1)) = IF block = b THEN p ELSE Tables!Greatest(At(a, b, k))
    <2> SUFFICES ASSUME NEW b
                 PROVE  Tables!Greatest(At(a, b, k + 1)) = IF block = b THEN p ELSE Tables!Greatest(At(a, b, k))
      OBVIOUS
    <2>1. PICK S \in SUBSET Nat : S = At(a, b, k) /\ \A y \in S : y < p
      BY <1>5
    <2>2. Tables!Greatest(S \cup {p}) = p
      BY <2>1, GreatestOfMore
    <2> QED BY <1>5, <2>1, <2>2
  <1>7. Tables!Least(At(a, "SACDTTxt", k + 1)) =
            IF block = "SACDTTxt" /\ At(a, "SACDTTxt", k) = {} THEN p ELSE Tables!Least(At(a, "SACDTTxt", k))
    <2>1. PICK S \in SUBSET Nat : S = At(a, "SACDTTxt", k) /\ \A y \in S : y < p
      BY <1>5
    <2>2. Tables!Least(S \cup {p}) = IF S = {} THEN p ELSE Tables!Least(S)
      BY <2>1, LeastOfMore
    <2>3. At(a, "SACDTTxt", k + 1) = IF block = "SACDTTxt" THEN S \cup {p} ELSE S
      BY <1>5, <2>1
    <2> QED BY <2>1, <2>2, <2>3
  <1>8. g.texts = 0 <=> At(a, "SACDTTxt", k + 1) = {}
    <2>1. f.texts \in Nat /\ (f.texts = 0 <=> At(a, "SACDTTxt", k) = {})
      BY DEF FoundUpTo, FoundTables
    <2>2. At(a, "SACDTTxt", k + 1) = IF block = "SACDTTxt" THEN At(a, "SACDTTxt", k) \cup {p} ELSE At(a, "SACDTTxt", k)
      BY <1>5
    <2>3. g.texts = IF block = "SACDTTxt" THEN f.texts + 1 ELSE f.texts
      BY <1>4
    <2>4. CASE block = "SACDTTxt"
      <3>1. g.texts # 0
        BY <2>1, <2>3, <2>4
      <3>2. p \in At(a, "SACDTTxt", k + 1)
        BY <2>2, <2>4
      <3> QED BY <3>1, <3>2
    <2>5. CASE block # "SACDTTxt"
      BY <2>1, <2>2, <2>3, <2>5
    <2> QED BY <2>4, <2>5
  <1> QED BY <1>1, <1>2, <1>3, <1>4, <1>6, <1>7, <1>8 DEF FoundUpTo

\* The parser ends with the tables where the disc has them, though the sectors of a block
\* that is not used are passed as if they were as many as the structure has.
LEMMA TablesAreFound ==
    ASSUME disc \in Discs, NEW a \in {1, 2}
    PROVE  FoundUpTo(a, Tables!ParseBlocks(Tables!Sectors(disc.areas[a])), Tables!Known(a))
  <1>1. PICK s \in Seq(AnyBlock) : s = Tables!Sectors(disc.areas[a])
    BY SectorsHoldTheBlocks
  <1>2. PICK t : /\ t[0] = FirstTurn /\ \A k \in 1..Len(s) : t[k] = Turned(s, t[k - 1])
                 /\ Tables!ParseBlocks(s) = t[Len(s)].found
    BY ParseInTurn
  <1>3. PICK bl \in Seq(Tables!Blocks) : bl = BlocksOf(a)
    BY StartsAreApart
  <1>4. PICK K : K = Tables!Known(a)
    OBVIOUS
  <1>5. /\ K \in Nat /\ Len(bl) \in Nat /\ Len(s) \in Nat /\ K <= Len(bl) /\ Len(bl) <= Len(s)
        /\ \A i \in 1..K : bl[i] \in Tables!Blocks \ {"unknown"}
        /\ K < Len(bl) => bl[K + 1] = "unknown"
    <2>1. K \in Nat /\ K <= Len(bl) /\ (\A i \in 1..K : bl[i] \in Tables!Blocks \ {"unknown"})
          /\ (K < Len(bl) => bl[K + 1] = "unknown")
      BY <1>3, <1>4, KnownBlocks
    <2>2. Len(bl) <= Len(s)
      BY <1>1, <1>3, SectorsHoldTheBlocks
    <2>3. Len(bl) \in Nat /\ Len(s) \in Nat
      OBVIOUS
    <2> QED BY <2>1, <2>2, <2>3
  <1> DEFINE st(i) == Tables!StartOf(a, i)
             Parsing(k) == /\ t[k] \in Turns /\ t[k].p = st(k + 1) /\ ~t[k].stopped
                           /\ FoundUpTo(a, t[k].found, k)
             Parsed(k) == /\ FoundUpTo(a, t[k].found, K)
                          /\ t[k].p > Len(s) \/ t[k].stopped \/ s[t[k].p] = "unknown"
             S == {k \in Nat : k <= K => Parsing(k)}
             E == {k \in Nat : K <= k /\ k <= Len(s) => Parsed(k)}
  <1>6. \A i \in 1..Len(bl) : /\ st(i) \in 1..Len(s) /\ s[st(i)] = bl[i]
                              /\ st(i + 1) = st(i) + Tables!SectorsOf(bl[i])
                              /\ Tables!SectorsOf(bl[i]) = Tables!Step(bl[i])
    <2> SUFFICES ASSUME NEW i \in 1..Len(bl)
                 PROVE  /\ st(i) \in 1..Len(s) /\ s[st(i)] = bl[i]
                        /\ st(i + 1) = st(i) + Tables!SectorsOf(bl[i])
                        /\ Tables!SectorsOf(bl[i]) = Tables!Step(bl[i])
      OBVIOUS
    <2>1. bl[i] \in Tables!Blocks
      OBVIOUS
    <2> QED BY <1>1, <1>3, <2>1, SectorsHoldTheBlocks, StartsAreApart, Widths
  <1>7. st(1) = 1 /\ st(Len(bl) + 1) = Len(s) + 1
    <2>1. st(1) = 1 /\ Len(s) = st(Len(bl) + 1) - 1
      BY <1>1, <1>3, SectorsHoldTheBlocks, StartsAreApart
    <2>2. st(Len(bl) + 1) \in Nat
      <3>1. CASE Len(bl) = 0
        BY <2>1, <3>1
      <3>2. CASE Len(bl) # 0
        <4>1. Len(bl) \in 1..Len(bl)
          BY <1>5, <3>2
        <4> QED BY <1>3, <4>1, StartsAreApart
      <3> QED BY <3>1, <3>2
    <2> QED BY <2>1, <2>2, <1>5
  <1> HIDE DEF st
  <1>8. 0 \in S
    <2>1. t[0] \in Turns /\ t[0].p = 1 /\ ~t[0].stopped /\ t[0].found = Tables!NothingFound
      BY <1>2 DEF FirstTurn, Turns, FoundTables, Tables!NothingFound, Tables!NoBlock
    <2>2. \A b : At(a, b, 0) = {}
      BY DEF At
    <2>3. FoundUpTo(a, Tables!NothingFound, 0)
      BY <2>2 DEF FoundUpTo, FoundTables, Tables!NothingFound, Tables!NoBlock, Tables!Least, Tables!Greatest
    <2>4. FoundUpTo(a, t[0].found, 0)
      BY <2>1, <2>3
    <2>5. st(0 + 1) = 1
      BY <1>7
    <2>6. Parsing(0)
      BY <2>1, <2>4, <2>5
    <2> HIDE DEF Parsing
    <2> QED BY <2>6
  <1>9. ASSUME NEW k \in Nat, k \in S PROVE k + 1 \in S
    <2>1. SUFFICES ASSUME k + 1 <= K PROVE Parsing(k + 1)
      OBVIOUS
    <2>2. Parsing(k) /\ k + 1 \in 1..K /\ k + 1 \in 1..Len(bl) /\ k + 1 \in 1..Len(s) /\ (k + 1) - 1 = k
      BY <1>5, <1>9, <2>1
    <2>3. PICK block : block = bl[k + 1]
      OBVIOUS
    <2>4. block \in Tables!Blocks /\ block \notin {"unknown", Tables!Data}
      BY <1>5, <2>2, <2>3 DEF Tables!Blocks, Tables!Data
    <2>5. /\ st(k + 1) \in 1..Len(s) /\ s[st(k + 1)] = block
          /\ st((k + 1) + 1) = st(k + 1) + Tables!Step(block)
      BY <1>6, <2>2, <2>3
    <2>6. PICK u : u = t[k]
      OBVIOUS
    <2>7. u \in Turns /\ u.p = st(k + 1) /\ ~u.stopped /\ FoundUpTo(a, u.found, k)
      BY <2>2, <2>6
    <2>8. t[k + 1] = Turned(s, u)
      BY <1>2, <2>2, <2>6
    <2> HIDE DEF S, E, Parsed
    <2>9. PICK f : f = Tables!TakeBlock(u.found, st(k + 1), block)
      OBVIOUS
    <2>10. t[k + 1] \in Turns /\ t[k + 1].p = st((k + 1) + 1) /\ ~t[k + 1].stopped /\ t[k + 1].found = f
      <3>1. ~(u.p > Len(s) \/ u.stopped) /\ s[u.p] = block
        BY <1>5, <2>5, <2>7
      <3>2. Turned(s, u) = [u EXCEPT !.found = Tables!TakeBlock(@, u.p, block), !.p = @ + Tables!Step(block)]
        BY <2>4, <3>1 DEF Turned
      <3>3. Turned(s, u) \in Turns
        BY <2>7, TurnedType
      <3>4. PICK q : q = u.p + Tables!Step(block)
        OBVIOUS
      <3>5. t[k + 1] = [u EXCEPT !.found = f, !.p = q]
        BY <2>7, <2>8, <2>9, <3>2, <3>4
      <3>6. t[k + 1].p = q /\ t[k + 1].stopped = u.stopped /\ t[k + 1].found = f
        BY <2>7, <3>5 DEF Turns
      <3> QED BY <2>5, <2>7, <2>8, <3>3, <3>4, <3>6
    <2>11. FoundUpTo(a, f, k + 1)
      BY <1>3, <2>2, <2>3, <2>7, <2>9, OneMoreFound DEF st
    <2> QED BY <2>10, <2>11
  <1>10. Parsing(K)
    <2>1. Nat \subseteq S
      <3> HIDE DEF S
      <3> QED BY <1>8, <1>9, Induct
    <2> QED BY <1>5, <2>1
  <1>11. Parsed(K)
    <2>1. CASE K < Len(bl)
      <3>1. s[st(K + 1)] = "unknown"
        BY <1>5, <1>6, <2>1
      <3> QED BY <1>10, <3>1
    <2>2. CASE K = Len(bl)
      BY <1>5, <1>7, <1>10, <2>2
    <2> QED BY <1>5, <2>1, <2>2
  <1>12. ASSUME NEW k \in Nat, k \in E PROVE k + 1 \in E
    <2>1. SUFFICES ASSUME K <= k + 1, k + 1 <= Len(s) PROVE Parsed(k + 1)
      OBVIOUS
    <2>2. CASE k + 1 = K
      BY <1>11, <2>2
    <2>3. CASE k + 1 # K
      <3>1. Parsed(k) /\ k + 1 \in 1..Len(s) /\ (k + 1) - 1 = k
        BY <1>5, <1>12, <2>1, <2>3
      <3>2. t[k + 1] = Turned(s, t[k])
        BY <1>2, <3>1
      <3> QED BY <3>1, <3>2 DEF Turned
    <2> QED BY <2>2, <2>3
  <1>13. 0 \in E
    BY <1>5, <1>11
  <1>14. Parsed(Len(s))
    <2>1. Nat \subseteq E
      <3> HIDE DEF E
      <3> QED BY <1>12, <1>13, Induct
    <2> QED BY <1>5, <2>1
  <1> QED BY <1>1, <1>2, <1>4, <1>14
-----------------------------------------------------------------------------
(* DiscTables: opening and closing.                                        *)

\* What is allocated for an area, and the tables that may be found in one.
TextsOf(a) == {<<"text", a, t>> : t \in 1..disc.areas[a].tracks}
Own(a) == {<<"area", a>>} \cup Tables!Descriptions(a) \cup TextsOf(a)
Founds == {Tables!NothingFound} \cup {Tables!ParseBlocks(Tables!Sectors(disc.areas[a])) : a \in {1, 2}}

AreaMemory == Own(1) \cup Own(2) \cup {Tables!Null}
Slots == [data : AreaMemory, area : 0..2, description : AreaMemory, trackTexts : SUBSET (Own(1) \cup Own(2)),
          found : Founds]
Handles == [twoch : -1..1, mulch : -1..1, count : 0..2, master : {Tables!Null, <<"master">>},
            titles : SUBSET {<<"title", i>> : i \in 1..16}, slot : [0..2 -> Slots]]

TablesTypes == /\ disc \in Discs /\ handle \in Handles /\ wrongFree = FALSE
               /\ tablesPc \in {"closed", "master", "area1", "area2", "open", "failed"}

Claimed(d) == Tables!Sound(d) \/ d.master # "good"

\* What closing frees is allocated, and named once; on the discs of which it is
\* claimed nothing else is.
FreedOK ==
    IF tablesPc = "closed" THEN Claimed(disc) => live = {}
    ELSE /\ Tables!Pointers \subseteq live
         /\ Tables!AreaPointers(handle.twoch) \cap Tables!AreaPointers(handle.mulch) = {}
         /\ Claimed(disc) => live = Tables!Pointers

\* How far opening has come.
Unread == handle.twoch = -1 /\ handle.mulch = -1 /\ handle.count = 0
ProgressOK ==
    /\ tablesPc = "master" => handle = Tables!NoHandle
    /\ tablesPc \in {"area1", "area2", "open"} => disc.master = "good"
    /\ tablesPc = "area1" => Unread /\ handle.slot = [i \in 0..2 |-> Tables!NoSlot]
    /\ tablesPc = "area2" =>
         /\ handle.slot[1] = Tables!NoSlot
         /\ \/ /\ Unread
               /\ handle.slot[0].description \in live \cup {Tables!Null}
               /\ Tables!Sound(disc) => handle.slot[0].description = Tables!Null
            \/ /\ handle.count = 1 /\ Tables!AreaPointers(0) \subseteq Own(1)
               /\ disc.areas[1].present
               /\ IF disc.areas[1].twoch THEN handle.twoch = 0 /\ handle.mulch = -1
                  ELSE handle.twoch = -1 /\ handle.mulch = 0

TablesInv == TablesTypes /\ FreedOK /\ ProgressOK

\* What the areas have is apart from each other's and from nothing.
LEMMA OwnIsOwn == Own(1) \cap Own(2) = {} /\ Tables!Null \notin Own(1) \cup Own(2)
  <1>1. ASSUME NEW a \in {1, 2}, NEW x \in Own(a) PROVE x[2] = a /\ x # <<>>
    <2>1. CASE x = <<"area", a>>
      BY <2>1
    <2>2. CASE x \in Tables!Descriptions(a)
      BY <2>2 DEF Tables!Descriptions
    <2>3. CASE x \in TextsOf(a)
      BY <2>3 DEF TextsOf
    <2> QED BY <2>1, <2>2, <2>3 DEF Own
  <1> QED BY <1>1 DEF Tables!Null

\* The slot holds what was read of area a.
IsAreas(s, a) ==
    /\ s.area = a /\ s.data = <<"area", a>>
    /\ s.found = Tables!ParseBlocks(Tables!Sectors(disc.areas[a]))
    /\ s.trackTexts = Tables!TrackTexts(a, s.found)

\* What reading the table of area a takes and puts into its slot of h.
TocRead(a, slot, h, r) ==
    /\ r.handle \in Handles /\ r.taken \subseteq Own(a) /\ r.good \in BOOLEAN
    /\ r.handle.count = h.count /\ r.handle.master = h.master /\ r.handle.titles = h.titles
    /\ \A i \in (0..2) \ {slot} : r.handle.slot[i] = h.slot[i]
    /\ r.handle.slot[slot].data = h.slot[slot].data
    /\ ~r.good => /\ r.handle.twoch = h.twoch /\ r.handle.mulch = h.mulch
                  /\ r.handle.slot[slot].description \in {h.slot[slot].description} \cup r.taken
                  /\ disc.areas[a].table \in {"identifier", "version"}
    /\ r.good => /\ IF disc.areas[a].twoch THEN r.handle.twoch = slot /\ r.handle.mulch = h.mulch
                    ELSE r.handle.twoch = h.twoch /\ r.handle.mulch = slot
                 /\ r.taken = Tables!Descriptions(a) \cup r.handle.slot[slot].trackTexts
                 /\ h.slot[slot].data = <<"area", a>> => IsAreas(r.handle.slot[slot], a)
                 /\ r.handle.slot[slot].description =
                      IF disc.areas[a].descriptions = 0 THEN h.slot[slot].description
                      ELSE <<"description", a, disc.areas[a].descriptions>>

LEMMA TocIsRead ==
    ASSUME NEW a \in {1, 2}, NEW slot \in {0, 1}, NEW h \in Handles,
           NEW r, r = Tables!ReadAreaToc(a, h, slot), disc \in Discs
    PROVE  TocRead(a, slot, h, r)
  <1> DEFINE area == disc.areas[a]
             found == Tables!ParseBlocks(Tables!Sectors(area))
             texts == Tables!TrackTexts(a, found)
             last == <<"description", a, area.descriptions>>
             withToc == [h EXCEPT !.slot[slot] = [@ EXCEPT !.area = a, !.found = Tables!NothingFound]]
             withText == IF area.descriptions = 0 THEN withToc ELSE [withToc EXCEPT !.slot[slot].description = last]
             placed == IF area.twoch THEN [withText EXCEPT !.twoch = slot] ELSE [withText EXCEPT !.mulch = slot]
             read == [placed EXCEPT !.slot[slot] = [@ EXCEPT !.found = found, !.trackTexts = texts]]
  <1>1. found \in Founds /\ Tables!NothingFound \in Founds
    BY DEF Founds
  <1>2. texts \subseteq Own(a)
    BY DEF Own, TextsOf, Tables!TrackTexts
  <1>3. /\ Tables!Descriptions(a) \subseteq Own(a)
        /\ area.descriptions # 0 => last \in Tables!Descriptions(a)
    <2>1. area.descriptions \in 0..4
      BY TablesAssumption DEF Tables!DiscsAssumption, Tables!AreaNumbers
    <2> QED BY <2>1 DEF Own, Tables!Descriptions
  <1>4. Own(a) \subseteq AreaMemory /\ Own(a) \subseteq Own(1) \cup Own(2)
    BY DEF AreaMemory
  <1>5. r = IF area.table = "identifier" THEN [handle |-> withToc, taken |-> {}, good |-> FALSE]
            ELSE IF area.table = "version" THEN [handle |-> withText, taken |-> Tables!Descriptions(a), good |-> FALSE]
            ELSE [handle |-> read, taken |-> Tables!Descriptions(a) \cup texts, good |-> TRUE]
    BY Zenon DEF Tables!ReadAreaToc
  <1> HIDE DEF found, texts, last
  <1>6. /\ withToc \in Handles
        /\ withToc.count = h.count /\ withToc.master = h.master /\ withToc.titles = h.titles
        /\ withToc.twoch = h.twoch /\ withToc.mulch = h.mulch
        /\ \A i \in (0..2) \ {slot} : withToc.slot[i] = h.slot[i]
        /\ withToc.slot[slot].data = h.slot[slot].data
        /\ withToc.slot[slot].description = h.slot[slot].description /\ withToc.slot[slot].area = a
    <2>1. PICK s : s = h.slot[slot]
      OBVIOUS
    <2>2. s \in Slots
      BY <2>1 DEF Handles
    <2>3. PICK s2 : s2 = [s EXCEPT !.area = a, !.found = Tables!NothingFound]
      OBVIOUS
    <2>4. s2 \in Slots /\ s2.data = s.data /\ s2.description = s.description /\ s2.area = a
      <3>1. a \in 0..2
        OBVIOUS
      <3> QED BY ONLY <1>1, <2>2, <2>3, <3>1 DEF Slots
    <2>5. withToc = [h EXCEPT !.slot[slot] = s2]
      BY <2>1, <2>3
    <2> QED BY ONLY <2>1, <2>4, <2>5, h \in Handles, slot \in {0, 1} DEF Handles
  <1> HIDE DEF withToc
  <1>7. /\ withText \in Handles
        /\ withText.count = h.count /\ withText.master = h.master /\ withText.titles = h.titles
        /\ withText.twoch = h.twoch /\ withText.mulch = h.mulch
        /\ \A i \in (0..2) \ {slot} : withText.slot[i] = h.slot[i]
        /\ withText.slot[slot].data = h.slot[slot].data
        /\ withText.slot[slot].description = IF area.descriptions = 0 THEN h.slot[slot].description ELSE last
        /\ withText.slot[slot].area = a
    BY <1>3, <1>4, <1>6 DEF Handles, Slots
  <1> HIDE DEF withText
  <1>8. /\ placed \in Handles
        /\ placed.count = h.count /\ placed.master = h.master /\ placed.titles = h.titles
        /\ IF area.twoch THEN placed.twoch = slot /\ placed.mulch = h.mulch
           ELSE placed.twoch = h.twoch /\ placed.mulch = slot
        /\ placed.slot = withText.slot
    BY <1>7 DEF Handles
  <1> HIDE DEF placed
  <1>9. /\ read \in Handles
        /\ read.count = h.count /\ read.master = h.master /\ read.titles = h.titles
        /\ read.twoch = placed.twoch /\ read.mulch = placed.mulch
        /\ \A i \in (0..2) \ {slot} : read.slot[i] = h.slot[i]
        /\ read.slot[slot].data = h.slot[slot].data
        /\ read.slot[slot].description = withText.slot[slot].description
        /\ read.slot[slot].trackTexts = texts /\ read.slot[slot].found = found
        /\ read.slot[slot].area = a
    <2>1. PICK s : s = placed.slot[slot]
      OBVIOUS
    <2>2. s \in Slots
      BY <1>8, <2>1 DEF Handles
    <2>3. PICK s2 : s2 = [s EXCEPT !.found = found, !.trackTexts = texts]
      OBVIOUS
    <2>4. /\ s2 \in Slots /\ s2.data = s.data /\ s2.description = s.description /\ s2.trackTexts = texts
          /\ s2.found = found /\ s2.area = s.area
      BY <1>1, <1>2, <1>4, <2>2, <2>3 DEF Slots
    <2>5. read = [placed EXCEPT !.slot[slot] = s2]
      BY <2>1, <2>3
    <2>6. PICK p \in Handles : p = placed
      BY <1>8
    <2>7. PICK g : g = [p EXCEPT !.slot[slot] = s2]
      OBVIOUS
    <2>8. /\ g \in Handles
          /\ g.count = p.count /\ g.master = p.master /\ g.titles = p.titles
          /\ g.twoch = p.twoch /\ g.mulch = p.mulch
          /\ \A i \in (0..2) \ {slot} : g.slot[i] = p.slot[i]
          /\ g.slot[slot] = s2
      <3>1. s2 \in Slots /\ g = [p EXCEPT !.slot[slot] = s2]
        BY <2>4, <2>7
      <3> QED BY ONLY <3>1, p \in Handles, slot \in {0, 1} DEF Handles
    <2>9. read = g
      BY <2>5, <2>6, <2>7
    <2> HIDE DEF read
    <2> QED BY ONLY <1>7, <1>8, <2>1, <2>4, <2>6, <2>8, <2>9
  <1> HIDE DEF read, area
  <1>10. CASE area.table = "identifier"
    BY <1>5, <1>6, <1>10 DEF area, TocRead
  <1>11. CASE area.table = "version"
    BY <1>3, <1>5, <1>7, <1>11 DEF area, last, TocRead
  <1>12. CASE area.table \notin {"identifier", "version"}
    <2>1. r = [handle |-> read, taken |-> Tables!Descriptions(a) \cup texts, good |-> TRUE]
      BY ONLY <1>5, <1>12
    <2>2. r.handle = read /\ r.taken = Tables!Descriptions(a) \cup texts /\ r.good = TRUE
      BY ONLY <2>1
    <2>3. r.taken \subseteq Own(a)
      BY <1>2, <1>3, <2>2
    <2>4. h.slot[slot].data = <<"area", a>> => IsAreas(read.slot[slot], a)
      BY <1>9 DEF IsAreas, found, texts, area
    <2> QED BY ONLY <1>7, <1>8, <1>9, <2>2, <2>3, <2>4 DEF area, last, TocRead
  <1> QED BY <1>10, <1>11, <1>12

LEMMA TablesInit == Tables!Init => TablesInv
  BY DEF Tables!Init, TablesInv, TablesTypes, FreedOK, ProgressOK, Handles, Slots, Founds, AreaMemory,
     Tables!NoHandle, Tables!NoSlot, Tables!Null

\* An area in the next slot is counted when it could be read; what then can be
\* freed by the slot is allocated, and on a sound disc it is all that was.
LEMMA AreaIsRead ==
    ASSUME TablesTypes, NEW a \in {1, 2}, NEW next, NEW slot \in {0, 1}, slot = handle.count,
           Tables!ReadArea(a, next)
    PROVE  /\ handle' \in Handles /\ handle'.titles = handle.titles /\ handle'.master = handle.master
           /\ live \subseteq live' /\ live' \subseteq live \cup Own(a) /\ tablesPc' = next
           /\ \A i \in (0..2) \ {slot} : handle'.slot[i] = handle.slot[i]
           /\ \/ /\ handle'.count = slot /\ handle'.twoch = handle.twoch /\ handle'.mulch = handle.mulch
                 /\ handle'.slot[slot].description \in {handle.slot[slot].description} \cup live'
                 /\ Tables!Sound(disc) => ~disc.areas[a].present /\ handle' = handle /\ live' = live
              \/ /\ disc.areas[a].present /\ handle'.count = slot + 1 /\ IsAreas(handle'.slot[slot], a)
                 /\ IF disc.areas[a].twoch THEN handle'.twoch = slot /\ handle'.mulch = handle.mulch
                    ELSE handle'.twoch = handle.twoch /\ handle'.mulch = slot
                 /\ handle.slot[slot].description \in live \cup {Tables!Null} =>
                      (Tables!AreaPointers(slot))' \subseteq live'
                 /\ handle.slot[slot].description = Tables!Null =>
                      /\ (Tables!AreaPointers(slot))' \subseteq Own(a)
                      /\ Tables!Sound(disc) => live' = live \cup (Tables!AreaPointers(slot))'
  <1> DEFINE data == <<"area", a>>
  <1>1. PICK h : h = [handle EXCEPT !.slot[slot].data = data]
    OBVIOUS
  <1>2. PICK r : r = Tables!ReadAreaToc(a, h, slot)
    OBVIOUS
  <1>3. tablesPc' = next /\ disc \in Discs /\ handle \in Handles
    BY DEF Tables!ReadArea, TablesTypes
  <1>4. data \in Own(a) /\ data \in AreaMemory /\ data # Tables!Null
    BY OwnIsOwn DEF Own, AreaMemory
  <1> HIDE DEF data
  <1>5. /\ h \in Handles
        /\ h.count = handle.count /\ h.master = handle.master /\ h.titles = handle.titles
        /\ h.twoch = handle.twoch /\ h.mulch = handle.mulch
        /\ \A i \in (0..2) \ {slot} : h.slot[i] = handle.slot[i]
        /\ h.slot[slot].data = data /\ h.slot[slot].description = handle.slot[slot].description
    BY <1>1, <1>3, <1>4 DEF Handles, Slots
  <1>6. CASE ~disc.areas[a].present
    BY <1>3, <1>6 DEF Tables!ReadArea
  <1>7. ASSUME Tables!Sound(disc), disc.areas[a].present
        PROVE  disc.areas[a].table = "good" /\ disc.areas[a].descriptions <= 1
    BY <1>7 DEF Tables!Sound, Tables!AreaNumbers
  <1>8. CASE disc.areas[a].present /\ disc.areas[a].table = "unreadable"
    <2>1. handle' = h /\ live' = live \cup {data}
      BY <1>1, <1>8 DEF Tables!ReadArea, data
    <2>2. ~Tables!Sound(disc)
      BY <1>7, <1>8
    <2> QED BY <1>3, <1>4, <1>5, <2>1, <2>2
  <1>9. CASE disc.areas[a].present /\ disc.areas[a].table # "unreadable"
    <2>1. /\ handle' = [r.handle EXCEPT !.count = @ + IF r.good THEN 1 ELSE 0]
          /\ live' = live \cup {data} \cup r.taken
      BY <1>1, <1>2, <1>9 DEF Tables!ReadArea, data
    <2>2. TocRead(a, slot, h, r)
      BY <1>2, <1>3, <1>5, TocIsRead
    <2>3. /\ handle' \in Handles
          /\ handle'.count = IF r.good THEN slot + 1 ELSE slot
          /\ handle'.master = r.handle.master /\ handle'.titles = r.handle.titles
          /\ handle'.twoch = r.handle.twoch /\ handle'.mulch = r.handle.mulch
          /\ handle'.slot = r.handle.slot
      <3>1. r.handle \in Handles /\ r.handle.count = slot /\ r.good \in BOOLEAN
        BY <1>5, <2>2 DEF TocRead
      <3> QED BY ONLY <2>1, <3>1, slot \in {0, 1} DEF Handles
    <2>4. live' \subseteq live \cup Own(a)
      BY <1>4, <2>1, <2>2 DEF TocRead
    <2>5. CASE ~r.good
      <3>1. ~Tables!Sound(disc)
        BY <1>7, <1>9, <2>2, <2>5 DEF TocRead
      <3>2. /\ handle' \in Handles /\ handle'.titles = handle.titles /\ handle'.master = handle.master
            /\ live \subseteq live' /\ \A i \in (0..2) \ {slot} : handle'.slot[i] = handle.slot[i]
        BY ONLY <1>5, <2>1, <2>2, <2>3 DEF TocRead
      <3>3. /\ handle'.count = slot /\ handle'.twoch = handle.twoch /\ handle'.mulch = handle.mulch
            /\ handle'.slot[slot].description \in {handle.slot[slot].description} \cup live'
        BY ONLY <1>5, <2>1, <2>2, <2>3, <2>5 DEF TocRead
      <3> QED BY <1>3, <2>4, <3>1, <3>2, <3>3
    <2>6. CASE r.good
      <3> DEFINE texts == handle'.slot[slot].trackTexts
                 text == handle'.slot[slot].description
                 new == (Tables!AreaPointers(slot))'
                 last == <<"description", a, disc.areas[a].descriptions>>
      <3>1. new = (texts \cup {text, data}) \ {Tables!Null}
        <4>1. handle'.slot[slot].data = data
          BY ONLY <1>5, <2>2, <2>3 DEF TocRead
        <4> QED BY <4>1 DEF Tables!AreaPointers
      <3>2. /\ r.taken = Tables!Descriptions(a) \cup texts
            /\ text = IF disc.areas[a].descriptions = 0 THEN handle.slot[slot].description ELSE last
        BY <1>5, <2>2, <2>3, <2>6 DEF TocRead
      <3>3. disc.areas[a].descriptions # 0 => last \in Tables!Descriptions(a)
        BY <1>3, TablesAssumption DEF Tables!Descriptions, Tables!DiscsAssumption, Tables!AreaNumbers
      <3>4. Tables!Sound(disc) =>
              Tables!Descriptions(a) = IF disc.areas[a].descriptions = 0 THEN {} ELSE {last}
        BY <1>3, <1>7, <1>9, TablesAssumption
        DEF Tables!Descriptions, Tables!DiscsAssumption, Tables!AreaNumbers
      <3> HIDE DEF texts, text, new, last
      <3>5. handle.slot[slot].description \in live \cup {Tables!Null} => new \subseteq live'
        BY <2>1, <3>1, <3>2, <3>3
      <3>6. handle.slot[slot].description = Tables!Null =>
              /\ new \subseteq Own(a)
              /\ Tables!Sound(disc) => live' = live \cup new
        BY <1>4, <2>1, <2>2, <3>1, <3>2, <3>3, <3>4, OwnIsOwn DEF TocRead
      <3>7. IsAreas(handle'.slot[slot], a)
        BY <1>5, <2>2, <2>3, <2>6 DEF TocRead, data
      <3> QED BY <1>3, <1>5, <1>9, <2>1, <2>2, <2>3, <2>6, <2>4, <3>5, <3>6, <3>7 DEF new, TocRead
    <2> QED BY <2>2, <2>5, <2>6 DEF TocRead
  <1> QED BY <1>6, <1>8, <1>9

\* What closing frees beside the areas.
Base(h) == h.titles \cup ({h.master, <<"frame">>, <<"handle">>} \ {Tables!Null})

\* Slots that stay as they are point to what they pointed to.
LEMMA PointersStay ==
    ASSUME NEW i \in 0..2, handle'.slot[i] = handle.slot[i]
    PROVE  (Tables!AreaPointers(i))' = Tables!AreaPointers(i)
  BY DEF Tables!AreaPointers

LEMMA PointersOf ==
    /\ Tables!Pointers = Tables!AreaPointers(handle.twoch) \cup Tables!AreaPointers(handle.mulch) \cup Base(handle)
    /\ (Tables!Pointers)' =
          (Tables!AreaPointers(handle.twoch))' \cup (Tables!AreaPointers(handle.mulch))' \cup Base(handle')
    /\ Tables!AreaPointers(-1) = {} /\ (Tables!AreaPointers(-1))' = {}
  BY DEF Tables!Pointers, Base, Tables!AreaPointers

\* Another state of the same disc has the same types.
LEMMA HandlesStay ==
    ASSUME disc' = disc
    PROVE  Handles' = Handles
  <1>1. Own(1)' = Own(1) /\ Own(2)' = Own(2)
    BY DEF Own, TextsOf, Tables!Descriptions
  <1>2. Founds' = Founds
    BY DEF Founds
  <1> QED BY <1>1, <1>2 DEF Handles, Slots, AreaMemory

LEMMA ReadArea1KeepsTablesInv ==
    ASSUME TablesInv, Tables!ReadArea1
    PROVE  TablesInv'
  <1>1. /\ tablesPc = "area1" /\ disc' = disc /\ wrongFree' = wrongFree
        /\ TablesTypes /\ FreedOK /\ ProgressOK
        /\ handle.count = 0 /\ Tables!ReadArea(1, "area2")
    BY DEF Tables!ReadArea1, TablesInv, ProgressOK, Unread
  <1>2. /\ handle.twoch = -1 /\ handle.mulch = -1 /\ disc.master = "good"
        /\ handle.slot[0] = Tables!NoSlot /\ handle.slot[1] = Tables!NoSlot
    BY <1>1 DEF ProgressOK, Unread
  <1>3. handle.slot[0].description = Tables!Null /\ Tables!NoSlot.description = Tables!Null
    BY <1>2 DEF Tables!NoSlot
  <1>4. /\ Tables!Pointers = Base(handle) /\ Tables!Pointers \subseteq live
        /\ Tables!Sound(disc) => live = Base(handle)
    BY <1>1, <1>2, PointersOf DEF FreedOK, Claimed
  <1>5. /\ handle' \in Handles /\ Base(handle') = Base(handle)
        /\ live \subseteq live' /\ tablesPc' = "area2" /\ handle'.slot[1] = handle.slot[1]
        /\ \/ /\ handle'.count = 0 /\ handle'.twoch = handle.twoch /\ handle'.mulch = handle.mulch
              /\ handle'.slot[0].description \in {handle.slot[0].description} \cup live'
              /\ Tables!Sound(disc) => handle' = handle /\ live' = live
           \/ /\ disc.areas[1].present /\ handle'.count = 1
              /\ IF disc.areas[1].twoch THEN handle'.twoch = 0 /\ handle'.mulch = handle.mulch
                 ELSE handle'.twoch = handle.twoch /\ handle'.mulch = 0
              /\ (Tables!AreaPointers(0))' \subseteq live'
              /\ (Tables!AreaPointers(0))' \subseteq Own(1)
              /\ Tables!Sound(disc) => live' = live \cup (Tables!AreaPointers(0))'
    BY <1>1, <1>3, AreaIsRead DEF Base
  <1>6. TablesTypes'
    BY <1>1, <1>5, HandlesStay DEF TablesTypes
  <1>7. FreedOK'
    BY <1>1, <1>2, <1>4, <1>5, PointersOf DEF FreedOK, Claimed
  <1>8. ProgressOK'
    BY <1>1, <1>2, <1>3, <1>5 DEF ProgressOK, Unread, Own, TextsOf, Tables!Descriptions
  <1> QED BY <1>6, <1>7, <1>8 DEF TablesInv

LEMMA ReadArea2KeepsTablesInv ==
    ASSUME TablesInv, Tables!ReadArea2
    PROVE  TablesInv'
  <1>1. /\ tablesPc = "area2" /\ disc' = disc /\ wrongFree' = wrongFree
        /\ TablesTypes /\ FreedOK /\ ProgressOK /\ Tables!ReadArea(2, "open")
    BY DEF Tables!ReadArea2, TablesInv
  <1>2. /\ disc.master = "good" /\ handle.slot[1] = Tables!NoSlot
        /\ Tables!Pointers \subseteq live
        /\ Tables!Sound(disc) => live = Tables!Pointers
    BY <1>1 DEF ProgressOK, FreedOK, Claimed
  <1>3. handle.count \in {0, 1}
    BY <1>1 DEF ProgressOK, Unread
  <1>4. tablesPc' = "open" /\ handle' \in Handles /\ Base(handle') = Base(handle) /\ live \subseteq live'
    BY <1>1, <1>3, AreaIsRead DEF Base
  <1>5. TablesTypes'
    BY <1>1, <1>4, HandlesStay DEF TablesTypes
  <1>6. ProgressOK'
    BY <1>1, <1>2, <1>4 DEF ProgressOK
  <1>7. FreedOK'
    <2>1. CASE handle.count = 0
      <3>1. /\ handle.twoch = -1 /\ handle.mulch = -1
            /\ handle.slot[0].description \in live \cup {Tables!Null}
            /\ Tables!Sound(disc) => handle.slot[0].description = Tables!Null
        BY <1>1, <2>1 DEF ProgressOK, Unread
      <3>2. Tables!Pointers = Base(handle)
        BY <3>1, PointersOf
      <3>3. \/ /\ handle'.twoch = -1 /\ handle'.mulch = -1
               /\ Tables!Sound(disc) => live' = live
            \/ /\ IF disc.areas[2].twoch THEN handle'.twoch = 0 /\ handle'.mulch = -1
                  ELSE handle'.twoch = -1 /\ handle'.mulch = 0
               /\ (Tables!AreaPointers(0))' \subseteq live'
               /\ Tables!Sound(disc) => live' = live \cup (Tables!AreaPointers(0))'
        BY <1>1, <2>1, <3>1, AreaIsRead
      <3> QED BY <1>1, <1>2, <1>4, <3>2, <3>3, PointersOf DEF FreedOK, Claimed
    <2>2. CASE handle.count = 1
      <3> DEFINE first == Tables!AreaPointers(0)
                 second == (Tables!AreaPointers(1))'
      <3>1. /\ first \subseteq Own(1) /\ disc.areas[1].present
            /\ IF disc.areas[1].twoch THEN handle.twoch = 0 /\ handle.mulch = -1
               ELSE handle.twoch = -1 /\ handle.mulch = 0
        BY <1>1, <2>2 DEF ProgressOK, Unread
      <3>2. Tables!Pointers = first \cup Base(handle)
        BY <3>1, PointersOf
      <3>3. handle.slot[1].description = Tables!Null
        BY <1>2 DEF Tables!NoSlot
      <3>4. /\ handle'.slot[0] = handle.slot[0]
            /\ \/ /\ handle'.twoch = handle.twoch /\ handle'.mulch = handle.mulch
                  /\ Tables!Sound(disc) => live' = live
               \/ /\ disc.areas[2].present
                  /\ IF disc.areas[2].twoch THEN handle'.twoch = 1 /\ handle'.mulch = handle.mulch
                     ELSE handle'.twoch = handle.twoch /\ handle'.mulch = 1
                  /\ second \subseteq live' /\ second \subseteq Own(2)
                  /\ Tables!Sound(disc) => live' = live \cup second
        BY <1>1, <2>2, <3>3, AreaIsRead
      <3>5. (Tables!AreaPointers(0))' = first
        BY <3>4, PointersStay
      <3>6. /\ Tables!Sound(disc) /\ disc.areas[2].present => disc.areas[1].twoch # disc.areas[2].twoch
            /\ disc.areas[1].twoch \in BOOLEAN /\ disc.areas[2].twoch \in BOOLEAN
        BY <1>1, <3>1, TablesAssumption DEF Tables!Sound, TablesTypes, Tables!DiscsAssumption, Tables!AreaNumbers
      <3>7. first \cap second = {} \/ ~(second \subseteq Own(2))
        BY <3>1, OwnIsOwn
      <3> HIDE DEF first, second
      <3> DEFINE Twoch == (Tables!AreaPointers(handle.twoch))'
                 Mulch == (Tables!AreaPointers(handle.mulch))'
                 AreTwo(A, B) == (Twoch = A /\ Mulch = B) \/ (Twoch = B /\ Mulch = A)
      <3>8. \/ /\ AreTwo(first, {}) /\ (Tables!Sound(disc) => live' = live)
            \/ /\ \/ AreTwo(first, second)
                  \/ AreTwo(second, {}) /\ ~Tables!Sound(disc)
               /\ second \subseteq live' /\ second \subseteq Own(2)
               /\ Tables!Sound(disc) => live' = live \cup second
        <4>1. CASE handle'.twoch = handle.twoch /\ handle'.mulch = handle.mulch /\ (Tables!Sound(disc) => live' = live)
          <5>1. CASE handle'.twoch = 0 /\ handle'.mulch = -1
            BY <3>5, <4>1, <5>1, PointersOf
          <5>2. CASE handle'.twoch = -1 /\ handle'.mulch = 0
            BY <3>5, <4>1, <5>2, PointersOf
          <5> QED BY <3>1, <4>1, <5>1, <5>2
        <4>2. CASE /\ disc.areas[2].present
                   /\ IF disc.areas[2].twoch THEN handle'.twoch = 1 /\ handle'.mulch = handle.mulch
                      ELSE handle'.twoch = handle.twoch /\ handle'.mulch = 1
                   /\ second \subseteq live' /\ second \subseteq Own(2)
                   /\ Tables!Sound(disc) => live' = live \cup second
          <5>1. CASE handle'.twoch = 0 /\ handle'.mulch = 1
            BY <3>5, <4>2, <5>1, PointersOf DEF second
          <5>2. CASE handle'.twoch = 1 /\ handle'.mulch = 0
            BY <3>5, <4>2, <5>2, PointersOf DEF second
          <5>3. CASE /\ ~Tables!Sound(disc)
                     /\ \/ handle'.twoch = 1 /\ handle'.mulch = -1
                        \/ handle'.twoch = -1 /\ handle'.mulch = 1
            BY <4>2, <5>3, PointersOf DEF second
          <5> QED BY <3>1, <3>6, <4>2, <5>1, <5>2, <5>3
        <4> QED BY <3>4, <4>1, <4>2
      <3>9. (Tables!Pointers)' = Twoch \cup Mulch \cup Base(handle)
        BY <1>4, PointersOf
      <3> HIDE DEF Twoch, Mulch
      <3>10. /\ Twoch \cap Mulch = {}
             /\ Twoch \cup Mulch \subseteq first \cup second
             /\ Twoch \cup Mulch \cup Base(handle) \subseteq live'
             /\ Tables!Sound(disc) => live' = Twoch \cup Mulch \cup Base(handle)
        BY <1>2, <1>4, <3>2, <3>7, <3>8
      <3> QED BY <1>1, <1>2, <1>4, <3>9, <3>10 DEF FreedOK, Claimed, Twoch, Mulch
    <2> QED BY <1>3, <2>1, <2>2
  <1> QED BY <1>5, <1>6, <1>7 DEF TablesInv

LEMMA TablesStepKeepsTablesInv ==
    ASSUME TablesInv, [Tables!Next]_tablesVars
    PROVE  TablesInv'
  <1>1. CASE Tables!Open
    <2>1. /\ tablesPc = "closed" /\ tablesPc' = "master" /\ handle' = Tables!NoHandle
          /\ live' = live \cup {<<"handle">>, <<"frame">>} /\ disc' = disc /\ wrongFree' = wrongFree
      BY <1>1 DEF Tables!Open
    <2>2. handle' \in Handles /\ handle'.twoch = -1 /\ handle'.mulch = -1
      BY <2>1 DEF Handles, Slots, Founds, AreaMemory, Tables!NoHandle, Tables!NoSlot
    <2>3. Base(handle') = {<<"handle">>, <<"frame">>}
      BY <2>1 DEF Base, Tables!NoHandle, Tables!Null
    <2>4. TablesTypes'
      BY <2>1, <2>2, HandlesStay DEF TablesInv, TablesTypes
    <2>5. FreedOK'
      BY <2>1, <2>2, <2>3, PointersOf DEF TablesInv, FreedOK, Claimed
    <2>6. ProgressOK'
      BY <2>1 DEF ProgressOK
    <2> QED BY <2>4, <2>5, <2>6 DEF TablesInv
  <1>2. CASE Tables!ReadMaster
    <2>1. PICK titles \in SUBSET {<<"title", i>> : i \in 1..16} :
             /\ handle' = [handle EXCEPT !.master = <<"master">>, !.titles = titles]
             /\ live' = live \cup {<<"master">>} \cup titles
             /\ tablesPc = "master" /\ tablesPc' = IF disc.master = "good" THEN "area1" ELSE "failed"
             /\ disc' = disc /\ wrongFree' = wrongFree
      <3> DEFINE titles == IF disc.master \in {"good", "texts", "manufacturer"}
                           THEN {<<"title", i>> : i \in 1..disc.titles} ELSE {}
      <3>1. disc.titles \in 0..16
        BY TablesAssumption DEF TablesInv, TablesTypes, Tables!DiscsAssumption
      <3>2. titles \in SUBSET {<<"title", i>> : i \in 1..16}
        BY <3>1
      <3> QED BY <1>2, <3>2 DEF Tables!ReadMaster
    <2>2. /\ handle = Tables!NoHandle /\ handle \in Handles
          /\ Tables!Pointers \subseteq live /\ (Claimed(disc) => live = Tables!Pointers)
      BY <2>1 DEF TablesInv, TablesTypes, FreedOK, ProgressOK
    <2>3. /\ handle' \in Handles /\ handle'.twoch = -1 /\ handle'.mulch = -1 /\ handle'.count = 0
          /\ handle'.slot = [i \in 0..2 |-> Tables!NoSlot]
          /\ handle'.master = <<"master">> /\ handle'.titles = titles
      BY <2>1, <2>2 DEF Handles, Tables!NoHandle
    <2>4. Tables!Pointers = {<<"handle">>, <<"frame">>}
      BY <2>2, PointersOf DEF Base, Tables!NoHandle, Tables!Null
    <2>5. (Tables!Pointers)' = titles \cup {<<"master">>, <<"handle">>, <<"frame">>}
      BY <2>3, PointersOf DEF Base, Tables!Null
    <2>6. TablesTypes'
      BY <2>1, <2>3, HandlesStay DEF TablesInv, TablesTypes
    <2>7. FreedOK'
      BY <2>1, <2>2, <2>3, <2>4, <2>5, PointersOf DEF FreedOK
    <2>8. ProgressOK'
      BY <2>1, <2>3 DEF ProgressOK, Unread
    <2> QED BY <2>6, <2>7, <2>8 DEF TablesInv
  <1>3. CASE Tables!Close
    <2>1. /\ tablesPc # "closed" /\ tablesPc' = "closed" /\ handle' = Tables!NoHandle /\ disc' = disc
          /\ live' = live \ Tables!Pointers
          /\ wrongFree' = \/ wrongFree \/ ~(Tables!Pointers \subseteq live)
                          \/ Tables!AreaPointers(handle.twoch) \cap Tables!AreaPointers(handle.mulch) # {}
      BY <1>3 DEF Tables!Close
    <2>2. /\ Tables!Pointers \subseteq live /\ (Claimed(disc) => live = Tables!Pointers) /\ wrongFree = FALSE
          /\ Tables!AreaPointers(handle.twoch) \cap Tables!AreaPointers(handle.mulch) = {}
      BY <2>1 DEF TablesInv, TablesTypes, FreedOK
    <2>3. handle' \in Handles
      BY <2>1 DEF Handles, Slots, Founds, AreaMemory, Tables!NoHandle, Tables!NoSlot
    <2>4. TablesTypes'
      BY <2>1, <2>2, <2>3, HandlesStay DEF TablesInv, TablesTypes
    <2>5. FreedOK'
      BY <2>1, <2>2 DEF FreedOK
    <2>6. ProgressOK'
      BY <2>1 DEF ProgressOK
    <2> QED BY <2>4, <2>5, <2>6 DEF TablesInv
  <1>4. CASE UNCHANGED tablesVars
    <2>1. UNCHANGED <<disc, tablesPc, handle, live, wrongFree>>
      BY <1>4 DEF tablesVars
    <2>2. TablesTypes'
      BY <2>1, HandlesStay DEF TablesInv, TablesTypes
    <2>3. FreedOK'
      BY <2>1 DEF TablesInv, FreedOK, Tables!Pointers, Tables!AreaPointers
    <2>4. ProgressOK'
      BY <2>1 DEF TablesInv, ProgressOK, Unread, Tables!AreaPointers, Own, TextsOf, Tables!Descriptions
    <2> QED BY <2>2, <2>3, <2>4 DEF TablesInv
  <1> QED BY <1>1, <1>2, <1>3, <1>4, ReadArea1KeepsTablesInv, ReadArea2KeepsTablesInv DEF Tables!Next
-----------------------------------------------------------------------------
(* DiscTables: the areas that are named.                                   *)

Memory == Own(1) \cup Own(2) \cup {<<"title", i>> : i \in 1..16} \cup {<<"handle">>, <<"frame">>, <<"master">>}

\* The area that i names is one of that kind, among those that were counted.
NamedOK(i, twoch) ==
    i # -1 => /\ i < handle.count
              /\ \E a \in {1, 2} : IsAreas(handle.slot[i], a) /\ disc.areas[a].twoch = twoch

AreasInv == /\ NamedOK(handle.twoch, TRUE) /\ NamedOK(handle.mulch, FALSE)
            /\ handle.twoch # -1 => handle.twoch # handle.mulch
            /\ live \subseteq Memory

LEMMA MemoryIsFinite == disc \in Discs => IsFiniteSet(Memory)
  <1> SUFFICES ASSUME disc \in Discs PROVE IsFiniteSet(Memory)
    OBVIOUS
  <1>1. ASSUME NEW a \in {1, 2} PROVE IsFiniteSet(Own(a))
    <2>0. \A b \in Tables!AreaNumbers : disc.areas[b].descriptions \in 0..4 /\ disc.areas[b].tracks \in 0..255
      BY TablesAssumption, Zenon DEF Tables!DiscsAssumption
    <2>1. disc.areas[a].descriptions \in 0..4 /\ disc.areas[a].tracks \in 0..255
      BY <2>0 DEF Tables!AreaNumbers
    <2>2. PICK d \in Nat : d = disc.areas[a].descriptions
      BY <2>1
    <2>3. PICK n \in Nat : n = disc.areas[a].tracks
      BY <2>1
    <2>4. IsFiniteSet({<<"description", a, i>> : i \in 1..d})
      <3>1. IsFiniteSet(1..d)
        BY FS_Interval
      <3>2. PICK f : f = [i \in 1..d |-> <<"description", a, i>>]
        OBVIOUS
      <3>3. f \in Surjection(1..d, {<<"description", a, i>> : i \in 1..d})
        BY <3>2 DEF Surjection
      <3> QED BY <3>1, <3>3, FS_Surjection
    <2>5. IsFiniteSet({<<"text", a, t>> : t \in 1..n})
      <3>1. IsFiniteSet(1..n)
        BY FS_Interval
      <3>2. PICK f : f = [t \in 1..n |-> <<"text", a, t>>]
        OBVIOUS
      <3>3. f \in Surjection(1..n, {<<"text", a, t>> : t \in 1..n})
        BY <3>2 DEF Surjection
      <3> QED BY <3>1, <3>3, FS_Surjection
    <2>6. IsFiniteSet({<<"area", a>>})
      BY FS_Singleton
    <2> QED BY <2>2, <2>3, <2>4, <2>5, <2>6, FS_Union DEF Own, Tables!Descriptions, TextsOf
  <1>2. IsFiniteSet({<<"title", i>> : i \in 1..16})
    <2>1. IsFiniteSet(1..16)
      <3>1. 1 \in Int /\ 16 \in Int
        OBVIOUS
      <3> QED BY ONLY <3>1, FS_Interval
    <2>2. PICK f : f = [i \in 1..16 |-> <<"title", i>>]
      OBVIOUS
    <2>3. f \in Surjection(1..16, {<<"title", i>> : i \in 1..16})
      BY <2>2 DEF Surjection
    <2> QED BY <2>1, <2>3, FS_Surjection
  <1>3. IsFiniteSet({<<"handle">>, <<"frame">>, <<"master">>})
    <2>1. IsFiniteSet({<<"handle">>}) /\ IsFiniteSet({<<"frame">>}) /\ IsFiniteSet({<<"master">>})
      BY FS_Singleton
    <2>2. IsFiniteSet({<<"handle">>} \cup {<<"frame">>})
      BY <2>1, FS_Union
    <2>3. IsFiniteSet(({<<"handle">>} \cup {<<"frame">>}) \cup {<<"master">>})
      BY <2>1, <2>2, FS_Union
    <2>4. {<<"handle">>, <<"frame">>, <<"master">>} = ({<<"handle">>} \cup {<<"frame">>}) \cup {<<"master">>}
      OBVIOUS
    <2> QED BY ONLY <2>3, <2>4
  <1> QED BY <1>1, <1>2, <1>3, FS_Union DEF Memory

\* Another area may be read into the next slot, and then is named.
LEMMA ReadingKeepsAreasInv ==
    ASSUME TablesInv, AreasInv, NEW a \in {1, 2}, NEW next, Tables!ReadArea(a, next), disc' = disc,
           NEW slot \in {0, 1}, slot = handle.count
    PROVE  AreasInv'
  <1>1. TablesTypes /\ handle \in Handles /\ handle.twoch \in -1..1 /\ handle.mulch \in -1..1
    BY DEF TablesInv, TablesTypes, Handles
  <1>2. /\ live' \subseteq live \cup Own(a)
        /\ \A i \in (0..2) \ {slot} : handle'.slot[i] = handle.slot[i]
        /\ \/ handle'.count = slot /\ handle'.twoch = handle.twoch /\ handle'.mulch = handle.mulch
           \/ /\ handle'.count = slot + 1 /\ IsAreas(handle'.slot[slot], a)
              /\ IF disc.areas[a].twoch THEN handle'.twoch = slot /\ handle'.mulch = handle.mulch
                 ELSE handle'.twoch = handle.twoch /\ handle'.mulch = slot
    BY <1>1, AreaIsRead
  <1>3. disc.areas[a].twoch \in BOOLEAN
    BY <1>1, TablesAssumption DEF TablesTypes, Tables!DiscsAssumption, Tables!AreaNumbers
  <1> DEFINE Named(i, twoch) ==
               i # -1 => /\ i < handle'.count
                         /\ \E b \in {1, 2} : IsAreas(handle'.slot[i], b) /\ disc.areas[b].twoch = twoch
  <1>4. ASSUME NEW i \in -1..1, NEW twoch, NamedOK(i, twoch) PROVE Named(i, twoch) /\ (i # -1 => i < slot)
    <2>1. i # -1 => i < slot /\ i \in (0..2) \ {slot}
      BY <1>4 DEF NamedOK
    <2>2. i # -1 => handle'.slot[i] = handle.slot[i] /\ i < handle'.count
      BY <1>2, <2>1
    <2> QED BY <1>4, <2>1, <2>2 DEF NamedOK
  <1>5. /\ Named(handle.twoch, TRUE) /\ Named(handle.mulch, FALSE)
        /\ (handle.twoch # -1 => handle.twoch < slot) /\ (handle.mulch # -1 => handle.mulch < slot)
    BY <1>1, <1>4 DEF AreasInv
  <1>6. /\ Named(handle'.twoch, TRUE) /\ Named(handle'.mulch, FALSE)
        /\ handle'.twoch # -1 => handle'.twoch # handle'.mulch
    <2>1. CASE handle'.twoch = handle.twoch /\ handle'.mulch = handle.mulch
      BY <1>5, <2>1 DEF AreasInv
    <2>2. CASE handle'.count = slot + 1 /\ IsAreas(handle'.slot[slot], a)
      <3>1. CASE disc.areas[a].twoch = TRUE /\ handle'.twoch = slot /\ handle'.mulch = handle.mulch
        BY <1>1, <1>5, <2>2, <3>1
      <3>2. CASE disc.areas[a].twoch = FALSE /\ handle'.twoch = handle.twoch /\ handle'.mulch = slot
        BY <1>1, <1>5, <2>2, <3>2
      <3> QED BY <1>2, <1>3, <2>1, <2>2, <3>1, <3>2
    <2> QED BY <1>2, <2>1, <2>2
  <1>7. \A s, b : IsAreas(s, b)' = IsAreas(s, b)
    BY DEF IsAreas, Tables!TrackTexts
  <1>8. Memory' = Memory /\ Own(a) \subseteq Memory
    BY DEF Memory, Own, TextsOf, Tables!Descriptions
  <1>9. NamedOK(handle.twoch, TRUE)' /\ NamedOK(handle.mulch, FALSE)'
    BY <1>6, <1>7 DEF NamedOK
  <1> QED BY <1>2, <1>6, <1>8, <1>9 DEF AreasInv

LEMMA StepKeepsAreasInv ==
    ASSUME TablesInv, AreasInv, [Tables!Next]_tablesVars
    PROVE  AreasInv'
  <1>1. disc' = disc
    BY DEF Tables!Next, Tables!Open, Tables!ReadMaster, Tables!ReadArea1, Tables!ReadArea2, Tables!Close, tablesVars
  <1>2. Memory' = Memory
    BY <1>1 DEF Memory, Own, TextsOf, Tables!Descriptions
  <1>3. CASE Tables!Open \/ Tables!Close
    <2>1. handle'.twoch = -1 /\ handle'.mulch = -1
      <3>1. handle' = Tables!NoHandle
        BY <1>3 DEF Tables!Open, Tables!Close
      <3> QED BY <3>1 DEF Tables!NoHandle
    <2>2. live' \subseteq Memory
      BY <1>3 DEF AreasInv, Tables!Open, Tables!Close, Memory
    <2> QED BY <1>2, <2>1, <2>2 DEF AreasInv, NamedOK
  <1>4. CASE Tables!ReadMaster
    <2>1. handle = Tables!NoHandle /\ disc \in Discs
      BY <1>4 DEF Tables!ReadMaster, TablesInv, TablesTypes, ProgressOK
    <2>2. handle'.twoch = -1 /\ handle'.mulch = -1
      BY <1>4, <2>1 DEF Tables!ReadMaster, Tables!NoHandle
    <2>3. disc.titles \in 0..16
      BY <2>1, TablesAssumption DEF Tables!DiscsAssumption
    <2>4. live' \subseteq live \cup {<<"master">>} \cup {<<"title", i>> : i \in 1..disc.titles}
      BY <1>4 DEF Tables!ReadMaster
    <2>5. live' \subseteq Memory
      BY <2>3, <2>4 DEF AreasInv, Memory
    <2> QED BY <1>2, <2>2, <2>5 DEF AreasInv, NamedOK
  <1>5. CASE Tables!ReadArea1
    <2>1. handle.count = 0 /\ Tables!ReadArea(1, "area2")
      BY <1>5 DEF Tables!ReadArea1, TablesInv, ProgressOK, Unread
    <2> QED BY <1>1, <2>1, ReadingKeepsAreasInv
  <1>6. CASE Tables!ReadArea2
    <2>1. handle.count \in {0, 1} /\ Tables!ReadArea(2, "open")
      BY <1>6 DEF Tables!ReadArea2, TablesInv, ProgressOK, Unread
    <2> QED BY <1>1, <2>1, ReadingKeepsAreasInv
  <1>7. CASE UNCHANGED tablesVars
    <2>1. handle' = handle /\ live' = live
      BY <1>7 DEF tablesVars
    <2>2. \A s, a : IsAreas(s, a)' = IsAreas(s, a)
      BY <1>1 DEF IsAreas, Tables!TrackTexts
    <2> QED BY <1>1, <1>2, <2>1, <2>2 DEF AreasInv, NamedOK
  <1> QED BY <1>3, <1>4, <1>5, <1>6, <1>7 DEF Tables!Next
-----------------------------------------------------------------------------
(* The components together.                                                *)

LEMMA PartsKeepTheirs ==
    ASSUME NetInv, TablesInv, AreasInv, [InputsNext]_inputsVars
    PROVE  NetInv' /\ TablesInv' /\ AreasInv'
  <1>1. [Net!Next]_netVars /\ [Tables!Next]_tablesVars
    BY DEF InputsNext, NetStep, inputsVars
  <1> QED BY <1>1, NetStepKeepsNetInv, TablesStepKeepsTablesInv, StepKeepsAreasInv

LEMMA InputsKeepInv == InputsSpec => [](NetInv /\ TablesInv /\ AreasInv)
  <1>1. Tables!Init => AreasInv
    BY DEF Tables!Init, Tables!NoHandle, AreasInv, NamedOK
  <1>2. InputsInit => NetInv /\ TablesInv /\ AreasInv
    BY <1>1, NetInit, TablesInit DEF InputsInit
  <1> QED BY <1>2, PartsKeepTheirs, PTL DEF InputsSpec

\* A read from a server gives the sectors it was asked for, as many as it says,
\* although answers carry no number: whatever the disc's size, however the
\* server fails or goes away, as long as pb_decode gave up no answer halfway; and
\* then every variable still has its type.
THEOREM AnswersBelongToRequests == InputsSpec => []ReadsAreAnswered
  <1>1. NetInv => ReadsAreAnswered
    <2> SUFFICES ASSUME NetInv PROVE Net!NetTypeOK /\ Net!ReadsAreAnswered
      BY DEF ReadsAreAnswered
    <2>1. Net!NetTypeOK
      BY DEF NetInv, NetTypes, Net!NetTypeOK
    <2>2. ASSUME rejected = 0 PROVE /\ netPc \in {"idle", "reader"} => toServer = <<>> /\ toClient = <<>>
                                    /\ netPc = "idle" /\ call.type = "size" => value \in {0, Total}
      BY <2>2 DEF NetInv, OnTheWay, LastCallOK
    <2>3. ASSUME rejected = 0, netPc = "idle", call.type = "read"
          PROVE  /\ value \in 0..Net!Smaller(call.count, Len(netBuffer))
                 /\ \A i \in 1..value : netBuffer[i] = call.pos + i - 1
      <3>1. /\ value \in Nat /\ value <= call.count /\ value <= Len(netBuffer)
            /\ \A i \in 1..value : netBuffer[i] = call.pos + i - 1
            /\ netBuffer \in Seq(Nat)
        BY <2>3 DEF NetInv, NetTypes, LastCallOK
      <3>2. call.count \in Nat
        BY <2>3, NetNumbers DEF NetInv, NetTypes, Net!Requests, Net!NoCall, Net!Request
      <3> QED BY <3>1, <3>2 DEF Net!Smaller
    <2> QED BY <2>1, <2>2, <2>3 DEF Net!ReadsAreAnswered
  <1> QED BY <1>1, InputsKeepInv, PTL

\* Closing gives back what opening took, on every way through: a device on the
\* network that is closed has no memory, no socket and no connection left, one
\* that is open has them all; scarletbook_close frees nothing twice and nothing
\* that was not allocated, whatever the disc's tables, and leaves nothing of a
\* disc that is sound or refused for its master table.
THEOREM ClosingFrees == InputsSpec => []ClosingFreesWhatOpeningTook
  <1>1. NetInv /\ TablesInv => ClosingFreesWhatOpeningTook
    BY DEF NetInv, HeldOK, TablesInv, TablesTypes, FreedOK, Claimed, ClosingFreesWhatOpeningTook,
       Net!ClosedHoldsNothing, Tables!ClosingFreesWhatOpeningTook
  <1> QED BY <1>1, InputsKeepInv, PTL

\* Whatever the discs and whatever is wrong with their tables: an open disc's
\* two-channel and multi-channel areas are areas of that kind, each with its own
\* table and texts; the tables behind it are found where the disc has them, up
\* to the first block that is not known, for any number of blocks in any order;
\* and the structures laid over the sectors are as wide as the parser takes
\* them to be.
THEOREM AreasAreRight == InputsSpec => []AreasAreWhatTheySay
  <1>1. TablesInv /\ AreasInv => AreasAreWhatTheySay
    <2> SUFFICES ASSUME TablesInv, AreasInv PROVE Tables!TablesTypeOK /\ Tables!AreasAreWhatTheySay
      BY DEF AreasAreWhatTheySay
    <2>1. /\ disc \in Discs /\ handle.twoch \in -1..1 /\ handle.mulch \in -1..1 /\ handle.count \in 0..2
          /\ wrongFree = FALSE /\ tablesPc \in {"closed", "master", "area1", "area2", "open", "failed"}
      BY DEF TablesInv, TablesTypes, Handles
    <2>2. IsFiniteSet(live)
      BY <2>1, MemoryIsFinite, FS_Subset DEF AreasInv
    <2>3. Tables!TablesTypeOK
      BY <2>1, <2>2 DEF Tables!TablesTypeOK, Tables!IsFiniteSet, IsFiniteSet
    <2>4. ASSUME NEW i \in {handle.twoch, handle.mulch} \ {-1}
          PROVE  LET slot == handle.slot[i]
                     a == slot.area IN
                 /\ i < handle.count
                 /\ slot.data = <<"area", a>> /\ disc.areas[a].twoch = (i = handle.twoch)
                 /\ \A t \in slot.trackTexts : t[2] = a
                 /\ slot.found.text = Tables!Least(Tables!StartsOf(a, "SACDTTxt"))
                 /\ slot.found.genres = Tables!Greatest(Tables!StartsOf(a, "SACD_IGL"))
                 /\ slot.found.offsets = Tables!Greatest(Tables!StartsOf(a, "SACDTRL1"))
                 /\ slot.found.times = Tables!Greatest(Tables!StartsOf(a, "SACDTRL2"))
      <3>1. \/ NamedOK(i, TRUE) /\ i = handle.twoch
            \/ NamedOK(i, FALSE) /\ i # handle.twoch
        BY <2>1, <2>4 DEF AreasInv
      <3>2. PICK a \in {1, 2} : /\ i < handle.count /\ IsAreas(handle.slot[i], a)
                               /\ disc.areas[a].twoch = (i = handle.twoch)
        BY <2>4, <3>1 DEF NamedOK
      <3>3. PICK slot : slot = handle.slot[i]
        OBVIOUS
      <3>4. /\ slot.area = a /\ slot.data = <<"area", a>>
            /\ slot.found = Tables!ParseBlocks(Tables!Sectors(disc.areas[a]))
            /\ slot.trackTexts = Tables!TrackTexts(a, slot.found)
        BY <3>2, <3>3 DEF IsAreas
      <3>5. \A t \in slot.trackTexts : t[2] = a
        BY <3>4 DEF Tables!TrackTexts
      <3>6. \A block : Tables!StartsOf(a, block) = At(a, block, Tables!Known(a))
        BY DEF Tables!StartsOf, At, BlocksOf
      <3>7. /\ slot.found.text = Tables!Least(Tables!StartsOf(a, "SACDTTxt"))
            /\ slot.found.genres = Tables!Greatest(Tables!StartsOf(a, "SACD_IGL"))
            /\ slot.found.offsets = Tables!Greatest(Tables!StartsOf(a, "SACDTRL1"))
            /\ slot.found.times = Tables!Greatest(Tables!StartsOf(a, "SACDTRL2"))
        BY <2>1, <3>4, <3>6, TablesAreFound DEF FoundUpTo
      <3> QED BY <3>2, <3>3, <3>4, <3>5, <3>7
    <2>5. handle.twoch # -1 => handle.twoch # handle.mulch
      BY DEF AreasInv
    <2> QED BY <2>3, <2>4, <2>5, Widths DEF Tables!AreasAreWhatTheySay
  <1> QED BY <1>1, InputsKeepInv, PTL
==============================================================================
