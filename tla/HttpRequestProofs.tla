------------------------- MODULE HttpRequestProofs ------------------------
(* Theorems about HttpRequest: for any request, any response in any pieces,   *)
(* and any moment of a failure or a timeout.                                  *)
EXTENDS HttpRequest, SelectionProofs, TLAPS

(* Tokens: what the operators on sequences give.                              *)

\* The end of a header is the place of the first token that ends one.
LEMMA HeaderEndIsFirst ==
    ASSUME NEW all \in Seq(Tokens)
    PROVE  LET ends == {i \in 1..Len(all) : all[i] \in {"continue", "final"}}
           IN  IF ends = {} THEN HeaderEnd(all) = 0
               ELSE HeaderEnd(all) \in ends /\ \A i \in ends : HeaderEnd(all) <= i
<1>. DEFINE ends == {i \in 1..Len(all) : all[i] \in {"continue", "final"}}
<1>1. HeaderEnd(all) = IF ends # {} THEN Min(ends) ELSE 0
  BY DEF HeaderEnd, SelectInSeq
<1>2. ends \in SUBSET Nat
  BY LenProperties
<1>. HIDE DEF ends
<1>3. IF ends = {} THEN HeaderEnd(all) = 0
      ELSE HeaderEnd(all) \in ends /\ \A i \in ends : HeaderEnd(all) <= i
  BY <1>1, <1>2, FirstOfSome DEF Min
<1>. QED
  BY <1>3 DEF ends

\* And so is the place of the last chunk.
LEMMA LastChunkIsFirst ==
    ASSUME NEW all \in Seq(Tokens)
    PROVE  LET ends == {i \in 1..Len(all) : all[i] = "lastchunk"}
           IN  IF ends = {} THEN LastChunk(all) = 0
               ELSE LastChunk(all) \in ends /\ \A i \in ends : LastChunk(all) <= i
<1>. DEFINE ends == {i \in 1..Len(all) : all[i] = "lastchunk"}
<1>1. LastChunk(all) = IF ends # {} THEN Min(ends) ELSE 0
  BY DEF LastChunk, SelectInSeq
<1>2. ends \in SUBSET Nat
  BY LenProperties
<1>. HIDE DEF ends
<1>3. IF ends = {} THEN LastChunk(all) = 0
      ELSE LastChunk(all) \in ends /\ \A i \in ends : LastChunk(all) <= i
  BY <1>1, <1>2, FirstOfSome DEF Min
<1>. QED
  BY <1>3 DEF ends
----------------------------------------------------------------------------
(* The invariant, by the place of the generator.                              *)

\* Before it has a socket: at most the one that waits in the pool is open.
BeforeInv ==
    /\ pc = "idle" => regs = {} /\ ~timer
    /\ pc = "start" => regs = {<<"process", None>>}
    /\ pc \in {"idle", "start"} => open = pool /\ pool \subseteq {"pooled"}

\* While it connects, the new socket is all there is, and it is registered.
ConnectInv ==
    pc \in {"connect", "shake"} =>
        /\ ~retryOnce /\ sok = "fresh" /\ open = {"fresh"} /\ pool = {}
        /\ \E kind \in {"reader", "writer"} : regs = {<<kind, "fresh">>}

\* While the socket is in use, it is all there is; the request is retried only
\* on a pooled socket, and a socket that gave no data has all of the answer.
UseInv ==
    InUse =>
        /\ sok \in Socks /\ open = {sok} /\ pool = {}
        /\ \E kind \in {"reader", "writer"} : regs = {<<kind, sok>>}
        /\ retryOnce => sok = "pooled"
        /\ ~recievedData => unread = Script(response)

\* After the end nothing is left but what is in the pool, or the registration
\* that a timeout finds while the socket is connected.
AfterInv ==
    /\ pc = "ended" => regs = {} /\ open = pool
    /\ pc = "done" =>
          \/ regs = {} /\ open = pool
          \/ /\ result = "timeout" /\ sok = "fresh" /\ open = {"fresh"}
             /\ pool = {}
             /\ \E kind \in {"reader", "writer"} : regs = {<<kind, "fresh">>}

\* The Suspend is settled when the generator is done, and its timer is gone.
SettledInv ==
    /\ ~dead
    /\ result = "none" <=> pc \notin {"done", "ended"}
    /\ timer => result = "none"

RequestInv ==
    TypeOK /\ BeforeInv /\ ConnectInv /\ UseInv /\ AfterInv /\ SettledInv

\* The answer from a place on, and the lengths of its header and its body.
From(p) == SubSeq(Script(response), p + 1, Len(Script(response)))
HeadLength == IF response.continue THEN 4 ELSE 2
BodyLength == IF response.framing = "chunked" THEN response.size + 1
              ELSE response.size

\* While the header is read: what was read and not matched begins at the start,
\* or behind the 100 Continue, and ends where what is unread begins.
HeadInv ==
    \E q \in {0, HeadLength - 2} : \E p \in q..Len(Script(response)) :
        got = SubSeq(Script(response), q + 1, p) /\ unread = From(p)

\* While the body is read, it is not complete.
BodyInv ==
    /\ response.framing # "none"
    /\ response.framing = "length" => left < response.size
    /\ response.framing = "chunked" => left <= response.size
    /\ HeadLength + left <= Len(Script(response)) /\ unread = From(HeadLength + left)

\* At the end it is, unless a limit or the end of the connection delimits it;
\* and then the socket does not go to the pool.
WholeInv ==
    /\ DoClose => sok \notin pool
    /\ request.maxSize = None /\ response.framing # "close" =>
          left = BodyLength /\ unread = From(HeadLength + BodyLength)

\* What is read and what is unread are the answer, divided.
DataInv ==
    /\ pc = "send" => got = <<>> /\ unread = Script(response)
    /\ pc \in {"send", "head"} => left = 0
    /\ pc = "head" => HeadInv
    /\ pc = "body" => BodyInv
    /\ result = "response" => WholeInv

\* It says what the properties say.
LEMMA RequestInvMeans ==
    ASSUME RequestInv
    PROVE  IInv /\ NothingLeftBehind
<1>. USE DEF RequestInv, BeforeInv, ConnectInv, UseInv, AfterInv, SettledInv, InUse
<1>1. ASSUME pc \notin {"idle", "done", "ended"}
      PROVE  \E reg : regs = {reg}
  BY <1>1 DEF TypeOK
<1>2. ASSUME pc \notin {"idle", "done", "ended"} PROVE Cardinality(regs) = 1
  BY <1>1, <1>2, FS_Singleton
<1>3. InUse => \A reg \in regs : reg[2] = sok /\ sok \in open
  OBVIOUS
<1>4. result = "none" /\ pc # "idle" => regs # {}
  BY <1>1
<1>5. IInv
  BY <1>2, <1>3, <1>4 DEF IInv, OneDriver
<1>6. NothingLeftBehind
  <2>1. CASE regs = {} /\ open = pool
    BY <2>1 DEF NothingLeftBehind
  <2>2. ASSUME NEW kind \in {"reader", "writer"}, regs = {<<kind, "fresh">>},
               result = "timeout", open = {"fresh"}, pool = {}
        PROVE  NothingLeftBehind
    BY <2>2 DEF NothingLeftBehind
  <2>3. CASE result = "none"
    BY <2>3 DEF NothingLeftBehind
  <2>. QED
    BY <2>1, <2>2, <2>3
<1>. QED
  BY <1>5, <1>6

\* The answer is a sequence of tokens.
LEMMA ScriptIsTokens ==
    ASSUME NEW r \in Responses
    PROVE  Script(r) \in Seq(Tokens)
<1>. DEFINE body == [i \in 1..r.size |-> IF r.framing = "chunked" THEN "chunk"
                                         ELSE "data"]
<1>1. /\ "part" \in Tokens /\ "continue" \in Tokens /\ "final" \in Tokens
      /\ "data" \in Tokens /\ "chunk" \in Tokens /\ "lastchunk" \in Tokens
      /\ "excess" \in Tokens
  BY DEF Tokens, Rest
<1>2. body \in Seq(Tokens)
  <2>1. r.size \in Nat
    BY HttpRequestAssumption
  <2>2. body \in [1..r.size -> Tokens]
    BY <1>1
  <2>. QED
    BY <2>1, <2>2, SeqDef
<1>. HIDE DEF body
<1>3. /\ <<"part", "continue">> \in Seq(Tokens) /\ <<"part", "final">> \in Seq(Tokens)
      /\ <<>> \in Seq(Tokens) /\ <<"lastchunk">> \in Seq(Tokens)
      /\ <<"excess">> \in Seq(Tokens)
  BY <1>1
<1>. QED
  BY <1>2, <1>3, ConcatProperties DEF Script, body

\* What is read and what is not are tokens.
DataTypes == got \in Seq(Tokens) /\ left \in Nat /\ unread \in Seq(Tokens)

\* The types of all that is not data.
ControlTypes ==
    /\ request \in Requests /\ response \in Responses
    /\ pc \in {"idle", "start", "connect", "shake", "send", "head", "body",
               "done", "ended"}
    /\ regs \subseteq {"process", "reader", "writer"} \X (Socks \cup {None})
    /\ sok \in Socks \cup {None}
    /\ {retryOnce, recievedData, sent, timer, dead} \subseteq BOOLEAN
    /\ count \in 0..MaxHandshakes
    /\ open \subseteq Socks /\ pool \subseteq open
    /\ result \in {"none", "response", "error", "timeout"}
    /\ asked \subseteq Socks

LEMMA TypesAreBoth ==
    /\ TypeOK <=> ControlTypes /\ DataTypes
    /\ TypeOK' <=> ControlTypes' /\ DataTypes'
BY DEF TypeOK, ControlTypes, DataTypes

\* At the start nothing is registered, sent or settled.
LEMMA RequestStart ==
    ASSUME Init
    PROVE  RequestInv
<1>1. DataTypes
  BY EmptySeq DEF Init, DataTypes
<1>2. ControlTypes
  <2>1. pool \subseteq open /\ open \subseteq Socks /\ asked \subseteq Socks
    BY DEF Init, Socks
  <2>2. {retryOnce, recievedData, sent, timer, dead} \subseteq BOOLEAN
    BY DEF Init
  <2>3. count \in 0..MaxHandshakes
    BY HttpRequestAssumption DEF Init
  <2>4. sok \in Socks \cup {None}
    BY DEF Init
  <2>. QED
    BY <2>1, <2>2, <2>3, <2>4 DEF Init, ControlTypes
<1>. QED
  BY <1>1, <1>2, TypesAreBoth
  DEF Init, RequestInv, BeforeInv, ConnectInv, UseInv, AfterInv, SettledInv, InUse

\* A part of a sequence of tokens is one.
LEMMA PartOfTokens ==
    ASSUME NEW s \in Seq(Tokens), NEW m \in Nat, NEW n \in Nat
    PROVE  m >= 1 /\ n <= Len(s) => SubSeq(s, m, n) \in Seq(Tokens)
BY SubSeqProperties, LenProperties

\* What a recv leaves, and the places it divides a header at.
LEMMA RecvHeadTypes ==
    ASSUME DataTypes, NEW k \in 1..Len(unread)
    PROVE  LET all == got \o SubSeq(unread, 1, k)
               end == HeaderEnd(all)
           IN  /\ SubSeq(unread, 1, k) \in Seq(Tokens)
               /\ SubSeq(unread, k + 1, Len(unread)) \in Seq(Tokens)
               /\ all \in Seq(Tokens)
               /\ SubSeq(all, end + 1, Len(all)) \in Seq(Tokens)
<1>. DEFINE all == got \o SubSeq(unread, 1, k)
            end == HeaderEnd(all)
<1>1. Len(unread) \in Nat /\ k \in Nat
  BY LenProperties DEF DataTypes
<1>2. /\ SubSeq(unread, 1, k) \in Seq(Tokens)
      /\ SubSeq(unread, k + 1, Len(unread)) \in Seq(Tokens)
  BY <1>1, PartOfTokens DEF DataTypes
<1>3. all \in Seq(Tokens)
  BY <1>2, ConcatProperties DEF DataTypes
<1>4. end \in Nat /\ Len(all) \in Nat
  <2>. HIDE DEF all
  <2>. QED
    BY <1>3, HeaderEndIsFirst, LenProperties
<1>5. SubSeq(all, end + 1, Len(all)) \in Seq(Tokens)
  <2>. HIDE DEF all, end
  <2>. QED
    BY <1>3, <1>4, PartOfTokens
<1>. QED
  BY <1>2, <1>3, <1>5

\* Data stays data, whatever happens.
LEMMA DataStaysTyped ==
    ASSUME RequestInv, Next
    PROVE  DataTypes'
<1>. USE DEF DataTypes
<1>1. DataTypes /\ response \in Responses
  BY DEF RequestInv, TypeOK
<1>2. Script(response) \in Seq(Tokens) /\ \A s : s = <<>> => s \in Seq(Tokens)
  BY <1>1, ScriptIsTokens, EmptySeq, Zenon
<1>3. \A kept : CreateSocket(kept) => DataTypes'
  <2>1. ConnectRaises => DataTypes'
    BY <1>1 DEF ConnectRaises
  <2>2. Connecting => DataTypes'
    BY <1>2 DEF Connecting
  <2>. QED
    BY <2>1, <2>2 DEF CreateSocket
<1>4. \A s : ToSend(s) => DataTypes'
  BY <1>1, <1>2 DEF ToSend
<1>5. Handshake => DataTypes'
  BY <1>1, <1>4 DEF Handshake, HandshakeFails
<1>6. AttemptFails => DataTypes'
  BY <1>1, <1>3 DEF AttemptFails, conn
<1>7. ASSUME NEW rest \in Seq(Tokens), ReadBody(rest)
      PROVE  got' \in Seq(Tokens) /\ left' \in Nat
  <2>1. Len(rest) \in Nat
    BY <1>7, LenProperties
  <2>. QED
    BY <1>1, <1>2, <1>7, <2>1 DEF ReadBody, Complete
<1>8. ASSUME NEW k \in 1..Len(unread), RecvHead(k)
      PROVE  DataTypes'
  BY <1>1, <1>7, <1>8, RecvHeadTypes DEF RecvHead
<1>9. ASSUME NEW k \in 1..Len(unread), RecvBody(k)
      PROVE  DataTypes'
  BY <1>1, <1>7, <1>9, RecvHeadTypes DEF RecvBody
<1>10. Begin \/ SendDone \/ ConnectFails \/ TimedOut \/ StrayCallback => DataTypes'
  BY <1>1 DEF Begin, SendDone, ConnectFails, TimedOut, StrayCallback, conn
<1>11. StartFresh \/ StartPooled \/ Connected \/ ShakeAgain => DataTypes'
  BY <1>1, <1>3, <1>4, <1>5
  DEF StartFresh, StartPooled, Connected, ShakeAgain
<1>12. Send \/ RecvFails => DataTypes'
  BY <1>1, <1>6 DEF Send, RecvFails
<1>13. RecvClosed => DataTypes'
  BY <1>1, <1>6 DEF RecvClosed
<1>. QED
  BY <1>8, <1>9, <1>10, <1>11, <1>12, <1>13 DEF Next, Progress
----------------------------------------------------------------------------
(* The rest of the invariant, action by action.                               *)

\* All of the invariant that is not about data.
Shape ==
    ControlTypes /\ BeforeInv /\ ConnectInv /\ UseInv /\ AfterInv /\ SettledInv

\* The places at which the generator has not settled its Suspend.
Waiting == {"start", "connect", "shake", "send", "head", "body"}

\* In those, no result is known and no error has left the loop.
LEMMA WaitingIsOpen ==
    ASSUME RequestInv, pc \in Waiting
    PROVE  ControlTypes /\ result = "none" /\ ~dead
BY TypesAreBoth DEF RequestInv, SettledInv, Waiting

\* It fails once all sockets but those of the pool are closed.
LEMMA FailsKeepsShape ==
    ASSUME RequestInv, pc \in Waiting, Fails, open' = pool', pool' \subseteq Socks,
           sok' \in Socks \cup {None}, count' \in 0..MaxHandshakes,
           {retryOnce', recievedData', sent'} \subseteq BOOLEAN,
           UNCHANGED <<request, response>>, asked' \subseteq Socks
    PROVE  Shape'
<1>1. ControlTypes /\ result = "none" /\ ~dead
  BY WaitingIsOpen
<1>2. pc' = "done" /\ regs' = {} /\ result' = "error" /\ ~dead' /\ ~timer'
      /\ dead' \in BOOLEAN /\ timer' \in BOOLEAN
  BY <1>1 DEF Fails, Settle
<1>3. ControlTypes'
  BY <1>1, <1>2 DEF ControlTypes
<1>. QED
  BY <1>2, <1>3
  DEF Shape, BeforeInv, ConnectInv, UseInv, AfterInv, SettledInv, InUse

\* A socket is used: it is registered and it is the only one.
LEMMA ToSendKeepsShape ==
    ASSUME RequestInv, pc \in Waiting, NEW s \in Socks, ToSend(s),
           UNCHANGED <<request, response, result, timer, dead, asked>>,
           pool' = {}, open' = {s}, count' \in 0..MaxHandshakes,
           retryOnce' \in BOOLEAN, retryOnce' => s = "pooled"
    PROVE  Shape'
<1>1. ControlTypes /\ result = "none" /\ ~dead
  BY WaitingIsOpen
<1>2. /\ pc' = "send" /\ regs' = {<<"writer", s>>} /\ sok' = s
      /\ unread' = Script(response') /\ sent' = FALSE /\ recievedData' = FALSE
  BY DEF ToSend
<1>3. ControlTypes'
  <2>1. regs' \subseteq {"process", "reader", "writer"} \X (Socks \cup {None})
    BY <1>2
  <2>2. {retryOnce', recievedData', sent', timer', dead'} \subseteq BOOLEAN
    BY <1>1, <1>2 DEF ControlTypes
  <2>3. open' \subseteq Socks /\ pool' \subseteq open' /\ sok' \in Socks \cup {None}
    BY <1>2
  <2>. QED
    BY <1>1, <1>2, <2>1, <2>2, <2>3 DEF ControlTypes
<1>4. UseInv'
  BY <1>2 DEF UseInv
<1>. QED
  BY <1>1, <1>2, <1>3, <1>4
  DEF Shape, BeforeInv, ConnectInv, AfterInv, SettledInv, InUse

\* A connection is started: no other socket is open.
LEMMA CreateSocketKeepsShape ==
    ASSUME RequestInv, pc \in Waiting, CreateSocket({}), pool' = {},
           UNCHANGED <<request, response>>, asked' \subseteq Socks
    PROVE  Shape'
<1>1. ControlTypes /\ result = "none" /\ ~dead
  BY WaitingIsOpen
<1>2. CASE ConnectRaises /\ open' = {}
  <2>1. count' \in 0..MaxHandshakes
        /\ {retryOnce', recievedData', sent'} \subseteq BOOLEAN
    BY <1>1, <1>2 DEF ConnectRaises, CreateSocket, ControlTypes
  <2>. QED
    BY <1>2, <2>1, FailsKeepsShape DEF ConnectRaises
<1>3. CASE Connecting /\ open' = {} \cup {"fresh"}
  <2>1. /\ pc' = "connect" /\ regs' = {<<"writer", "fresh">>} /\ sok' = "fresh"
        /\ count' = 0 /\ sent' = FALSE /\ UNCHANGED <<result, timer, dead>>
        /\ retryOnce' = FALSE /\ recievedData' = FALSE /\ open' = {"fresh"}
    BY <1>3 DEF Connecting, CreateSocket
  <2>2. ControlTypes'
    <3>1. "fresh" \in Socks
      BY DEF Socks
    <3>2. regs' \subseteq {"process", "reader", "writer"} \X (Socks \cup {None})
      BY <2>1, <3>1
    <3>3. {retryOnce', recievedData', sent', timer', dead'} \subseteq BOOLEAN
      BY <1>1, <2>1 DEF ControlTypes
    <3>4. count' \in 0..MaxHandshakes
      BY <2>1, HttpRequestAssumption
    <3>5. open' \subseteq Socks /\ pool' \subseteq open' /\ sok' \in Socks \cup {None}
      BY <2>1, <3>1
    <3>. QED
      BY <1>1, <2>1, <3>2, <3>3, <3>4, <3>5 DEF ControlTypes
  <2>3. ConnectInv'
    BY <2>1 DEF ConnectInv
  <2>. QED
    BY <1>1, <2>1, <2>2, <2>3
    DEF Shape, BeforeInv, UseInv, AfterInv, SettledInv, InUse
<1>. QED
  BY <1>2, <1>3 DEF CreateSocket

\* An attempt that fails is retried or is the end; its socket is closed first.
LEMMA AttemptFailsKeepsShape ==
    ASSUME RequestInv, InUse, AttemptFails, UNCHANGED <<request, response, pool>>,
           asked' \subseteq Socks
    PROVE  Shape'
<1>1. pc \in Waiting /\ open = {sok} /\ pool = {} /\ ControlTypes
  BY WaitingIsOpen DEF RequestInv, UseInv, InUse, Waiting
<1>2. CASE Retries
  BY <1>1, <1>2, CreateSocketKeepsShape DEF AttemptFails
<1>3. CASE ~Retries
  <2>1. Fails /\ open' = {} /\ UNCHANGED <<sok, retryOnce, recievedData, count, sent>>
    BY <1>1, <1>3 DEF AttemptFails, ShutAndClose, conn
  <2>. QED
    BY <1>1, <2>1, FailsKeepsShape DEF ControlTypes
<1>. QED
  BY <1>2, <1>3

\* A response that is complete: its socket is closed or goes to the pool.
LEMMA CompleteKeepsShape ==
    ASSUME RequestInv, InUse, Complete, recievedData' \in BOOLEAN,
           UNCHANGED <<request, response, asked>>
    PROVE  Shape'
<1>1. /\ pc \in Waiting /\ open = {sok} /\ pool = {} /\ sok \in Socks
      /\ ControlTypes /\ result = "none" /\ ~dead
  BY WaitingIsOpen DEF RequestInv, UseInv, InUse, Waiting
<1>2. pc' = "done" /\ regs' = {} /\ open' = pool' /\ pool' \subseteq {sok}
  BY <1>1 DEF Complete, ShutAndClose
<1>3. /\ result' \in {"response", "error"} /\ ~dead' /\ ~timer'
      /\ dead' \in BOOLEAN /\ timer' \in BOOLEAN
  BY <1>1 DEF Complete, Settle
<1>4. UNCHANGED <<sok, retryOnce, count, sent>>
  BY DEF Complete
<1>5. ControlTypes'
  BY <1>1, <1>2, <1>3, <1>4 DEF ControlTypes
<1>. QED
  BY <1>2, <1>3, <1>5
  DEF Shape, BeforeInv, ConnectInv, UseInv, AfterInv, SettledInv, InUse

\* Reading a body: complete, bad, or more to read.
LEMMA ReadBodyKeepsShape ==
    ASSUME RequestInv, pc \in {"head", "body"}, NEW rest, ReadBody(rest),
           UNCHANGED <<request, response, asked>>
    PROVE  Shape'
<1>1. /\ pc \in Waiting /\ InUse /\ open = {sok} /\ pool = {} /\ sok \in Socks
      /\ ControlTypes /\ result = "none" /\ ~dead
      /\ \E kind \in {"reader", "writer"} : regs = {<<kind, sok>>}
      /\ retryOnce => sok = "pooled"
  BY WaitingIsOpen DEF RequestInv, UseInv, InUse, Waiting
<1>2. recievedData' = TRUE
  BY DEF ReadBody
<1>3. CASE Complete
  BY <1>1, <1>2, <1>3, CompleteKeepsShape
<1>4. CASE /\ Fails /\ ShutAndClose
           /\ UNCHANGED <<sok, retryOnce, count, sent, got, left, pool>>
  BY <1>1, <1>2, <1>4, FailsKeepsShape DEF ShutAndClose, ControlTypes
<1>5. CASE /\ pc' = "body"
           /\ UNCHANGED <<regs, sok, retryOnce, count, sent, open, pool, result,
                          timer, dead>>
  <2>1. ControlTypes'
    BY <1>1, <1>2, <1>5 DEF ControlTypes
  <2>2. UseInv'
    BY <1>1, <1>2, <1>5 DEF UseInv
  <2>3. SettledInv'
    BY <1>1, <1>5 DEF SettledInv
  <2>. QED
    BY <1>5, <2>1, <2>2, <2>3 DEF Shape, BeforeInv, ConnectInv, AfterInv
<1>. QED
  BY <1>3, <1>4, <1>5 DEF ReadBody

\* A handshake goes on, fails or ends with the socket in use.
LEMMA HandshakeKeepsShape ==
    ASSUME RequestInv, pc \in {"connect", "shake"}, Handshake,
           UNCHANGED <<request, response, retryOnce, pool, asked>>
    PROVE  Shape'
<1>1. /\ pc \in Waiting /\ ~retryOnce /\ sok = "fresh" /\ open = {"fresh"}
      /\ pool = {} /\ ControlTypes /\ result = "none" /\ ~dead
  BY WaitingIsOpen DEF RequestInv, ConnectInv, Waiting
<1>2. count' \in 0..MaxHandshakes
  <2>1. count \in 0..MaxHandshakes /\ MaxHandshakes \in Nat
    BY <1>1, HttpRequestAssumption DEF ControlTypes
  <2>2. count' = count \/ (count < MaxHandshakes /\ count' = count + 1)
    BY DEF Handshake
  <2>. QED
    BY <2>1, <2>2
<1>3. CASE HandshakeFails
  <2>1. Fails /\ open' = {} /\ UNCHANGED <<sok, recievedData, sent>>
    BY <1>1, <1>3 DEF HandshakeFails
  <2>. QED
    BY <1>1, <1>2, <2>1, FailsKeepsShape DEF ControlTypes
<1>4. CASE /\ \E kind \in {"reader", "writer"} : regs' = {<<kind, "fresh">>}
           /\ pc' = "shake"
           /\ UNCHANGED <<sok, recievedData, sent, open, result, timer, dead>>
  <2>1. ControlTypes'
    <3>1. "fresh" \in Socks
      BY DEF Socks
    <3>2. regs' \subseteq {"process", "reader", "writer"} \X (Socks \cup {None})
      BY <1>4, <3>1
    <3>. QED
      BY <1>1, <1>2, <1>4, <3>2 DEF ControlTypes
  <2>2. ConnectInv'
    BY <1>1, <1>4 DEF ConnectInv
  <2>. QED
    BY <1>1, <1>4, <2>1, <2>2
    DEF Shape, BeforeInv, UseInv, AfterInv, SettledInv, InUse
<1>5. CASE ToSend("fresh") /\ UNCHANGED <<open, result, timer, dead>>
  <2>1. "fresh" \in Socks /\ retryOnce' \in BOOLEAN
    BY <1>1 DEF ControlTypes, Socks
  <2>. QED
    BY <1>1, <1>2, <1>5, <2>1, ToSendKeepsShape
<1>. QED
  BY <1>3, <1>4, <1>5 DEF Handshake

\* A timeout closes the socket in use, and no other.
LEMMA TimedOutKeepsShape ==
    ASSUME RequestInv, TimedOut
    PROVE  Shape'
<1>1. pc \in Waiting
  BY DEF RequestInv, BeforeInv, SettledInv, TypeOK, TimedOut, Waiting
<1>2. ControlTypes /\ result = "none" /\ ~dead
  BY <1>1, WaitingIsOpen
<1>3. /\ pc' = "done" /\ result' = "timeout" /\ ~dead' /\ ~timer'
      /\ dead' \in BOOLEAN /\ timer' \in BOOLEAN
      /\ UNCHANGED <<request, response, sok, retryOnce, recievedData, count, sent,
                     pool, asked>>
  BY <1>2 DEF TimedOut, Settle, conn
<1>4. CASE pc = "start"
  <2>1. regs' = {} /\ open' = pool'
    BY <1>4 DEF TimedOut, RequestInv, BeforeInv, InUse
  <2>2. ControlTypes'
    BY <1>2, <1>3, <2>1 DEF ControlTypes
  <2>. QED
    BY <1>3, <2>1, <2>2
    DEF Shape, BeforeInv, ConnectInv, UseInv, AfterInv, SettledInv, InUse
<1>5. CASE pc \in {"connect", "shake"}
  <2>1. UNCHANGED <<regs, open>>
    BY <1>5 DEF TimedOut, InUse
  <2>2. /\ sok = "fresh" /\ open = {"fresh"} /\ pool = {}
        /\ \E kind \in {"reader", "writer"} : regs = {<<kind, "fresh">>}
    BY <1>5 DEF RequestInv, ConnectInv
  <2>3. ControlTypes'
    BY <1>2, <1>3, <2>1 DEF ControlTypes
  <2>4. AfterInv'
    BY <1>3, <2>1, <2>2 DEF AfterInv
  <2>. QED
    BY <1>3, <2>3, <2>4
    DEF Shape, BeforeInv, ConnectInv, UseInv, SettledInv, InUse
<1>6. CASE InUse
  <2>1. regs' = {} /\ open' = {} /\ pool = {}
    BY <1>6 DEF TimedOut, RequestInv, UseInv, InUse
  <2>2. ControlTypes'
    BY <1>2, <1>3, <2>1 DEF ControlTypes
  <2>. QED
    BY <1>3, <2>1, <2>2
    DEF Shape, BeforeInv, ConnectInv, UseInv, AfterInv, SettledInv, InUse
<1>. QED
  BY <1>1, <1>4, <1>5, <1>6 DEF Waiting, InUse

\* The callback after the last yield lets the socket go with the registration.
LEMMA StrayCallbackKeepsShape ==
    ASSUME RequestInv, StrayCallback
    PROVE  Shape'
<1>1. /\ result = "timeout" /\ sok = "fresh" /\ open = {"fresh"} /\ pool = {}
      /\ ~dead /\ ~timer /\ ControlTypes
  BY TypesAreBoth DEF RequestInv, AfterInv, SettledInv, StrayCallback
<1>2. /\ pc' = "ended" /\ regs' = {} /\ open' = {}
      /\ UNCHANGED <<request, response, sok, retryOnce, recievedData, count, sent,
                     pool, result, timer, dead, asked>>
  BY <1>1 DEF StrayCallback, ShutAndClose, conn
<1>3. ControlTypes'
  BY <1>1, <1>2 DEF ControlTypes
<1>. QED
  BY <1>1, <1>2, <1>3
  DEF Shape, BeforeInv, ConnectInv, UseInv, AfterInv, SettledInv, InUse
----------------------------------------------------------------------------
\* The whole step: one case per action.
LEMMA RequestStep ==
    ASSUME RequestInv, Next
    PROVE  RequestInv'
<1>1. ControlTypes
  BY TypesAreBoth DEF RequestInv
<1>2. CASE Begin
  <2>1. /\ pc' = "start" /\ regs' = {<<"process", None>>} /\ result = "none"
        /\ timer' \in BOOLEAN /\ open = pool /\ pool \subseteq {"pooled"} /\ ~dead
        /\ UNCHANGED <<request, response, sok, retryOnce, recievedData, count,
                       sent, open, pool, result, dead, asked>>
    <3>1. request.timeout \in BOOLEAN
      BY <1>1, HttpRequestAssumption DEF ControlTypes
    <3>. QED
      BY <1>2, <3>1 DEF Begin, RequestInv, BeforeInv, SettledInv, conn
  <2>2. ControlTypes'
    <3>1. regs' \subseteq {"process", "reader", "writer"} \X (Socks \cup {None})
      BY <2>1
    <3>. QED
      BY <1>1, <2>1, <3>1 DEF ControlTypes
  <2>3. Shape'
    BY <2>1, <2>2
    DEF Shape, BeforeInv, ConnectInv, UseInv, AfterInv, SettledInv, InUse
  <2>. QED
    BY <2>3, DataStaysTyped, TypesAreBoth DEF Shape, RequestInv
<1>3. CASE StartFresh
  <2>1. open = {} /\ pc \in Waiting /\ pool' = {}
    BY <1>3 DEF StartFresh, RequestInv, BeforeInv, Waiting
  <2>. QED
    BY <1>1, <1>3, <2>1, CreateSocketKeepsShape, DataStaysTyped, TypesAreBoth
    DEF StartFresh, Shape, RequestInv, ControlTypes
<1>4. CASE StartPooled
  <2>1. open = {"pooled"} /\ pc \in Waiting /\ pool' = {}
    BY <1>4 DEF StartPooled, RequestInv, BeforeInv, Waiting
  <2>2. retryOnce' \in BOOLEAN /\ count' \in 0..MaxHandshakes /\ open' = open
        /\ ToSend("pooled")
        /\ UNCHANGED <<request, response, result, timer, dead, asked>>
    BY <1>1, <1>4 DEF StartPooled, ControlTypes
  <2>3. Shape'
    BY <2>1, <2>2, ToSendKeepsShape DEF Socks
  <2>. QED
    BY <2>3, DataStaysTyped, TypesAreBoth DEF Shape, RequestInv
<1>5. CASE Connected
  <2>1. ASSUME request.secure PROVE Shape'
    BY <1>5, <2>1, HandshakeKeepsShape DEF Connected
  <2>2. ASSUME ~request.secure PROVE Shape'
    <3>1. pc \in Waiting /\ pool = {} /\ open = {"fresh"} /\ ~retryOnce
      BY <1>5 DEF Connected, RequestInv, ConnectInv, Waiting
    <3>2. ToSend("fresh") /\ UNCHANGED <<request, response, retryOnce, count, open,
                                         pool, result, timer, dead, asked>>
      BY <1>5, <2>2 DEF Connected
    <3>3. retryOnce' \in BOOLEAN /\ count' \in 0..MaxHandshakes
      BY <1>1, <3>2 DEF ControlTypes
    <3>. QED
      BY <3>1, <3>2, <3>3, ToSendKeepsShape DEF Socks
  <2>. QED
    BY <2>1, <2>2, DataStaysTyped, TypesAreBoth DEF Shape, RequestInv
<1>6. CASE ConnectFails
  <2>1. pc \in Waiting /\ pool = {} /\ open = {"fresh"}
    BY <1>6 DEF ConnectFails, RequestInv, ConnectInv, Waiting
  <2>2. Fails /\ open' = {} /\ UNCHANGED <<request, response, sok, retryOnce,
                                   recievedData, count, sent, pool, asked>>
    BY <1>6, <2>1 DEF ConnectFails, conn
  <2>3. Shape'
    BY <1>1, <2>1, <2>2, FailsKeepsShape DEF ControlTypes
  <2>. QED
    BY <2>3, DataStaysTyped, TypesAreBoth DEF Shape, RequestInv
<1>7. CASE ShakeAgain
  BY <1>7, HandshakeKeepsShape, DataStaysTyped, TypesAreBoth
  DEF ShakeAgain, Shape, RequestInv
<1>8. CASE Send
  <2>1. sok \in Socks /\ asked' \subseteq Socks /\ InUse
    BY <1>1, <1>8 DEF Send, RequestInv, UseInv, InUse, ControlTypes
  <2>2. ASSUME AttemptFails PROVE Shape'
    BY <1>8, <2>1, <2>2, AttemptFailsKeepsShape DEF Send
  <2>3. ASSUME sent' \in BOOLEAN,
               UNCHANGED <<pc, regs, sok, retryOnce, recievedData, count, got,
                           left, unread, open, result, timer, dead>>
        PROVE  Shape'
    <3>1. ControlTypes'
      BY <1>1, <1>8, <2>1, <2>3 DEF ControlTypes, Send
    <3>2. UNCHANGED <<pc, regs, sok, retryOnce, recievedData, unread, response,
                      open, pool, result, timer, dead>>
      BY <1>8, <2>3 DEF Send
    <3>. QED
      BY <3>1, <3>2 DEF Shape, RequestInv, BeforeInv, ConnectInv, UseInv,
         AfterInv, SettledInv, InUse
  <2>4. Shape'
    BY <1>8, <2>2, <2>3 DEF Send
  <2>. QED
    BY <2>4, DataStaysTyped, TypesAreBoth DEF Shape, RequestInv
<1>9. CASE SendDone
  <2>1. /\ sok \in Socks /\ open = {sok} /\ pool = {} /\ result = "none" /\ ~dead
        /\ retryOnce => sok = "pooled"
        /\ ~recievedData => unread = Script(response)
    BY <1>9 DEF SendDone, RequestInv, UseInv, SettledInv, InUse
  <2>2. /\ pc' = "head" /\ regs' = {<<"reader", sok>>}
        /\ UNCHANGED <<request, response, sok, retryOnce, recievedData, count,
                       sent, unread, open, pool, result, timer, dead, asked>>
    BY <1>9 DEF SendDone, conn
  <2>3. ControlTypes'
    <3>1. regs' \subseteq {"process", "reader", "writer"} \X (Socks \cup {None})
      BY <2>1, <2>2
    <3>. QED
      BY <1>1, <2>2, <3>1 DEF ControlTypes
  <2>4. UseInv'
    BY <2>1, <2>2 DEF UseInv
  <2>5. Shape'
    BY <2>1, <2>2, <2>3, <2>4
    DEF Shape, BeforeInv, ConnectInv, AfterInv, SettledInv, InUse
  <2>. QED
    BY <2>5, DataStaysTyped, TypesAreBoth DEF Shape, RequestInv
<1>10. ASSUME NEW k \in 1..Len(unread), RecvHead(k) PROVE RequestInv'
  <2>1. CASE \E rest : ReadBody(rest)
    BY <1>10, <2>1, ReadBodyKeepsShape, DataStaysTyped, TypesAreBoth
    DEF RecvHead, Shape, RequestInv
  <2>2. CASE /\ recievedData' = TRUE
             /\ UNCHANGED <<pc, regs, sok, retryOnce, count, sent, left, open,
                            pool, result, timer, dead>>
    <3>1. UNCHANGED <<request, response, asked>> /\ pc = "head"
      BY <1>10 DEF RecvHead
    <3>2. ControlTypes'
      BY <1>1, <2>2, <3>1 DEF ControlTypes
    <3>3. Shape'
      BY <2>2, <3>1, <3>2 DEF Shape, RequestInv, BeforeInv, ConnectInv, UseInv,
         AfterInv, SettledInv, InUse
    <3>. QED
      BY <3>3, DataStaysTyped, TypesAreBoth DEF Shape, RequestInv
  <2>. QED
    BY <1>10, <2>1, <2>2 DEF RecvHead
<1>11. ASSUME NEW k \in 1..Len(unread), RecvBody(k) PROVE RequestInv'
  BY <1>11, ReadBodyKeepsShape, DataStaysTyped, TypesAreBoth
  DEF RecvBody, Shape, RequestInv
<1>12. CASE RecvClosed
  <2>1. InUse /\ asked' \subseteq Socks /\ UNCHANGED <<request, response, asked>>
    BY <1>1, <1>12 DEF RecvClosed, InUse, ControlTypes
  <2>2. CASE Complete /\ UNCHANGED <<recievedData, got, left, unread>>
    <3>1. recievedData' \in BOOLEAN
      BY <1>1, <2>2 DEF ControlTypes
    <3>. QED
      BY <2>1, <2>2, <3>1, CompleteKeepsShape, DataStaysTyped, TypesAreBoth
      DEF Shape, RequestInv
  <2>3. CASE AttemptFails /\ UNCHANGED pool
    BY <2>1, <2>3, AttemptFailsKeepsShape, DataStaysTyped, TypesAreBoth
    DEF Shape, RequestInv
  <2>. QED
    BY <1>12, <2>2, <2>3 DEF RecvClosed
<1>13. CASE RecvFails
  <2>1. InUse /\ asked' \subseteq Socks
    BY <1>1, <1>13 DEF RecvFails, InUse, ControlTypes
  <2>. QED
    BY <1>13, <2>1, AttemptFailsKeepsShape, DataStaysTyped, TypesAreBoth
    DEF RecvFails, Shape, RequestInv
<1>14. CASE TimedOut
  BY <1>14, TimedOutKeepsShape, DataStaysTyped, TypesAreBoth DEF Shape, RequestInv
<1>15. CASE StrayCallback
  BY <1>15, StrayCallbackKeepsShape, DataStaysTyped, TypesAreBoth
  DEF Shape, RequestInv
<1>. QED
  BY <1>2, <1>3, <1>4, <1>5, <1>6, <1>7, <1>8, <1>9, <1>10, <1>11, <1>12, <1>13,
     <1>14, <1>15 DEF Next, Progress

\* The invariant is inductive.
LEMMA RequestAlways == Spec => []RequestInv
<1>1. RequestInv /\ UNCHANGED vars => RequestInv'
  BY DEF RequestInv, TypeOK, BeforeInv, ConnectInv, UseInv, AfterInv, SettledInv,
         InUse, vars
<1>. QED
  BY RequestStart, RequestStep, <1>1, PTL DEF Spec
----------------------------------------------------------------------------
\* A request has one driver from its start to its end, and settles its Suspend
\* once, whichever of response, error and timeout comes first.
THEOREM RequestHasOneDriver == Spec => []IInv
BY RequestAlways, RequestInvMeans, PTL

\* A settled request leaves no socket open but in the pool, and nothing
\* registered, save for what a timeout finds while the socket is connected.
THEOREM RequestLeavesNothing == Spec => []NothingLeftBehind
BY RequestAlways, RequestInvMeans, PTL

\* A request is sent a second time only after a pooled socket that gave no byte.
THEOREM RequestRetriesUnanswered == Spec => RetriedUnanswered
<1>1. RequestInv /\ [Next]_vars =>
        [pc' = "connect" /\ pc # "connect" =>
            \/ pc = "start"
            \/ sok = "pooled" /\ unread = Script(response)]_vars
  <2>. SUFFICES ASSUME RequestInv, Next, pc' = "connect", pc # "connect",
                       pc # "start"
                PROVE  sok = "pooled" /\ unread = Script(response)
    OBVIOUS
  <2>1. AttemptFails => /\ InUse => sok = "pooled" /\ unread = Script(response)
    BY DEF AttemptFails, Fails, Retries, RequestInv, UseInv
  <2>2. ~Complete /\ ~Fails /\ \A s : ~ToSend(s)
    BY DEF Complete, Fails, ToSend
  <2>3. ~Handshake
    BY <2>2 DEF Handshake, HandshakeFails
  <2>4. \A rest : ~ReadBody(rest)
    BY <2>2 DEF ReadBody
  <2>5. ~Begin /\ ~StartFresh /\ ~StartPooled /\ ~Connected /\ ~ConnectFails
        /\ ~ShakeAgain /\ ~SendDone /\ ~TimedOut /\ ~StrayCallback
    BY <2>3 DEF Begin, StartFresh, StartPooled, Connected, ConnectFails, ShakeAgain,
       SendDone, TimedOut, StrayCallback
  <2>6. \A k : ~RecvHead(k) /\ ~RecvBody(k)
    BY <2>4 DEF RecvHead, RecvBody
  <2>7. Send \/ RecvClosed \/ RecvFails => AttemptFails /\ InUse
    BY <2>2 DEF Send, RecvClosed, RecvFails, InUse
  <2>. QED
    BY <2>1, <2>5, <2>6, <2>7 DEF Next, Progress
<1>. QED
  BY <1>1, RequestAlways, PTL DEF Spec, RetriedUnanswered
----------------------------------------------------------------------------
(* What is read.                                                              *)

\* A part of a part is a part.
LEMMA PartOfPart ==
    ASSUME NEW s \in Seq(Tokens), NEW p \in Nat, NEW e \in p..Len(s),
           NEW m \in Nat, NEW n \in m..(e - p)
    PROVE  /\ Len(SubSeq(s, p + 1, e)) = e - p
           /\ SubSeq(SubSeq(s, p + 1, e), m + 1, n) = SubSeq(s, p + m + 1, p + n)
<1>. DEFINE part == SubSeq(s, p + 1, e)
            one == SubSeq(part, m + 1, n)
            two == SubSeq(s, p + m + 1, p + n)
<1>1. Len(s) \in Nat /\ \A i \in 1..Len(s) : s[i] \in Tokens
  BY LenProperties, ElementOfSeq
<1>2. /\ part \in Seq(Tokens) /\ Len(part) = e - p
      /\ \A i \in 1..(e - p) : part[i] = s[p + i]
  BY <1>1, SubSeqProperties
<1>3. /\ two \in Seq(Tokens) /\ Len(two) = n - m
      /\ \A i \in 1..(n - m) : two[i] = s[p + m + i]
  BY <1>1, SubSeqProperties
<1>. HIDE DEF part, two
<1>4. /\ one \in Seq(Tokens) /\ Len(one) = n - m
      /\ \A i \in 1..(n - m) : one[i] = part[m + i]
  <2>1. \A i \in (m + 1)..n : part[i] \in Tokens
    BY <1>2, <1>1
  <2>. QED
    BY <1>2, <2>1, SubSeqProperties
<1>. HIDE DEF one
<1>5. \A i \in 1..(n - m) : one[i] = two[i]
  <2>. SUFFICES ASSUME NEW i \in 1..(n - m) PROVE one[i] = two[i]
    OBVIOUS
  <2>1. m + i \in 1..(e - p)
    OBVIOUS
  <2>2. one[i] = part[m + i] /\ two[i] = s[p + m + i]
    BY <1>3, <1>4
  <2>3. part[m + i] = s[p + (m + i)]
    BY <1>2, <2>1
  <2>. QED
    BY <2>2, <2>3
<1>6. one = two
  BY <1>3, <1>4, <1>5, SeqEqual
<1>. QED
  BY <1>2, <1>6 DEF one, part, two

\* The places of two sequences in one.
LEMMA PlacesOfConcat ==
    ASSUME NEW s \in Seq(Tokens), NEW t \in Seq(Tokens)
    PROVE  /\ s \o t \in Seq(Tokens) /\ Len(s \o t) = Len(s) + Len(t)
           /\ \A i \in 1..Len(s) : (s \o t)[i] = s[i]
           /\ \A i \in 1..Len(t) : (s \o t)[Len(s) + i] = t[i]
<1>1. Len(s) \in Nat /\ Len(t) \in Nat
  BY LenProperties
<1>. DEFINE m == Len(s)
            n == Len(t)
<1>2. /\ s \o t \in Seq(Tokens) /\ Len(s \o t) = m + n
      /\ \A i \in 1..(m + n) : (s \o t)[i] = IF i <= m THEN s[i] ELSE t[i - m]
  BY ConcatProperties
<1>3. m \in Nat /\ n \in Nat
  BY <1>1
<1>. HIDE DEF m, n
<1>4. ASSUME NEW i \in 1..m PROVE (s \o t)[i] = s[i]
  BY <1>2, <1>3
<1>5. ASSUME NEW i \in 1..n PROVE (s \o t)[m + i] = t[i]
  <2>1. m + i \in 1..(m + n) /\ ~(m + i <= m) /\ (m + i) - m = i
    BY <1>3
  <2>. QED
    BY <1>2, <2>1
<1>. QED
  BY <1>2, <1>4, <1>5 DEF m, n

\* What an answer consists of, place by place.
LEMMA ScriptShape ==
    ASSUME response \in Responses
    PROVE  LET s == Script(response) IN
           /\ s \in Seq(Tokens) /\ response.size \in Nat
           /\ Len(s) = HeadLength + BodyLength + (IF response.excess THEN 1 ELSE 0)
           /\ HeadLength = 4 => s[1] = "part" /\ s[2] = "continue" /\ s[3] = "part"
           /\ HeadLength = 2 => s[1] = "part"
           /\ s[HeadLength] = "final"
           /\ \A i \in (HeadLength + 1)..Len(s) :
                 s[i] = "lastchunk" <=> /\ response.framing = "chunked"
                                        /\ i = HeadLength + BodyLength
           /\ response.excess => s[Len(s)] = "excess"
<1>. DEFINE r == response
            a == IF r.continue THEN <<"part", "continue">> ELSE <<>>
            b == <<"part", "final">>
            c == [i \in 1..r.size |-> IF r.framing = "chunked" THEN "chunk"
                                      ELSE "data"]
            d == IF r.framing = "chunked" THEN <<"lastchunk">> ELSE <<>>
            e == IF r.excess THEN <<"excess">> ELSE <<>>
<1>1. /\ "part" \in Tokens /\ "continue" \in Tokens /\ "final" \in Tokens
      /\ "data" \in Tokens /\ "chunk" \in Tokens /\ "lastchunk" \in Tokens
      /\ "excess" \in Tokens
  BY DEF Tokens, Rest
<1>2. r.size \in Nat
  BY HttpRequestAssumption
<1>3. /\ a \in Seq(Tokens) /\ Len(a) = HeadLength - 2
      /\ HeadLength = 4 => a[1] = "part" /\ a[2] = "continue"
      /\ HeadLength \in {2, 4}
  BY <1>1, EmptySeq DEF HeadLength
<1>4. b \in Seq(Tokens) /\ Len(b) = 2 /\ b[1] = "part" /\ b[2] = "final"
  BY <1>1
<1>5. /\ c \in Seq(Tokens) /\ Len(c) = r.size
      /\ \A i \in 1..r.size : c[i] \in {"chunk", "data"}
  <2>1. c \in [1..r.size -> Tokens]
    BY <1>1
  <2>. QED
    BY <1>2, <2>1, SeqDef
<1>6. /\ d \in Seq(Tokens) /\ Len(d) = BodyLength - r.size
      /\ r.framing = "chunked" => d[1] = "lastchunk" /\ BodyLength = r.size + 1
      /\ r.framing # "chunked" => BodyLength = r.size
  BY <1>1, <1>2, EmptySeq DEF BodyLength
<1>7. /\ e \in Seq(Tokens) /\ Len(e) = IF r.excess THEN 1 ELSE 0
      /\ r.excess => e[1] = "excess"
  BY <1>1, EmptySeq
<1>8. Script(r) = (((a \o b) \o c) \o d) \o e
  BY DEF Script
<1>. HIDE DEF a, b, c, d, e
<1>. DEFINE ab == a \o b
            abc == ab \o c
            abcd == abc \o d
            s == abcd \o e
<1>9. HeadLength - 2 \in Nat /\ BodyLength \in Nat /\ BodyLength - r.size \in {0, 1}
  BY <1>2, <1>3, <1>6
<1>10. /\ ab \in Seq(Tokens) /\ Len(ab) = HeadLength
       /\ \A i \in 1..(HeadLength - 2) : ab[i] = a[i]
       /\ \A i \in 1..2 : ab[(HeadLength - 2) + i] = b[i]
  <2>1. /\ ab \in Seq(Tokens) /\ Len(ab) = Len(a) + Len(b)
        /\ \A i \in 1..Len(a) : ab[i] = a[i]
        /\ \A i \in 1..Len(b) : ab[Len(a) + i] = b[i]
    BY <1>3, <1>4, PlacesOfConcat
  <2>. HIDE DEF ab
  <2>. QED
    BY <1>3, <1>4, <2>1
<1>. HIDE DEF ab
<1>11. /\ abc \in Seq(Tokens) /\ Len(abc) = HeadLength + r.size
       /\ \A i \in 1..HeadLength : abc[i] = ab[i]
       /\ \A i \in 1..r.size : abc[HeadLength + i] = c[i]
  <2>1. /\ abc \in Seq(Tokens) /\ Len(abc) = Len(ab) + Len(c)
        /\ \A i \in 1..Len(ab) : abc[i] = ab[i]
        /\ \A i \in 1..Len(c) : abc[Len(ab) + i] = c[i]
    BY <1>5, <1>10, PlacesOfConcat
  <2>. HIDE DEF abc
  <2>. QED
    BY <1>5, <1>10, <2>1
<1>. HIDE DEF abc
<1>12. /\ abcd \in Seq(Tokens) /\ Len(abcd) = HeadLength + BodyLength
       /\ \A i \in 1..(HeadLength + r.size) : abcd[i] = abc[i]
       /\ r.framing = "chunked" => abcd[HeadLength + BodyLength] = "lastchunk"
  <2>1. /\ abcd \in Seq(Tokens)
        /\ Len(abcd) = (HeadLength + r.size) + (BodyLength - r.size)
        /\ \A i \in 1..(HeadLength + r.size) : abcd[i] = abc[i]
        /\ \A i \in 1..(BodyLength - r.size) : abcd[(HeadLength + r.size) + i] = d[i]
    <3>1. /\ abcd \in Seq(Tokens) /\ Len(abcd) = Len(abc) + Len(d)
          /\ \A i \in 1..Len(abc) : abcd[i] = abc[i]
          /\ \A i \in 1..Len(d) : abcd[Len(abc) + i] = d[i]
      BY <1>6, <1>11, PlacesOfConcat
    <3>. HIDE DEF abcd
    <3>. QED
      BY <1>6, <1>11, <3>1
  <2>2. r.framing = "chunked" =>
          1 \in 1..(BodyLength - r.size) /\ HeadLength + BodyLength = (HeadLength + r.size) + 1
    BY <1>2, <1>3, <1>6
  <2>3. (HeadLength + r.size) + (BodyLength - r.size) = HeadLength + BodyLength
    BY <1>2, <1>3, <1>9
  <2>4. r.framing = "chunked" => abcd[(HeadLength + r.size) + 1] = "lastchunk"
    BY <1>6, <2>1, <2>2
  <2>. QED
    BY <2>1, <2>2, <2>3, <2>4
<1>. HIDE DEF abcd
<1>13. /\ s \in Seq(Tokens)
       /\ Len(s) = (HeadLength + BodyLength) + (IF r.excess THEN 1 ELSE 0)
       /\ \A i \in 1..(HeadLength + BodyLength) : s[i] = abcd[i]
       /\ r.excess => s[(HeadLength + BodyLength) + 1] = "excess"
  <2>1. HeadLength + BodyLength \in Nat /\ Len(e) \in Nat
    BY <1>3, <1>7, <1>9
  <2>2. /\ s \in Seq(Tokens) /\ Len(s) = (HeadLength + BodyLength) + Len(e)
        /\ \A i \in 1..(HeadLength + BodyLength) : s[i] = abcd[i]
        /\ \A i \in 1..Len(e) : s[(HeadLength + BodyLength) + i] = e[i]
    <3>1. /\ s \in Seq(Tokens) /\ Len(s) = Len(abcd) + Len(e)
          /\ \A i \in 1..Len(abcd) : s[i] = abcd[i]
          /\ \A i \in 1..Len(e) : s[Len(abcd) + i] = e[i]
      BY <1>7, <1>12, PlacesOfConcat
    <3>. HIDE DEF s
    <3>. QED
      BY <1>12, <3>1
  <2>. HIDE DEF s
  <2>. QED
    BY <1>7, <2>2
<1>14. Script(response) = s
  BY <1>8 DEF ab, abc, abcd
<1>. HIDE DEF s
<1>15. \A i \in 1..HeadLength : s[i] = ab[i]
  <2>1. \A i \in 1..HeadLength :
          i \in 1..(HeadLength + r.size) /\ i \in 1..(HeadLength + BodyLength)
    BY <1>2, <1>3, <1>9
  <2>. QED
    BY <1>11, <1>12, <1>13, <2>1
<1>16. /\ HeadLength = 4 => s[1] = "part" /\ s[2] = "continue" /\ s[3] = "part"
       /\ HeadLength = 2 => s[1] = "part"
       /\ s[HeadLength] = "final"
  <2>1. CASE HeadLength = 4
    <3>1. ab[1] = a[1] /\ ab[2] = a[2] /\ ab[3] = b[1] /\ ab[4] = b[2]
      BY <1>10, <2>1
    <3>. QED
      BY <1>3, <1>4, <1>15, <2>1, <3>1
  <2>2. CASE HeadLength = 2
    <3>1. ab[1] = b[1] /\ ab[2] = b[2]
      BY <1>10, <2>2
    <3>. QED
      BY <1>4, <1>15, <2>2, <3>1
  <2>. QED
    BY <1>3, <2>1, <2>2
<1>17. ASSUME NEW i \in (HeadLength + 1)..Len(s)
       PROVE  s[i] = "lastchunk" <=> /\ r.framing = "chunked"
                                     /\ i = HeadLength + BodyLength
  <2>. i \in Int /\ HeadLength \in Int /\ BodyLength \in Int /\ r.size \in Int
    BY <1>2, <1>3, <1>9, <1>13
  <2>1. CASE i <= HeadLength + r.size
    <3>1. i - HeadLength \in 1..r.size /\ HeadLength + (i - HeadLength) = i
      BY <1>3, <2>1
    <3>2. s[i] = c[i - HeadLength]
      <4>1. i \in 1..(HeadLength + BodyLength) /\ i \in 1..(HeadLength + r.size)
        BY <1>2, <1>3, <1>9, <2>1
      <4>2. s[i] = abc[i]
        BY <1>12, <1>13, <4>1
      <4>3. abc[HeadLength + (i - HeadLength)] = c[i - HeadLength]
        BY <1>11, <3>1
      <4>. QED
        BY <3>1, <4>2, <4>3
    <3>3. s[i] # "lastchunk"
      BY <1>5, <3>1, <3>2
    <3>4. ~(r.framing = "chunked" /\ i = HeadLength + BodyLength)
      BY <1>6, <2>1
    <3>. QED
      BY <3>3, <3>4
  <2>2. CASE i > HeadLength + r.size /\ i <= HeadLength + BodyLength
    <3>1. i = HeadLength + BodyLength /\ r.framing = "chunked"
      BY <1>6, <2>2
    <3>2. i \in 1..(HeadLength + BodyLength)
      BY <1>3, <1>9, <3>1
    <3>. QED
      BY <1>12, <1>13, <3>1, <3>2
  <2>3. CASE i > HeadLength + BodyLength
    <3>1. r.excess /\ i = (HeadLength + BodyLength) + 1
      BY <1>13, <2>3
    <3>2. s[i] = "excess" /\ i # HeadLength + BodyLength
      BY <1>13, <3>1
    <3>. QED
      BY <3>2
  <2>. QED
    BY <2>1, <2>2, <2>3
<1>18. r.excess => s[Len(s)] = "excess"
  BY <1>13
<1>. QED
  BY <1>2, <1>13, <1>14, <1>16, <1>17, <1>18

\* What a recv of k tokens takes, and what it leaves.
LEMMA FromIsDivided ==
    ASSUME response \in Responses, NEW p \in 0..Len(Script(response)),
           NEW k \in 1..Len(From(p))
    PROVE  /\ p + k \in p..Len(Script(response))
           /\ SubSeq(From(p), 1, k) = SubSeq(Script(response), p + 1, p + k)
           /\ SubSeq(From(p), k + 1, Len(From(p))) = From(p + k)
<1>. DEFINE s == Script(response)
            n == Len(s)
<1>1. s \in Seq(Tokens) /\ n \in Nat
  BY ScriptIsTokens, LenProperties
<1>. HIDE DEF s
<1>2. From(p) = SubSeq(s, p + 1, n) /\ From(p + k) = SubSeq(s, p + k + 1, n)
  BY DEF From, s
<1>3. Len(SubSeq(s, p + 1, n)) = n - p
  <2>1. p \in Nat /\ n \in p..Len(s) /\ 0 \in Nat /\ 0 \in 0..(n - p)
    BY <1>1 DEF s
  <2>. QED
    BY <1>1, <2>1, PartOfPart
<1>. HIDE DEF n
<1>4. k \in 1..(n - p)
  BY <1>2, <1>3
<1>5. SubSeq(SubSeq(s, p + 1, n), 0 + 1, k) = SubSeq(s, p + 0 + 1, p + k)
  BY <1>1, <1>4, PartOfPart DEF n
<1>6. SubSeq(SubSeq(s, p + 1, n), k + 1, n - p) = SubSeq(s, p + k + 1, p + (n - p))
  BY <1>1, <1>4, PartOfPart DEF n
<1>7. p + (n - p) = n /\ 0 + 1 = 1 /\ p + 0 + 1 = p + 1 /\ p + k \in p..n
  BY <1>1, <1>4
<1>. QED
  BY <1>2, <1>3, <1>5, <1>6, <1>7 DEF s, n

\* Matching a header from its start: it ends at its second part.
LEMMA HeaderIsMatched ==
    ASSUME response \in Responses, NEW q \in {0, HeadLength - 2},
           NEW e \in q..Len(Script(response))
    PROVE  LET s == Script(response)
               all == SubSeq(s, q + 1, e)
               end == HeaderEnd(all)
           IN  /\ end = IF e >= q + 2 THEN 2 ELSE 0
               /\ end # 0 => (all[end] = "final" <=> q = HeadLength - 2)
               /\ SubSeq(all, end + 1, Len(all)) = SubSeq(s, q + end + 1, e)
<1>. DEFINE s == Script(response)
            all == SubSeq(s, q + 1, e)
            end == HeaderEnd(all)
<1>1. /\ s \in Seq(Tokens) /\ Len(s) \in Nat /\ HeadLength \in {2, 4}
      /\ HeadLength = 4 => s[1] = "part" /\ s[2] = "continue" /\ s[3] = "part"
      /\ HeadLength = 2 => s[1] = "part"
      /\ s[HeadLength] = "final"
  BY ScriptShape, LenProperties DEF HeadLength
<1>. HIDE DEF s
<1>2. q \in {0, 2} /\ e \in q..Len(s)
  BY <1>1 DEF s
<1>3. /\ s[q + 1] = "part" /\ s[q + 2] \in {"continue", "final"}
      /\ s[q + 2] = "final" <=> q = HeadLength - 2
  BY <1>1, <1>2
<1>4. /\ all \in Seq(Tokens) /\ Len(all) = e - q
      /\ \A i \in 1..(e - q) : all[i] = s[q + i]
  <2>1. \A i \in (q + 1)..e : s[i] \in Tokens
    BY <1>1, <1>2, ElementOfSeq
  <2>. QED
    BY <1>2, <2>1, SubSeqProperties
<1>5. end = IF e >= q + 2 THEN 2 ELSE 0
  <2>. HIDE DEF all
  <2>. DEFINE ends == {i \in 1..Len(all) : all[i] \in {"continue", "final"}}
  <2>1. IF ends = {} THEN end = 0 ELSE end \in ends /\ \A i \in ends : end <= i
    BY <1>4, HeaderEndIsFirst
  <2>2. e - q >= 1 => all[1] = "part"
    BY <1>2, <1>3, <1>4
  <2>3. e - q >= 2 => all[2] \in {"continue", "final"}
    BY <1>2, <1>3, <1>4
  <2>4. 1 \notin ends
    BY <1>4, <2>2
  <2>5. CASE e >= q + 2
    <3>1. 2 \in ends
      BY <1>2, <1>4, <2>3, <2>5
    <3>2. end \in ends /\ end <= 2 /\ end \in 1..Len(all)
      BY <2>1, <3>1
    <3>3. end # 1
      BY <2>4, <3>2
    <3>. HIDE DEF ends, end
    <3>. QED
      BY <1>2, <1>4, <2>5, <3>2, <3>3
  <2>6. CASE ~(e >= q + 2)
    <3>1. ends = {}
      <4>1. \A i \in 1..Len(all) : i = 1
        BY <1>2, <1>4, <2>6
      <4>. QED
        BY <2>4, <4>1
    <3>. QED
      BY <2>1, <2>6, <3>1
  <2>. QED
    BY <2>5, <2>6
<1>. HIDE DEF end
<1>6. end # 0 => (all[end] = "final" <=> q = HeadLength - 2)
  <2>. HIDE DEF all
  <2>. QED
    BY <1>2, <1>3, <1>4, <1>5
<1>7. SubSeq(all, end + 1, Len(all)) = SubSeq(s, q + end + 1, e)
  <2>1. end \in Nat /\ end <= e - q /\ q \in Nat /\ e - q \in Nat
    BY <1>2, <1>5
  <2>2. SubSeq(SubSeq(s, q + 1, e), end + 1, e - q) = SubSeq(s, q + end + 1, q + (e - q))
    BY <1>1, <1>2, <2>1, PartOfPart
  <2>3. q + (e - q) = e
    BY <1>2
  <2>. QED
    BY <1>4, <2>2, <2>3
<1>. QED
  BY <1>5, <1>6, <1>7 DEF s, end

\* The last chunk is where the body ends, if that is in the part.
LEMMA LastChunkOfPart ==
    ASSUME response \in Responses, NEW p \in HeadLength..Len(Script(response)),
           NEW e \in p..Len(Script(response))
    PROVE  LET end == HeadLength + BodyLength
           IN  LastChunk(SubSeq(Script(response), p + 1, e)) =
                 IF response.framing = "chunked" /\ p < end /\ end <= e
                 THEN end - p ELSE 0
<1>. DEFINE s == Script(response)
            all == SubSeq(s, p + 1, e)
            end == HeadLength + BodyLength
            here == LastChunk(all)
            ends == {i \in 1..Len(all) : all[i] = "lastchunk"}
<1>1. /\ s \in Seq(Tokens) /\ Len(s) \in Nat /\ HeadLength \in {2, 4} /\ end \in Nat
      /\ \A i \in (HeadLength + 1)..Len(s) :
            s[i] = "lastchunk" <=> response.framing = "chunked" /\ i = end
  BY ScriptShape, LenProperties DEF HeadLength, BodyLength
<1>. HIDE DEF s, end
<1>2. p \in HeadLength..Len(s) /\ e \in p..Len(s)
  BY DEF s
<1>3. /\ all \in Seq(Tokens) /\ Len(all) = e - p
      /\ \A i \in 1..(e - p) : all[i] = s[p + i]
  <2>1. \A i \in (p + 1)..e : s[i] \in Tokens
    BY <1>1, <1>2, ElementOfSeq
  <2>. QED
    BY <1>1, <1>2, <2>1, SubSeqProperties
<1>. HIDE DEF all
<1>4. IF ends = {} THEN here = 0 ELSE here \in ends
  BY <1>3, LastChunkIsFirst
<1>. HIDE DEF here
<1>5. \A i \in 1..(e - p) :
        all[i] = "lastchunk" <=> response.framing = "chunked" /\ p + i = end
  <2>1. \A i \in 1..(e - p) : p + i \in (HeadLength + 1)..Len(s)
    BY <1>1, <1>2
  <2>. QED
    BY <1>1, <1>3, <2>1
<1>6. \A i \in 1..(e - p) : p + i = end <=> i = end - p
  BY <1>1, <1>2
<1>7. CASE response.framing = "chunked" /\ p < end /\ end <= e
  <2>1. end - p \in 1..(e - p)
    BY <1>1, <1>2, <1>7
  <2>2. end - p \in ends
    BY <1>3, <1>5, <1>6, <1>7, <2>1
  <2>3. \A i \in ends : i = end - p
    BY <1>3, <1>5, <1>6
  <2>. QED
    BY <1>4, <1>7, <2>2, <2>3 DEF here, all, s, end
<1>8. CASE ~(response.framing = "chunked" /\ p < end /\ end <= e)
  <2>1. ASSUME NEW i \in ends PROVE FALSE
    <3>1. i \in 1..(e - p) /\ response.framing = "chunked" /\ p + i = end
      BY <1>3, <1>5
    <3>. QED
      BY <1>1, <1>2, <1>8, <3>1
  <2>. QED
    BY <1>4, <1>8, <2>1 DEF here, all, s, end
<1>. QED
  BY <1>7, <1>8
----------------------------------------------------------------------------
(* The answer stays divided in what is read and what is not.                  *)

\* Nothing is claimed of a request that neither reads nor has its response.
LEMMA DataElsewhere ==
    ASSUME pc' \notin {"send", "head", "body"}, result' # "response"
    PROVE  DataInv'
BY DEF DataInv

\* Before the first recv nothing is read.
LEMMA ToSendKeepsData ==
    ASSUME NEW s, ToSend(s), UNCHANGED response, result' = "none"
    PROVE  DataInv'
BY DEF ToSend, DataInv

\* An attempt that fails reads no more.
LEMMA AttemptFailsKeepsData ==
    ASSUME RequestInv, pc \in Waiting, AttemptFails
    PROVE  DataInv'
<1>1. result = "none"
  BY WaitingIsOpen
<1>2. CASE Fails
  BY <1>1, <1>2, DataElsewhere DEF Fails, Settle
<1>3. CASE Connecting
  BY <1>1, <1>3, DataElsewhere DEF Connecting
<1>. QED
  BY <1>2, <1>3 DEF AttemptFails, CreateSocket, ConnectRaises

\* A body is read up to its end and no further.
LEMMA ReadBodyKeepsData ==
    ASSUME RequestInv, pc \in {"head", "body"},
           NEW e \in (HeadLength + left)..Len(Script(response)),
           ReadBody(SubSeq(Script(response), HeadLength + left + 1, e)),
           unread' = From(e), UNCHANGED <<request, response>>,
           response.framing = "none" => left = 0,
           response.framing = "chunked" => left <= response.size
    PROVE  DataInv'
<1>. DEFINE s == Script(response)
            p == HeadLength + left
            rest == SubSeq(s, p + 1, e)
            total == left + Len(rest)
            r == response
<1>1. /\ r \in Responses /\ left \in Nat /\ result = "none" /\ pc \in Waiting
      /\ pool = {} /\ ControlTypes /\ request \in Requests
  BY WaitingIsOpen DEF RequestInv, TypeOK, UseInv, InUse, Waiting
<1>2. /\ s \in Seq(Tokens) /\ Len(s) \in Nat /\ r.size \in Nat
      /\ HeadLength \in {2, 4}
      /\ Len(s) = HeadLength + BodyLength + (IF r.excess THEN 1 ELSE 0)
  BY <1>1, ScriptShape, LenProperties DEF HeadLength
<1>3. r.framing \in Framings /\ (r.framing = "none" => r.size = 0)
  BY <1>1, HttpRequestAssumption
<1>4. /\ rest \in Seq(Tokens) /\ Len(rest) = e - p
      /\ p \in HeadLength..Len(s) /\ e \in p..Len(s)
  <2>1. p \in HeadLength..Len(s) /\ e \in p..Len(s) /\ p \in Nat
    BY <1>1, <1>2
  <2>2. \A i \in (p + 1)..e : s[i] \in Tokens
    BY <1>2, <2>1, ElementOfSeq
  <2>3. rest \in Seq(Tokens) /\ Len(rest) = e - p
    BY <1>2, <2>1, <2>2, SubSeqProperties
  <2>. QED
    BY <2>1, <2>3
<1>5. /\ total = e - HeadLength /\ total \in Nat /\ HeadLength + total = e
      /\ total = left + Len(rest) /\ p = HeadLength + left /\ ReadBody(rest)
  BY <1>1, <1>2, <1>4
<1>. HIDE DEF total
<1>6. BodyLength = IF r.framing = "chunked" THEN r.size + 1 ELSE r.size
  BY DEF BodyLength
<1>7. HeadLength' = HeadLength /\ BodyLength' = BodyLength /\ DoClose' = DoClose
      /\ From(e)' = From(e) /\ From(HeadLength + BodyLength)' = From(HeadLength + BodyLength)
      /\ Script(response)' = Script(response)
  BY DEF HeadLength, BodyLength, DoClose, From
<1>8. LastChunk(rest) = IF /\ r.framing = "chunked"
                           /\ p < HeadLength + BodyLength /\ HeadLength + BodyLength <= e
                        THEN (HeadLength + BodyLength) - p ELSE 0
  <2>1. p \in HeadLength..Len(Script(response)) /\ e \in p..Len(Script(response))
    BY <1>4
  <2>. HIDE DEF p
  <2>. QED
    BY <1>1, <2>1, LastChunkOfPart
<1>. HIDE DEF s, p, rest
<1>9. CASE /\ Body(rest, left) = "complete"
           /\ left' = total /\ got' = <<>> /\ Complete
  <2>1. pc' = "done"
    BY <1>9 DEF Complete
  <2>2. DoClose => sok' \notin pool'
    BY <1>1, <1>9 DEF Complete
  <2>3. ASSUME request.maxSize = None, r.framing # "close"
        PROVE  total = BodyLength
    <3>1. \A n : ~Enough(n)
      BY <2>3 DEF Enough
    <3>2. CASE r.framing = "none"
      <4>1. rest = <<>>
        BY <1>9, <3>2 DEF Body
      <4>2. Len(rest) = 0
        BY <4>1, EmptySeq
      <4>3. left = 0
        BY <3>2
      <4>. QED
        BY <1>3, <1>5, <1>6, <3>2, <4>2, <4>3
    <3>3. CASE r.framing = "length"
      BY <1>2, <1>5, <1>6, <1>9, <3>1, <3>3 DEF Body
    <3>4. CASE r.framing = "chunked"
      <4>1. DeChunk(rest, left) = "complete"
        BY <1>9, <3>4 DEF Body
      <4>2. LastChunk(rest) # 0 /\ ~(LastChunk(rest) < Len(rest))
        BY <3>1, <4>1 DEF DeChunk
      <4>3. HeadLength + BodyLength <= e /\ ~((HeadLength + BodyLength) - p < e - p)
        BY <1>4, <1>8, <4>2
      <4>4. BodyLength \in Int /\ HeadLength \in Int /\ e \in Int /\ p \in Int
            /\ e <= HeadLength + BodyLength + 1 /\ p <= e
        BY SMTT(30), <1>2, <1>4, <1>6, <3>4
      <4>5. e = HeadLength + BodyLength
        BY <4>3, <4>4
      <4>. QED
        BY <1>5, <4>4, <4>5
    <3>. QED
      BY <1>3, <2>3, <3>2, <3>3, <3>4 DEF Framings
  <2>4. WholeInv'
    <3>1. request' = request /\ response' = response
      OBVIOUS
    <3>2. ASSUME request'.maxSize = None, response'.framing # "close"
          PROVE  left' = BodyLength' /\ unread' = From(HeadLength + BodyLength)'
      BY <1>5, <1>7, <1>9, <2>3, <3>1, <3>2
    <3>. QED
      BY <1>7, <2>2, <3>2 DEF WholeInv
  <2>. QED
    BY <2>1, <2>4 DEF DataInv
<1>10. CASE Fails
  BY <1>1, <1>10, DataElsewhere DEF Fails, Settle
<1>11. CASE /\ Body(rest, left) = "more"
            /\ pc' = "body" /\ left' = total /\ got' = <<>>
            /\ UNCHANGED <<regs, sok, retryOnce, count, sent, open, pool, result,
                           timer, dead>>
  <2>1. r.framing # "none"
    BY <1>11 DEF Body
  <2>2. r.framing = "length" => total < r.size
    BY <1>2, <1>5, <1>11 DEF Body
  <2>3. r.framing = "chunked" => total <= r.size
    <3>. SUFFICES ASSUME r.framing = "chunked" PROVE total <= r.size
      OBVIOUS
    <3>1. DeChunk(rest, left) = "more"
      BY <1>11 DEF Body
    <3>2. LastChunk(rest) = 0
      BY <3>1 DEF DeChunk
    <3>3. ~(p < HeadLength + BodyLength /\ HeadLength + BodyLength <= e)
      BY SMTT(30), <1>1, <1>2, <1>4, <1>6, <1>8, <3>2
    <3>. QED
      BY SMTT(30), <1>1, <1>2, <1>4, <1>5, <1>6, <3>3
  <2>4. BodyInv'
    BY <1>4, <1>5, <1>7, <1>11, <2>1, <2>2, <2>3 DEF BodyInv
  <2>. QED
    BY <1>1, <1>11, <2>4 DEF DataInv
<1>. QED
  BY <1>5, <1>9, <1>10, <1>11 DEF ReadBody

\* One recv while the header is read: what is not matched yet is kept.
LEMMA RecvHeadKeepsData ==
    ASSUME RequestInv, DataInv, NEW k \in 1..Len(unread), RecvHead(k)
    PROVE  DataInv'
<1>. DEFINE s == Script(response)
<1>1. /\ response \in Responses /\ left = 0 /\ HeadInv /\ result = "none"
      /\ HeadLength \in {2, 4} /\ pc = "head"
  BY DEF RecvHead, RequestInv, TypeOK, SettledInv, DataInv, HeadLength
<1>2. PICK q \in {0, HeadLength - 2} : \E p \in q..Len(s) :
        got = SubSeq(s, q + 1, p) /\ unread = From(p)
  BY <1>1 DEF HeadInv
<1>3. PICK p \in q..Len(s) : got = SubSeq(s, q + 1, p) /\ unread = From(p)
  BY <1>2
<1>4. s \in Seq(Tokens) /\ Len(s) \in Nat
  BY <1>1, ScriptIsTokens, LenProperties
<1>5. p \in 0..Len(s) /\ k \in 1..Len(From(p)) /\ q \in Nat /\ p \in Nat
  BY <1>1, <1>2, <1>3, <1>4
<1>6. /\ p + k \in p..Len(s)
      /\ SubSeq(unread, 1, k) = SubSeq(s, p + 1, p + k)
      /\ SubSeq(unread, k + 1, Len(unread)) = From(p + k)
  BY <1>1, <1>2, <1>3, <1>5, FromIsDivided
<1>. DEFINE e == p + k
            all == SubSeq(s, q + 1, e)
            end == HeaderEnd(all)
<1>7. e \in q..Len(s) /\ e \in Nat /\ q <= p /\ p <= e
  BY <1>2, <1>3, <1>4, <1>5, <1>6
<1>8. got \o SubSeq(unread, 1, k) = all
  <2>1. q + 1 \in 1..(Len(s) + 1) /\ p \in ((q + 1) - 1)..Len(s) /\ e \in p..Len(s)
    BY <1>2, <1>3, <1>4, <1>5, <1>7
  <2>2. SubSeq(s, q + 1, p) \o SubSeq(s, p + 1, e) = SubSeq(s, q + 1, e)
    <3>. HIDE DEF s, e
    <3>. QED
      BY <1>4, <2>1, ConcatAdjacentSubSeq
  <2>. QED
    BY <1>2, <1>3, <1>6, <2>2
<1>9. /\ end = IF e >= q + 2 THEN 2 ELSE 0
      /\ end # 0 => (all[end] = "final" <=> q = HeadLength - 2)
      /\ SubSeq(all, end + 1, Len(all)) = SubSeq(s, q + end + 1, e)
  <2>. HIDE DEF e
  <2>. QED
    BY <1>1, <1>2, <1>3, <1>7, HeaderIsMatched
<1>10. unread' = From(e) /\ UNCHANGED <<request, response>>
  BY <1>6 DEF RecvHead
<1>11. IF end # 0 /\ all[end] = "final" THEN ReadBody(SubSeq(all, end + 1, Len(all)))
       ELSE /\ got' = SubSeq(all, end + 1, Len(all))
            /\ UNCHANGED <<pc, left, result>>
  <2>. HIDE DEF all
  <2>. QED
    BY <1>8 DEF RecvHead
<1>. HIDE DEF e, all, end
<1>12. CASE end # 0 /\ all[end] = "final"
  <2>1. q + end + 1 = HeadLength + left + 1 /\ HeadLength + left <= e
    BY <1>1, <1>5, <1>7, <1>9, <1>12
  <2>2. ReadBody(SubSeq(s, HeadLength + left + 1, e))
    BY <1>9, <1>11, <1>12, <2>1
  <2>3. e \in (HeadLength + left)..Len(s)
    BY <1>1, <1>4, <1>7, <2>1
  <2>4. response.size \in Nat
    BY <1>1, HttpRequestAssumption
  <2>. QED
    BY <1>1, <1>10, <2>2, <2>3, <2>4, ReadBodyKeepsData
<1>13. CASE ~(end # 0 /\ all[end] = "final")
  <2>1. got' = SubSeq(s, (q + end) + 1, e) /\ pc' = "head" /\ left' = 0
        /\ result' = "none"
    BY <1>1, <1>9, <1>11, <1>13
  <2>2. q + end \in {0, HeadLength - 2} /\ e \in (q + end)..Len(s)
    BY <1>1, <1>2, <1>3, <1>5, <1>7, <1>9, <1>13
  <2>3. HeadInv'
    <3>1. HeadLength' = HeadLength /\ Script(response)' = s /\ From(e)' = From(e)
      BY <1>10 DEF HeadLength, From
    <3>2. \E x \in {0, HeadLength - 2} : \E y \in x..Len(s) :
            got' = SubSeq(s, x + 1, y) /\ unread' = SubSeq(s, y + 1, Len(s))
      BY <1>10, <2>1, <2>2 DEF From
    <3>. QED
      BY <1>10, <3>1, <3>2 DEF HeadInv, From
  <2>. QED
    BY <2>1, <2>3 DEF DataInv
<1>. QED
  BY <1>12, <1>13

\* One recv of a body.
LEMMA RecvBodyKeepsData ==
    ASSUME RequestInv, DataInv, NEW k \in 1..Len(unread), RecvBody(k)
    PROVE  DataInv'
<1>. DEFINE s == Script(response)
            p == HeadLength + left
<1>1. response \in Responses /\ left \in Nat /\ BodyInv /\ HeadLength \in {2, 4}
      /\ pc = "body"
  BY DEF RecvBody, RequestInv, TypeOK, DataInv, HeadLength
<1>2. s \in Seq(Tokens) /\ Len(s) \in Nat
  BY <1>1, ScriptIsTokens, LenProperties
<1>3. p \in 0..Len(s) /\ unread = From(p) /\ p \in Nat
  BY <1>1, <1>2 DEF BodyInv
<1>4. /\ p + k \in p..Len(s)
      /\ SubSeq(unread, 1, k) = SubSeq(s, p + 1, p + k)
      /\ SubSeq(unread, k + 1, Len(unread)) = From(p + k)
  <2>. HIDE DEF p
  <2>. QED
    BY <1>1, <1>3, FromIsDivided
<1>5. /\ ReadBody(SubSeq(s, p + 1, p + k)) /\ unread' = From(p + k)
      /\ UNCHANGED <<request, response>>
  BY <1>4 DEF RecvBody
<1>. QED
  BY <1>1, <1>4, <1>5, ReadBodyKeepsData DEF BodyInv

\* When nothing is read and nothing else happens, nothing changes.
LEMMA SameData ==
    ASSUME DataInv, UNCHANGED <<request, response, pc, got, left, unread, result,
                                sok, pool>>
    PROVE  DataInv'
BY DEF DataInv, HeadInv, BodyInv, WholeInv, DoClose, From, HeadLength, BodyLength

\* Every step keeps the answer divided.
LEMMA DataStep ==
    ASSUME RequestInv, DataInv, Next
    PROVE  DataInv'
<1>1. CASE Begin
  <2>1. result = "none"
    BY <1>1 DEF Begin, RequestInv, SettledInv
  <2>. QED
    BY <1>1, <2>1, DataElsewhere DEF Begin
<1>2. ASSUME NEW kept, CreateSocket(kept), pc \in Waiting PROVE DataInv'
  <2>1. result = "none"
    BY <1>2, WaitingIsOpen
  <2>2. CASE ConnectRaises
    BY <2>1, <2>2, DataElsewhere DEF ConnectRaises, Fails, Settle
  <2>3. CASE Connecting
    BY <2>1, <2>3, DataElsewhere DEF Connecting
  <2>. QED
    BY <1>2, <2>2, <2>3 DEF CreateSocket
<1>3. CASE StartFresh
  BY <1>2, <1>3 DEF StartFresh, Waiting
<1>4. CASE StartPooled
  BY <1>4, WaitingIsOpen, ToSendKeepsData DEF StartPooled, Waiting
<1>5. ASSUME Handshake, pc \in Waiting, UNCHANGED response PROVE DataInv'
  <2>1. result = "none"
    BY <1>5, WaitingIsOpen
  <2>2. CASE HandshakeFails
    BY <2>1, <2>2, DataElsewhere DEF HandshakeFails, Fails, Settle
  <2>3. CASE pc' = "shake" /\ UNCHANGED result
    BY <2>1, <2>3, DataElsewhere
  <2>4. CASE ToSend("fresh") /\ UNCHANGED result
    BY <1>5, <2>1, <2>4, ToSendKeepsData
  <2>. QED
    BY <1>5, <2>2, <2>3, <2>4 DEF Handshake
<1>6. CASE Connected
  <2>1. pc \in Waiting /\ UNCHANGED response
    BY <1>6 DEF Connected, Waiting
  <2>2. result = "none"
    BY <2>1, WaitingIsOpen
  <2>3. Handshake \/ (ToSend("fresh") /\ UNCHANGED result)
    BY <1>6 DEF Connected
  <2>. QED
    BY <1>5, <2>1, <2>2, <2>3, ToSendKeepsData
<1>7. CASE ConnectFails
  BY <1>7, WaitingIsOpen, DataElsewhere
  DEF ConnectFails, Fails, Settle, Waiting
<1>8. CASE ShakeAgain
  BY <1>5, <1>8 DEF ShakeAgain, Waiting
<1>9. CASE Send
  <2>1. CASE AttemptFails
    BY <1>9, <2>1, AttemptFailsKeepsData DEF Send, Waiting
  <2>2. CASE UNCHANGED <<pc, sok, got, left, unread, result>>
    <3>1. UNCHANGED <<request, response, pool>>
      BY <1>9 DEF Send
    <3>. QED
      BY <2>2, <3>1, SameData
  <2>. QED
    BY <1>9, <2>1, <2>2 DEF Send
<1>10. CASE SendDone
  <2>1. /\ pc = "send" /\ pc' = "head" /\ result = "none" /\ response \in Responses
        /\ UNCHANGED <<response, got, left, unread, result>>
    BY <1>10, WaitingIsOpen DEF SendDone, conn, Waiting, ControlTypes
  <2>2. got = <<>> /\ left = 0 /\ unread = Script(response)
    BY <2>1 DEF DataInv
  <2>. DEFINE s == Script(response)
  <2>3. s \in Seq(Tokens) /\ Len(s) \in Nat
    BY <2>1, ScriptIsTokens, LenProperties
  <2>4. SubSeq(s, 0 + 1, 0) = <<>> /\ SubSeq(s, 0 + 1, Len(s)) = s
    <3>. HIDE DEF s
    <3>. QED
      BY <2>3, SubSeqEmpty, SubSeqFull
  <2>5. \E q \in {0, HeadLength - 2} : \E p \in q..Len(s) :
          got = SubSeq(s, q + 1, p) /\ unread = SubSeq(s, p + 1, Len(s))
    <3>1. 0 \in {0, HeadLength - 2} /\ 0 \in 0..Len(s)
      BY <2>3
    <3>2. got = SubSeq(s, 0 + 1, 0) /\ unread = SubSeq(s, 0 + 1, Len(s))
      BY <2>2, <2>4
    <3>. HIDE DEF s
    <3>. QED
      BY <3>1, <3>2
  <2>6. HeadInv'
    <3>1. response' = response /\ got' = got /\ unread' = unread
      BY <2>1
    <3>. QED
      BY <2>5, <3>1 DEF HeadInv, From, HeadLength
  <2>. QED
    BY <2>1, <2>2, <2>6 DEF DataInv
<1>11. ASSUME NEW k \in 1..Len(unread), RecvHead(k) \/ RecvBody(k) PROVE DataInv'
  BY <1>11, RecvHeadKeepsData, RecvBodyKeepsData
<1>12. CASE RecvClosed
  <2>1. pc \in Waiting
    BY <1>12 DEF RecvClosed, Waiting
  <2>2. CASE pc = "body" /\ response.framing = "close" /\ Complete
    <3>1. DoClose /\ pool = {}
      BY <2>2 DEF DoClose, RequestInv, UseInv, InUse
    <3>2. pc' = "done" /\ pool' = {} /\ UNCHANGED response
      BY <1>12, <2>2, <3>1 DEF Complete, RecvClosed
    <3>3. WholeInv'
      BY <2>2, <3>2 DEF WholeInv
    <3>. QED
      BY <3>2, <3>3 DEF DataInv
  <2>3. CASE AttemptFails
    BY <2>1, <2>3, AttemptFailsKeepsData
  <2>. QED
    BY <1>12, <2>2, <2>3 DEF RecvClosed
<1>13. CASE RecvFails
  BY <1>13, AttemptFailsKeepsData DEF RecvFails, Waiting
<1>14. CASE TimedOut
  <2>1. result = "none"
    BY <1>14 DEF TimedOut, RequestInv, SettledInv
  <2>. QED
    BY <1>14, <2>1, DataElsewhere DEF TimedOut, Settle
<1>15. CASE StrayCallback
  <2>1. /\ result = "timeout" \/ result # "response"
        /\ pc' = "ended" /\ UNCHANGED result
    BY <1>15 DEF StrayCallback, RequestInv, AfterInv
  <2>2. result = "timeout"
    BY <1>15 DEF StrayCallback, RequestInv, AfterInv
  <2>. QED
    BY <2>1, <2>2, DataElsewhere
<1>. QED
  BY <1>1, <1>3, <1>4, <1>6, <1>7, <1>8, <1>9, <1>10, <1>11, <1>12, <1>13, <1>14,
     <1>15 DEF Next, Progress

\* What the places mean: what is left is nothing, or the excess.
LEMMA DataInvMeans ==
    ASSUME RequestInv, DataInv
    PROVE  ReadToItsEnd
<1>. DEFINE s == Script(response)
            end == HeadLength + BodyLength
<1>1. response \in Responses /\ request \in Requests
  BY DEF RequestInv, TypeOK
<1>2. /\ s \in Seq(Tokens) /\ HeadLength \in {2, 4} /\ BodyLength \in Nat
      /\ Len(s) = end + (IF response.excess THEN 1 ELSE 0)
      /\ response.excess => s[Len(s)] = "excess"
  BY <1>1, ScriptShape DEF HeadLength, BodyLength
<1>3. From(end) \in {<<>>, <<"excess">>}
  <2>1. From(end) = SubSeq(s, end + 1, Len(s))
    BY DEF From
  <2>. HIDE DEF s
  <2>2. end \in Nat
    BY <1>2
  <2>. HIDE DEF end
  <2>3. CASE response.excess
    <3>1. Len(s) = end + 1 /\ s[end + 1] = "excess"
      BY <1>2, <2>3
    <3>2. "excess" \in Tokens
      BY DEF Tokens, Rest
    <3>3. \A i \in (end + 1)..(end + 1) : s[i] = "excess"
      BY <2>2, <3>1
    <3>4. /\ SubSeq(s, end + 1, end + 1) \in Seq(Tokens)
          /\ Len(SubSeq(s, end + 1, end + 1)) = 1
          /\ SubSeq(s, end + 1, end + 1)[1] = "excess"
      BY <2>2, <3>2, <3>3, SubSeqProperties
    <3>5. /\ <<"excess">> \in Seq(Tokens) /\ Len(<<"excess">>) = 1
          /\ <<"excess">>[1] = "excess"
      BY <3>2
    <3>6. SubSeq(s, end + 1, end + 1) = <<"excess">>
      <4>. DEFINE one == SubSeq(s, end + 1, end + 1)
                  two == <<"excess">>
      <4>1. one \in Seq(Tokens) /\ two \in Seq(Tokens) /\ Len(one) = Len(two)
            /\ \A i \in 1..Len(one) : one[i] = two[i]
        BY <3>4, <3>5
      <4>. HIDE DEF one, two
      <4>2. one = two
        BY <4>1, SeqEqual
      <4>. QED
        BY <4>2 DEF one, two
    <3>. QED
      BY <2>1, <3>1, <3>6
  <2>4. CASE ~response.excess
    BY <1>2, <2>1, <2>2, <2>4, SubSeqEmpty
  <2>. QED
    BY <2>3, <2>4
<1>4. ASSUME result = "response" PROVE WholeInv
  BY <1>4 DEF DataInv
<1>5. PooledAtBoundary
  BY <1>3, <1>4 DEF PooledAtBoundary, WholeInv, DoClose
<1>6. BodyLength = (IF response.framing = "chunked" THEN 1 ELSE 0)
                   + (IF response.framing = "none" THEN 0 ELSE response.size)
  <2>1. response.size \in Nat /\ (response.framing = "none" => response.size = 0)
    BY <1>1, HttpRequestAssumption
  <2>. QED
    BY <2>1 DEF BodyLength
<1>7. WholeBody
  BY <1>4, <1>6 DEF WholeBody, WholeInv
<1>. QED
  BY <1>5, <1>7 DEF ReadToItsEnd

\* The division of the answer is kept, along with the rest of the invariant.
LEMMA DataAlways == Spec => []DataInv
<1>1. Init => DataInv
  BY DEF Init, DataInv
<1>2. RequestInv /\ DataInv /\ [Next]_vars => DataInv'
  <2>1. UNCHANGED vars /\ DataInv => DataInv'
    BY SameData DEF vars
  <2>. QED
    BY <2>1, DataStep
<1>. QED
  BY <1>1, <1>2, RequestAlways, PTL DEF Spec
----------------------------------------------------------------------------
\* However the server's bytes are cut in pieces, a response without a limit has
\* its whole body and no byte more, and a socket goes back to the pool at the
\* end of a response and nowhere else.
THEOREM RequestReadsToItsEnd == Spec => []ReadToItsEnd
BY RequestAlways, DataAlways, DataInvMeans, PTL
=============================================================================
