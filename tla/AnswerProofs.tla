---------------------------- MODULE AnswerProofs ----------------------------
(***************************************************************************)
(* Proof that the servers write every response once, and to the client it  *)
(* is for (AnsweredOnce of Components).                                    *)
(*                                                                         *)
(* The argument: responses on the RESP edge are numbered as they come, and *)
(* what is kept for a blocked socket is not written yet and is for a       *)
(* client that is there.  HTTPServer's responses do not name their client: *)
(* it pairs the n-th response with the n-th request it gave to the graph.  *)
(* That is right because its response_wait_queue is the requests asked     *)
(* after the responses received, in order; and it stays so because a       *)
(* connection that breaks while it writes has had its request refused or   *)
(* answered already, so that dropping the request takes nothing out of the *)
(* queue.                                                                  *)
(***************************************************************************)
EXTENDS WakeProofs

-----------------------------------------------------------------------------
(* The RESP edge: responses are numbered as they come.                     *)

\* How many of them have been taken.
Received == sent[1] - Len(inq[1])

RespInv ==
    IsServer =>
        /\ open \subseteq {1}
        /\ sent \in [InPorts -> Nat] /\ inq \in [InPorts -> Seq(Int)] /\ Numbered(1)

\* What the proof uses of the servers' records.
LEMMA ServersAre ==
    ASSUME PortInv, IsServer
    PROVE  /\ kind.inports = {1} /\ kind.first = "config"
           /\ kind.visit = "serve" <=> kind = HTTPServer
           /\ kind.handshake \in IF kind.visit = "serve" THEN {"reading"} ELSE {"active", "shaking"}
           /\ kind.visit = "serve" => ~kind.routed /\ kind.name = "HTTPServer"
           /\ kind.routed => ~kind.queued
           /\ kind.config # "none"
<1>1. kind \in ServerKinds \cup {HTTPServer}
  BY KindsAssumption, FlowKinds, IoKindsAre, ChatKindsAre, PollerKindsAre
  DEF PortInv, IsServer, AllKinds, FlowKind, IoKind, ChatKind, PollerKind
<1>2. CASE kind = TCPServer  BY <1>2 DEF TCPServer, HTTPServer
<1>3. CASE kind = UnixSocketServer  BY <1>3 DEF UnixSocketServer, TCPServer, HTTPServer
<1>4. CASE kind = WSServer  BY <1>4 DEF WSServer, TCPServer, HTTPServer
<1>5. CASE kind = TLSServer  BY <1>5 DEF TLSServer, TCPServer, HTTPServer
<1>6. CASE kind = HTTPServer  BY <1>6 DEF TCPServer, HTTPServer
<1>. QED  BY <1>1, <1>2, <1>3, <1>4, <1>5, <1>6 DEF ServerKinds

\* The first element of a vector and the others.
LEMMA TailAt ==
    ASSUME NEW S, NEW s \in Seq(S), s # <<>>
    PROVE  /\ Len(s) \in Nat \ {0} /\ Head(s) = s[1] /\ s[1] \in S
           /\ Tail(s) \in Seq(S) /\ Len(Tail(s)) = Len(s) - 1
           /\ \A i \in 1..Len(Tail(s)) : Tail(s)[i] = s[i + 1] /\ i + 1 \in 1..Len(s)
BY HeadTailProperties, EmptySeq

\* A vector with one more.
LEMMA AppendAt ==
    ASSUME NEW S, NEW s \in Seq(S), NEW x \in S
    PROVE  /\ Append(s, x) \in Seq(S) /\ Len(s) \in Nat /\ Len(Append(s, x)) = Len(s) + 1
           /\ \A i \in 1..Len(s) : Append(s, x)[i] = s[i]
           /\ Append(s, x)[Len(s) + 1] = x
BY AppendProperties

\* The response taken is the next one.
LEMMA ResponsePops ==
    ASSUME RespInv, IsServer, inq[1] # <<>>, Pop(1), UNCHANGED <<kind, sent, open>>
    PROVE  /\ RespInv' /\ Head(inq[1]) = Received + 1 /\ Received' = Received + 1
           /\ Received \in Nat /\ Received + 1 <= sent[1]
<1> DEFINE q == inq[1]  n == sent[1]
<1>1. 1 \in InPorts /\ q \in Seq(Int) /\ n \in Nat /\ Numbered(1) /\ q # <<>>  BY DEF RespInv, InPorts
<1>2. inq' = [r \in InPorts |-> IF r = 1 THEN Tail(q) ELSE inq[r]]  BY DEF Pop, RespInv
<1>3. Len(q) <= n /\ \A j \in 1..Len(q) : q[j] = n - Len(q) + j  BY <1>1 DEF Numbered
<1>4. inq'[1] = Tail(q) /\ sent'[1] = n  BY <1>1, <1>2
<1> HIDE DEF q, n
<1>5. /\ Len(q) \in Nat \ {0} /\ Head(q) = q[1] /\ Tail(q) \in Seq(Int) /\ Len(Tail(q)) = Len(q) - 1
      /\ \A i \in 1..Len(Tail(q)) : Tail(q)[i] = q[i + 1] /\ i + 1 \in 1..Len(q)
  BY <1>1, TailAt
<1>6. Head(q) = n - Len(q) + 1  BY <1>1, <1>3, <1>5
<1>7. /\ n - Len(Tail(q)) = (n - Len(q)) + 1 /\ n - Len(q) \in Nat /\ (n - Len(q)) + 1 <= n
      /\ Len(Tail(q)) <= n
  BY <1>1, <1>3, <1>5
<1>8. ASSUME NEW j \in 1..Len(Tail(q)) PROVE Tail(q)[j] = n - Len(Tail(q)) + j
  <2>1. Tail(q)[j] = n - Len(q) + (j + 1)  BY <1>3, <1>5
  <2>. QED  BY <1>1, <1>5, <2>1
<1>9. Numbered(1)'  BY <1>4, <1>7, <1>8 DEF Numbered
<1>10. inq' \in [InPorts -> Seq(Int)]  BY <1>2, <1>5 DEF RespInv
<1>. QED  BY <1>4, <1>6, <1>7, <1>9, <1>10 DEF RespInv, Received, q, n, IsServer

\* A new response gets the next number.
LEMMA ResponseFeeds ==
    ASSUME RespInv, IsServer, Feed
    PROVE  /\ RespInv' /\ Received' = Received
           /\ sent'[1] = sent[1] + 1 /\ sent[1] < FeedLimit
<1> DEFINE q == inq[1]  n == sent[1]
<1>1. /\ sent' = [sent EXCEPT ![1] = sent[1] + 1] /\ UNCHANGED <<kind, open>>
      /\ inq' = [inq EXCEPT ![1] = Append(inq[1], sent[1] + 1)] /\ sent[1] < FeedLimit
  <2>1. PICK p \in open : /\ sent' = [sent EXCEPT ![p] = sent[p] + 1] /\ UNCHANGED <<kind, open>>
                          /\ inq' = [inq EXCEPT ![p] = Append(inq[p], sent[p] + 1)]
                          /\ sent[p] < FeedLimit
    BY DEF Feed, RespInv
  <2>2. p = 1  BY DEF RespInv
  <2>. QED  BY <2>1, <2>2
<1>2. 1 \in InPorts /\ q \in Seq(Int) /\ n \in Nat /\ Numbered(1)  BY DEF RespInv, InPorts
<1>3. /\ sent' = [r \in InPorts |-> IF r = 1 THEN n + 1 ELSE sent[r]]
      /\ inq' = [r \in InPorts |-> IF r = 1 THEN Append(q, n + 1) ELSE inq[r]]
  BY <1>1 DEF RespInv
<1>4. Len(q) <= n /\ \A j \in 1..Len(q) : q[j] = n - Len(q) + j  BY <1>2 DEF Numbered
<1>5. inq'[1] = Append(q, n + 1) /\ sent'[1] = n + 1  BY <1>2, <1>3
<1> HIDE DEF q, n
<1> DEFINE t == Append(q, n + 1)
<1>6. /\ t \in Seq(Int) /\ Len(q) \in Nat /\ Len(t) = Len(q) + 1
      /\ \A i \in 1..Len(q) : t[i] = q[i]
      /\ t[Len(q) + 1] = n + 1
  BY <1>2, AppendAt
<1> HIDE DEF t
<1>7. ASSUME NEW j \in 1..Len(t) PROVE t[j] = (n + 1) - Len(t) + j
  <2>1. CASE j \in 1..Len(q)
    <3>1. t[j] = n - Len(q) + j /\ j \in Int  BY <1>4, <1>6, <2>1
    <3>. QED  BY <1>2, <1>6, <3>1
  <2>2. CASE j = Len(q) + 1  BY <1>2, <1>6, <2>2
  <2>. QED  BY <1>6, <2>1, <2>2
<1>8. Len(t) <= n + 1 /\ (n + 1) - Len(t) = n - Len(q)  BY <1>2, <1>4, <1>6
<1>9. Numbered(1)'  BY <1>5, <1>7, <1>8 DEF Numbered, t
<1>10. sent' \in [InPorts -> Nat] /\ inq' \in [InPorts -> Seq(Int)]  BY <1>2, <1>3, <1>6 DEF RespInv, t
<1>. QED  BY <1>1, <1>5, <1>8, <1>9, <1>10 DEF RespInv, Received, q, n, t, IsServer

\* Nothing comes and nothing is taken.
LEMMA ResponsesStay ==
    ASSUME RespInv, UNCHANGED <<kind, sent, inq>>, open' \subseteq open
    PROVE  RespInv' /\ Received' = Received
BY DEF RespInv, Received, Numbered, IsServer


-----------------------------------------------------------------------------
(* Connections are numbered by the clients they belong to.                 *)

States == {"active", "shaking", "ok", "failed", "reading", "processing", "pending", "writing",
           "keepalive"}

Conn == [client : Int, hs : States, req : Int, resp : Int]

ConnInv ==
    IsServer =>
        /\ ids \in Seq(Int) /\ \A c \in 1..Len(ids) : ids[c] = c - 1
        /\ connections \in [DOMAIN connections -> Conn]
        /\ \A id \in DOMAIN connections : id \in 0..(Len(ids) - 1) /\ connections[id].client = id + 1

\* A connection that goes on to another state stays its client's.
LEMMA StateSet ==
    ASSUME ConnInv, IsServer, NEW id \in DOMAIN connections, NEW h \in States, UNCHANGED <<kind, ids>>,
           connections' = [connections EXCEPT ![id].hs = h]
    PROVE  /\ ConnInv' /\ DOMAIN connections' = DOMAIN connections
           /\ connections'[id].hs = h
           /\ \A x \in DOMAIN connections :
                 /\ connections'[x].client = connections[x].client /\ connections'[x].req = connections[x].req
                 /\ connections'[x].resp = connections[x].resp
                 /\ x # id => connections'[x].hs = connections[x].hs
<1>1. connections[id] \in Conn  BY DEF ConnInv
<1> DEFINE r == [connections[id] EXCEPT !.hs = h]
<1>2. r \in Conn /\ r.hs = h /\ r.client = connections[id].client /\ r.req = connections[id].req
      /\ r.resp = connections[id].resp
  BY <1>1 DEF Conn
<1>3. connections' = [x \in DOMAIN connections |-> IF x = id THEN r ELSE connections[x]]
  BY DEF ConnInv
<1> HIDE DEF r
<1>4. DOMAIN connections' = DOMAIN connections /\ connections'[id] = r
      /\ \A x \in DOMAIN connections : x # id => connections'[x] = connections[x]
  BY <1>3
<1>5. connections' \in [DOMAIN connections -> Conn]  BY <1>2, <1>3 DEF ConnInv
<1>6. \A x \in DOMAIN connections : connections'[x].client = connections[x].client  BY <1>2, <1>4
<1>7. ConnInv'  BY <1>4, <1>5, <1>6 DEF ConnInv
<1>. QED  BY <1>2, <1>4, <1>6, <1>7

\* A request that was sent, or refused, waits at its connection.
LEMMA AwaitSet ==
    ASSUME ConnInv, IsServer, NEW id \in DOMAIN connections, NEW request \in Int, UNCHANGED <<kind, ids>>,
           connections' = Await(id, request)
    PROVE  /\ ConnInv' /\ DOMAIN connections' = DOMAIN connections
           /\ connections'[id].hs = "pending" /\ connections'[id].req = request
           /\ \A x \in DOMAIN connections :
                 /\ connections'[x].client = connections[x].client
                 /\ connections'[x].resp = connections[x].resp
                 /\ x # id => connections'[x].hs = connections[x].hs /\ connections'[x].req = connections[x].req
<1>1. connections[id] \in Conn  BY DEF ConnInv
<1> DEFINE r == [[connections[id] EXCEPT !.hs = "pending"] EXCEPT !.req = request]
<1>2. r \in Conn /\ r.hs = "pending" /\ r.client = connections[id].client /\ r.req = request
      /\ r.resp = connections[id].resp
  <2> DEFINE b == [connections[id] EXCEPT !.hs = "pending"]
  <2>1. b \in Conn /\ b.hs = "pending" /\ b.client = connections[id].client
        /\ b.resp = connections[id].resp
    BY <1>1 DEF Conn, States
  <2> HIDE DEF b
  <2>2. [b EXCEPT !.req = request] \in Conn  BY <2>1 DEF Conn
  <2>3. /\ [b EXCEPT !.req = request].req = request /\ [b EXCEPT !.req = request].hs = b.hs
        /\ [b EXCEPT !.req = request].client = b.client /\ [b EXCEPT !.req = request].resp = b.resp
    BY <2>1 DEF Conn
  <2>. QED  BY <2>1, <2>2, <2>3 DEF b
<1>3. connections' = [x \in DOMAIN connections |-> IF x = id THEN r ELSE connections[x]]
  BY DEF ConnInv, Await
<1> HIDE DEF r
<1>4. DOMAIN connections' = DOMAIN connections /\ connections'[id] = r
      /\ \A x \in DOMAIN connections : x # id => connections'[x] = connections[x]
  BY <1>3
<1>5. connections' \in [DOMAIN connections -> Conn]  BY <1>2, <1>3 DEF ConnInv
<1>6. \A x \in DOMAIN connections : connections'[x].client = connections[x].client  BY <1>2, <1>4
<1>7. ConnInv'  BY <1>4, <1>5, <1>6 DEF ConnInv
<1>. QED  BY <1>2, <1>4, <1>6, <1>7

\* Its response was found.
LEMMA WritingSet ==
    ASSUME ConnInv, IsServer, NEW id \in DOMAIN connections, NEW n \in Int, UNCHANGED <<kind, ids>>,
           connections' = [connections EXCEPT ![id].hs = "writing", ![id].resp = n]
    PROVE  /\ ConnInv' /\ DOMAIN connections' = DOMAIN connections
           /\ connections'[id].hs = "writing" /\ connections'[id].resp = n
           /\ \A x \in DOMAIN connections :
                 /\ connections'[x].client = connections[x].client
                 /\ connections'[x].req = connections[x].req
                 /\ x # id => connections'[x].hs = connections[x].hs /\ connections'[x].resp = connections[x].resp
<1>1. connections[id] \in Conn  BY DEF ConnInv
<1> DEFINE r == [[connections[id] EXCEPT !.hs = "writing"] EXCEPT !.resp = n]
<1>2. r \in Conn /\ r.hs = "writing" /\ r.client = connections[id].client /\ r.resp = n
      /\ r.req = connections[id].req
  <2> DEFINE b == [connections[id] EXCEPT !.hs = "writing"]
  <2>1. b \in Conn /\ b.hs = "writing" /\ b.client = connections[id].client
        /\ b.req = connections[id].req
    BY <1>1 DEF Conn, States
  <2> HIDE DEF b
  <2>2. [b EXCEPT !.resp = n] \in Conn  BY <2>1 DEF Conn
  <2>3. /\ [b EXCEPT !.resp = n].resp = n /\ [b EXCEPT !.resp = n].hs = b.hs
        /\ [b EXCEPT !.resp = n].client = b.client /\ [b EXCEPT !.resp = n].req = b.req
    BY <2>1 DEF Conn
  <2>. QED  BY <2>1, <2>2, <2>3 DEF b
<1>3. connections' = [x \in DOMAIN connections |-> IF x = id THEN r ELSE connections[x]]
  BY DEF ConnInv
<1> HIDE DEF r
<1>4. DOMAIN connections' = DOMAIN connections /\ connections'[id] = r
      /\ \A x \in DOMAIN connections : x # id => connections'[x] = connections[x]
  BY <1>3
<1>5. connections' \in [DOMAIN connections -> Conn]  BY <1>2, <1>3 DEF ConnInv
<1>6. \A x \in DOMAIN connections : connections'[x].client = connections[x].client  BY <1>2, <1>4
<1>7. ConnInv'  BY <1>4, <1>5, <1>6 DEF ConnInv
<1>. QED  BY <1>2, <1>4, <1>6, <1>7

\* Connections are dropped.
LEMMA Dropped ==
    ASSUME ConnInv, IsServer, NEW S, UNCHANGED <<kind, ids>>, connections' = Without(connections, S)
    PROVE  /\ ConnInv' /\ DOMAIN connections' = DOMAIN connections \ S
           /\ \A x \in DOMAIN connections' : connections'[x] = connections[x]
<1>1. /\ DOMAIN connections' = DOMAIN connections \ S
      /\ \A x \in DOMAIN connections' : connections'[x] = connections[x]
      /\ connections' = [x \in DOMAIN connections \ S |-> connections[x]]
  BY DEF Without
<1>2. \A x \in DOMAIN connections : connections[x] \in Conn  BY DEF ConnInv
<1>3. connections' \in [DOMAIN connections' -> Conn]  BY <1>1, <1>2
<1>. QED  BY <1>1, <1>3 DEF ConnInv

\* A client is accepted, under an id no other has.
LEMMA Accepted ==
    ASSUME ConnInv, IsServer, PortInv, UNCHANGED kind, ids' = Append(ids, NextClientId),
           connections' = [id \in DOMAIN connections \cup {NextClientId} |->
                 IF id = NextClientId
                 THEN [client |-> Len(ids) + 1, hs |-> kind.handshake, req |-> 0, resp |-> 0]
                 ELSE connections[id]]
    PROVE  /\ ConnInv' /\ NextClientId \notin DOMAIN connections
           /\ DOMAIN connections' = DOMAIN connections \cup {NextClientId}
           /\ connections'[NextClientId].hs = kind.handshake
           /\ \A x \in DOMAIN connections : connections'[x] = connections[x]
<1> DEFINE r == [client |-> Len(ids) + 1, hs |-> kind.handshake, req |-> 0, resp |-> 0]  n == Len(ids)
<1>1. n \in Nat /\ ids \in Seq(Int) /\ n \in Int  BY DEF ConnInv
<1>2. n \notin DOMAIN connections  BY <1>1 DEF ConnInv
<1>3. /\ ids' \in Seq(Int) /\ Len(ids') = n + 1 /\ ids'[n + 1] = n
      /\ \A i \in 1..n : ids'[i] = ids[i]
  BY <1>1, AppendAt DEF NextClientId
<1>4. kind.handshake \in States  BY ServersAre DEF States
<1>5. r \in Conn /\ r.client = n + 1 /\ r.hs = kind.handshake  BY <1>1, <1>4 DEF Conn
<1>6. connections' = [id \in DOMAIN connections \cup {n} |-> IF id = n THEN r ELSE connections[id]]
  BY DEF NextClientId
<1> HIDE DEF r, n
<1>7. /\ DOMAIN connections' = DOMAIN connections \cup {n} /\ connections'[n] = r
      /\ \A x \in DOMAIN connections : connections'[x] = connections[x]
  BY <1>2, <1>6
<1>8. \A x \in DOMAIN connections : connections[x] \in Conn  BY DEF ConnInv
<1>9. connections' \in [DOMAIN connections' -> Conn]  BY <1>5, <1>6, <1>8
<1>10. \A c \in 1..Len(ids') : ids'[c] = c - 1
  <2>1. \A c \in 1..n : ids[c] = c - 1  BY DEF ConnInv, n
  <2>. QED  BY <1>1, <1>3, <2>1
<1>11. ASSUME NEW id \in DOMAIN connections'
       PROVE  id \in 0..(Len(ids') - 1) /\ connections'[id].client = id + 1
  <2>1. CASE id = n  BY <1>1, <1>3, <1>5, <1>7, <2>1
  <2>2. CASE id \in DOMAIN connections
    <3>1. id \in 0..(n - 1) /\ connections[id].client = id + 1  BY <2>2 DEF ConnInv, n
    <3>. QED  BY <1>1, <1>3, <1>7, <2>2, <3>1
  <2>. QED  BY <1>7, <2>1, <2>2
<1>12. ConnInv'  BY <1>3, <1>9, <1>10, <1>11 DEF ConnInv
<1>. QED  BY <1>2, <1>5, <1>7, <1>12 DEF n, NextClientId

\* Nobody comes or goes.
LEMMA ConnStays == ASSUME ConnInv, UNCHANGED <<kind, ids, connections>> PROVE ConnInv'
BY DEF ConnInv, IsServer


-----------------------------------------------------------------------------
(* What has been written, and what TCP and Unix sockets keep for later.    *)

Triple == Int \X Int \X Int

AnswerInv ==
    IsServer =>
        /\ answers \in Seq(Triple)
        /\ \A i \in 1..Len(answers) : answers[i][1] <= Received /\ answers[i][2] = answers[i][3]
        /\ \A i, j \in 1..Len(answers) : answers[i][1] = answers[j][1] => i = j

\* Response n has not been written.
Unwritten(n) == \A i \in 1..Len(answers) : answers[i][1] # n

RoutedInv ==
    IsServer /\ kind.routed =>
        \A e \in pending_responses :
            /\ e \in Triple /\ e[1] \in DOMAIN connections /\ e[3] = e[1] + 1
            /\ e[2] <= Received /\ Unwritten(e[2])
            /\ \A f \in pending_responses : e[2] = f[2] => e = f

\* The parts of a triple.
LEMMA TripleParts == \A e \in Triple : e[1] \in Int /\ e[2] \in Int /\ e[3] \in Int
BY DEF Triple

\* Written responses, one by one.
LEMMA AnswersAt ==
    ASSUME AnswerInv, IsServer
    PROVE  /\ Len(answers) \in Nat
           /\ \A i \in 1..Len(answers) : answers[i] \in Triple /\ answers[i][1] \in Int
<1>1. answers \in Seq(Triple)  BY DEF AnswerInv
<1>. QED  BY <1>1, LenProperties, ElementOfSeq, TripleParts

\* Nothing is written.
LEMMA AnswersStay ==
    ASSUME AnswerInv, UNCHANGED <<kind, answers>>, Received \in Int, Received' \in Int, Received <= Received'
    PROVE  AnswerInv'
<1>1. SUFFICES ASSUME IsServer PROVE AnswerInv'  BY DEF AnswerInv, IsServer
<1>2. \A i \in 1..Len(answers) : answers[i][1] <= Received'
  BY <1>1, AnswersAt DEF AnswerInv
<1>. QED  BY <1>1, <1>2 DEF AnswerInv

\* A response that was not written before is written to the client it is for.
LEMMA AnswerWritten ==
    ASSUME AnswerInv, IsServer, UNCHANGED kind, NEW n \in Int, NEW c \in Int, NEW d, c = d,
           answers' = Append(answers, <<n, c, d>>), Unwritten(n),
           Received \in Int, Received' \in Int, Received <= Received', n <= Received'
    PROVE  /\ AnswerInv'
           /\ \A m : m # n /\ Unwritten(m) => Unwritten(m)'
<1> DEFINE x == <<n, c, d>>  k == Len(answers)
<1>1. x \in Triple /\ x[1] = n /\ x[2] = x[3]  BY DEF Triple
<1>2. answers \in Seq(Triple) /\ k \in Nat  BY AnswersAt DEF AnswerInv
<1>3. /\ answers' \in Seq(Triple) /\ Len(answers') = k + 1 /\ answers'[k + 1] = x
      /\ \A i \in 1..k : answers'[i] = answers[i]
  BY <1>1, <1>2, AppendAt
<1>4. \A i \in 1..k : answers[i][1] # n /\ answers[i][1] \in Int  BY AnswersAt DEF Unwritten
<1> HIDE DEF x, k
<1>5. \A i \in 1..(k + 1) : i \in 1..k \/ i = k + 1  BY <1>2
<1>6. ASSUME NEW i \in 1..(k + 1) PROVE answers'[i][1] <= Received' /\ answers'[i][2] = answers'[i][3]
  <2>1. CASE i \in 1..k
    <3>1. answers[i][1] <= Received /\ answers[i][2] = answers[i][3]  BY <2>1 DEF AnswerInv, k
    <3>. QED  BY <1>3, <1>4, <2>1, <3>1
  <2>2. CASE i = k + 1  BY <1>1, <1>3, <2>2
  <2>. QED  BY <1>5, <2>1, <2>2
<1>7. ASSUME NEW i \in 1..(k + 1), NEW j \in 1..(k + 1), answers'[i][1] = answers'[j][1] PROVE i = j
  <2>1. CASE i \in 1..k /\ j \in 1..k  BY <1>3, <1>7, <2>1 DEF AnswerInv, k
  <2>2. CASE i = k + 1 /\ j \in 1..k  BY <1>1, <1>3, <1>4, <1>7, <2>2
  <2>3. CASE j = k + 1 /\ i \in 1..k  BY <1>1, <1>3, <1>4, <1>7, <2>3
  <2>. QED  BY <1>5, <2>1, <2>2, <2>3
<1>8. AnswerInv'  BY <1>3, <1>6, <1>7 DEF AnswerInv
<1>9. ASSUME NEW m, m # n, Unwritten(m) PROVE Unwritten(m)'
  <2>1. ASSUME NEW i \in 1..(k + 1) PROVE answers'[i][1] # m
    <3>1. CASE i \in 1..k  BY <1>3, <1>9, <3>1 DEF Unwritten, k
    <3>2. CASE i = k + 1  BY <1>1, <1>3, <1>9, <3>2
    <3>. QED  BY <1>5, <3>1, <3>2
  <2>. QED  BY <1>3, <2>1 DEF Unwritten
<1>. QED  BY <1>8, <1>9

\* The response taken next has not been written.
LEMMA NextUnwritten ==
    ASSUME AnswerInv, IsServer, Received \in Int PROVE \A n \in Int : n > Received => Unwritten(n)
<1>1. ASSUME NEW n \in Int, n > Received, NEW i \in 1..Len(answers) PROVE answers[i][1] # n
  BY <1>1, AnswersAt DEF AnswerInv
<1>. QED  BY <1>1 DEF Unwritten

\* Responses kept for later, while others may be dropped.
LEMMA RoutedStay ==
    ASSUME RoutedInv, UNCHANGED <<kind, answers>>, pending_responses' \subseteq pending_responses,
           Received \in Int, Received' \in Int, Received <= Received',
           \A e \in pending_responses' : e[1] \in DOMAIN connections => e[1] \in DOMAIN connections'
    PROVE  RoutedInv'
<1>1. SUFFICES ASSUME IsServer, kind.routed, NEW e \in pending_responses'
               PROVE  /\ e \in Triple /\ e[1] \in DOMAIN connections' /\ e[3] = e[1] + 1
                      /\ e[2] <= Received' /\ Unwritten(e[2])'
                      /\ \A f \in pending_responses' : e[2] = f[2] => e = f
  BY DEF RoutedInv, IsServer
<1>2. /\ e \in Triple /\ e[1] \in DOMAIN connections /\ e[3] = e[1] + 1
      /\ e[2] <= Received /\ Unwritten(e[2])
      /\ \A f \in pending_responses : e[2] = f[2] => e = f
  BY <1>1 DEF RoutedInv
<1>3. e[2] \in Int  BY <1>2, TripleParts
<1>4. e[2] <= Received'  BY <1>2, <1>3
<1>5. Unwritten(e[2])'  BY <1>2 DEF Unwritten
<1>. QED  BY <1>1, <1>2, <1>4, <1>5


-----------------------------------------------------------------------------
(* The servers but HTTPServer.                                             *)

SocketInv == RespInv /\ ConnInv /\ AnswerInv /\ RoutedInv

\* How many responses were taken is a number.
LEMMA ReceivedIs == ASSUME RespInv, IsServer PROVE Received \in Int /\ Received \in Nat
<1>1. inq[1] \in Seq(Int) /\ sent[1] \in Nat /\ Len(inq[1]) <= sent[1]  BY DEF RespInv, Numbered, InPorts
<1>2. Len(inq[1]) \in Nat  BY <1>1
<1>. QED  BY <1>1, <1>2 DEF Received

\* A step that takes no response and writes none.
LEMMA SocketStays ==
    ASSUME SocketInv, IsServer, UNCHANGED <<kind, inq, sent, open, answers>>, ConnInv',
           pending_responses' \subseteq pending_responses,
           kind.routed => \A e \in pending_responses' :
                             e[1] \in DOMAIN connections => e[1] \in DOMAIN connections'
    PROVE  SocketInv'
<1>1. RespInv' /\ Received' = Received  BY ResponsesStay DEF SocketInv
<1>2. Received \in Int /\ Received <= Received'  BY <1>1, ReceivedIs DEF SocketInv
<1>3. AnswerInv'  BY <1>1, <1>2, AnswersStay DEF SocketInv
<1>4. RoutedInv'
  <2>1. CASE kind.routed  BY <1>1, <1>2, <2>1, RoutedStay DEF SocketInv
  <2>2. CASE ~kind.routed  BY <2>2 DEF RoutedInv
  <2>. QED  BY <2>1, <2>2
<1>. QED  BY <1>1, <1>3, <1>4 DEF SocketInv

\* The neighbours.
LEMMA NeighboursSocket ==
    ASSUME SocketInv, IsServer, Neighbours, UNCHANGED serverVars PROVE SocketInv'
<1>1. UNCHANGED <<kind, connections, ids, pending_responses, answers>>
  BY NeighboursCall DEF serverVars
<1>2. ConnInv'  BY <1>1, ConnStays DEF SocketInv
<1>3. CASE Feed
  <2>1. RespInv' /\ Received' = Received /\ Received \in Int  BY <1>3, ResponseFeeds, ReceivedIs DEF SocketInv
  <2>2. AnswerInv' /\ RoutedInv'  BY <1>1, <2>1, AnswersStay, RoutedStay DEF SocketInv
  <2>. QED  BY <1>2, <2>1, <2>2 DEF SocketInv
<1>4. CASE Close
  <2>1. RespInv' /\ Received' = Received /\ Received \in Int
    <3>1. open' \subseteq open /\ UNCHANGED <<kind, sent, inq>>  BY <1>4 DEF Close
    <3>. QED  BY <3>1, ResponsesStay, ReceivedIs DEF SocketInv
  <2>2. AnswerInv' /\ RoutedInv'  BY <1>1, <2>1, AnswersStay, RoutedStay DEF SocketInv
  <2>. QED  BY <1>2, <2>1, <2>2 DEF SocketInv
<1>5. CASE Configure \/ Drain \/ TimerFires
  <2>1. UNCHANGED <<inq, sent, open>>  BY <1>5 DEF Configure, Drain, TimerFires, edges
  <2>. QED  BY <1>1, <1>2, <2>1, SocketStays
<1>. QED  BY <1>3, <1>4, <1>5 DEF Neighbours

\* The steps before the responses.
LEMMA ReadsSocket ==
    ASSUME SocketInv, IsServer, PortInv,
           (Activate /\ UNCHANGED serverVars) \/ Listen \/ FlushOutbound \/ Accept \/ Handshake \/ ReadClient
           \/ ReadDone
    PROVE  SocketInv'
<1>1. ASSUME UNCHANGED <<kind, inq, sent, open, connections, ids, pending_responses, answers>> PROVE SocketInv'
  BY <1>1, ConnStays, SocketStays DEF SocketInv
<1>2. CASE (Activate /\ UNCHANGED serverVars) \/ Listen \/ FlushOutbound
  BY <1>1, <1>2 DEF Activate, Listen, FlushOutbound, serverVars, edges
<1>3. CASE Accept
  <2>1. UNCHANGED <<kind, inq, sent, open, pending_responses, answers>>  BY <1>3 DEF Accept, edges
  <2>2. CASE UNCHANGED <<connections, ids>>  BY <1>1, <2>1, <2>2
  <2>3. CASE /\ ids' = Append(ids, NextClientId)
             /\ connections' = [id \in DOMAIN connections \cup {NextClientId} |->
                    IF id = NextClientId
                    THEN [client |-> Len(ids) + 1, hs |-> kind.handshake, req |-> 0, resp |-> 0]
                    ELSE connections[id]]
    <3>1. ConnInv' /\ DOMAIN connections \subseteq DOMAIN connections'  BY <2>1, <2>3, Accepted DEF SocketInv
    <3>. QED  BY <2>1, <3>1, SocketStays
  <2>. QED  BY <1>3, <2>2, <2>3 DEF Accept
<1>4. ASSUME NEW id \in DOMAIN connections, NEW h \in States,
             connections' = [connections EXCEPT ![id].hs = h],
             UNCHANGED <<kind, inq, sent, open, ids, pending_responses, answers>>
      PROVE  SocketInv'
  <2>1. ConnInv' /\ DOMAIN connections' = DOMAIN connections  BY <1>4, StateSet DEF SocketInv
  <2>. QED  BY <1>4, <2>1, SocketStays
<1>5. CASE Handshake
  <2>1. UNCHANGED <<kind, inq, sent, open, ids, pending_responses, answers>>  BY <1>5 DEF Handshake, edges
  <2>2. PICK id \in DOMAIN connections, h \in {"ok", "failed"} :
             connections' = [connections EXCEPT ![id].hs = h]
    BY <1>5 DEF Handshake
  <2>. QED  BY <1>4, <2>1, <2>2 DEF States
<1>6. CASE ReadClient
  <2>1. UNCHANGED <<kind, inq, sent, open, ids, pending_responses, answers>>  BY <1>6 DEF ReadClient
  <2>2. PICK id \in todo : \/ UNCHANGED connections
                           \/ /\ connections[id].hs = "ok"
                              /\ connections' = [connections EXCEPT ![id].hs = "active"]
    BY <1>6 DEF ReadClient
  <2>3. CASE UNCHANGED connections  BY <1>1, <2>1, <2>3
  <2>4. CASE connections' = [connections EXCEPT ![id].hs = "active"] /\ id \in DOMAIN connections
    BY <1>4, <2>1, <2>4 DEF States
  <2>5. CASE connections' = [connections EXCEPT ![id].hs = "active"] /\ id \notin DOMAIN connections
    <3>1. connections' = connections  BY <2>5 DEF SocketInv, ConnInv
    <3>. QED  BY <1>1, <2>1, <3>1
  <2>. QED  BY <2>2, <2>3, <2>4, <2>5
<1>7. CASE ReadDone
  <2>1. UNCHANGED <<kind, inq, sent, open, ids, pending_responses, answers>>  BY <1>7 DEF ReadDone, edges
  <2>2. CASE kind.routed  BY <1>1, <1>7, <2>1, <2>2 DEF ReadDone
  <2>3. CASE ~kind.routed
    <3>1. connections' = Without(connections, SeqExt!ToSet(removing))  BY <1>7, <2>3 DEF ReadDone
    <3>2. ConnInv'  BY <2>1, <3>1, Dropped DEF SocketInv
    <3>. QED  BY <2>1, <2>3, <3>2, SocketStays
  <2>. QED  BY <2>2, <2>3
<1>. QED  BY <1>2, <1>3, <1>5, <1>6, <1>7


\* A response kept, for a client that is there, in place of an older one.
LEMMA RoutedKept ==
    ASSUME RoutedInv, IsServer, UNCHANGED <<kind, connections, answers>>, AnswerInv,
           NEW id \in DOMAIN connections, id \in Int, NEW c, c = id + 1, NEW n \in Int, n = Received + 1,
           pending_responses' = {e \in pending_responses : e[1] # id} \cup {<<id, n, c>>},
           Received \in Int, Received' = Received + 1
    PROVE  RoutedInv'
<1>1. SUFFICES ASSUME kind.routed, NEW e \in pending_responses'
               PROVE  /\ e \in Triple /\ e[1] \in DOMAIN connections /\ e[3] = e[1] + 1
                      /\ e[2] <= Received' /\ Unwritten(e[2])
                      /\ \A f \in pending_responses' : e[2] = f[2] => e = f
  BY DEF RoutedInv, IsServer, Unwritten
<1> DEFINE x == <<id, n, c>>
<1>2. x \in Triple /\ x[1] = id /\ x[2] = n /\ x[3] = c  BY DEF Triple
<1>3. Unwritten(n)  BY NextUnwritten
<1> HIDE DEF x
<1>4. \A f \in pending_responses' : f \in pending_responses \/ f = x  BY DEF x
<1>5. \A f \in pending_responses : f[2] \in Int /\ f[2] <= Received
  BY <1>1, TripleParts DEF RoutedInv
<1>6. CASE e = x  BY <1>2, <1>3, <1>4, <1>5, <1>6
<1>7. CASE e \in pending_responses
  <2>1. /\ e \in Triple /\ e[1] \in DOMAIN connections /\ e[3] = e[1] + 1
        /\ e[2] <= Received /\ Unwritten(e[2])
        /\ \A f \in pending_responses : e[2] = f[2] => e = f
    BY <1>1, <1>7 DEF RoutedInv
  <2>2. e[2] <= Received' /\ e[2] # n  BY <1>5, <1>7
  <2>3. \A f \in pending_responses' : e[2] = f[2] => e = f  BY <1>2, <1>4, <2>1, <2>2
  <2>. QED  BY <2>1, <2>2, <2>3
<1>. QED  BY <1>4, <1>6, <1>7

\* One of them, or a new one, is written.
LEMMA RoutedWritten ==
    ASSUME RoutedInv, IsServer, UNCHANGED <<kind, connections>>, NEW n,
           \A m : m # n /\ Unwritten(m) => Unwritten(m)',
           pending_responses' \subseteq pending_responses, \A e \in pending_responses' : e[2] # n,
           Received \in Int, Received' \in Int, Received <= Received'
    PROVE  RoutedInv'
<1>1. SUFFICES ASSUME kind.routed, NEW e \in pending_responses'
               PROVE  /\ e \in Triple /\ e[1] \in DOMAIN connections /\ e[3] = e[1] + 1
                      /\ e[2] <= Received' /\ Unwritten(e[2])'
                      /\ \A f \in pending_responses' : e[2] = f[2] => e = f
  BY DEF RoutedInv, IsServer
<1>2. /\ e \in Triple /\ e[1] \in DOMAIN connections /\ e[3] = e[1] + 1
      /\ e[2] <= Received /\ Unwritten(e[2])
      /\ \A f \in pending_responses : e[2] = f[2] => e = f
  BY <1>1 DEF RoutedInv
<1>3. e[2] <= Received'  BY <1>2, TripleParts
<1>4. Unwritten(e[2])'  BY <1>2
<1>. QED  BY <1>2, <1>3, <1>4

\* TCP and Unix sockets take a response.
LEMMA RouteSocket == ASSUME SocketInv, RouteResponse PROVE SocketInv'
<1>1. IsServer /\ kind.routed /\ UNCHANGED <<kind, sent, open, connections, ids>>  BY DEF RouteResponse
<1>2. ConnInv'  BY <1>1, ConnStays DEF SocketInv
<1>3. CASE UNCHANGED <<inq, pending_responses, answers>>  BY <1>1, <1>2, <1>3, SocketStays
<1>4. CASE inq[1] # <<>> /\ Pop(1)
  <2>1. /\ RespInv' /\ Response = Received + 1 /\ Received' = Received + 1 /\ Received \in Int
    BY <1>1, <1>4, ResponsePops, ReceivedIs DEF SocketInv, Response
  <2>2. CASE UNCHANGED <<pending_responses, answers>>
    <3>1. AnswerInv' /\ RoutedInv'  BY <1>1, <2>1, <2>2, AnswersStay, RoutedStay DEF SocketInv
    <3>. QED  BY <1>2, <2>1, <3>1 DEF SocketInv
  <2>3. ASSUME NEW c \in 1..Len(ids), ids[c] \in DOMAIN connections,
               \/ Write(Response, c, ids[c]) /\ UNCHANGED pending_responses
               \/ /\ pending_responses' = {e \in pending_responses : e[1] # ids[c]}
                                              \cup {<<ids[c], Response, c>>}
                  /\ UNCHANGED answers
        PROVE  SocketInv'
    <3> DEFINE id == ids[c]  n == Received + 1
    <3>1. id = c - 1 /\ connections[id].client = id + 1 /\ c \in Int
      BY <1>1, <2>3 DEF SocketInv, ConnInv
    <3>2. id \in Int /\ c = id + 1 /\ connections[id].client = c /\ n \in Int  BY <2>1, <3>1
    <3>3. Response = n /\ id \in DOMAIN connections  BY <2>1, <2>3
    <3> HIDE DEF id, n
    <3>4. CASE Write(Response, c, id) /\ UNCHANGED pending_responses
      <4>1. answers' = Append(answers, <<n, c, connections[id].client>>)  BY <3>3, <3>4 DEF Write
      <4>2. Unwritten(n)  BY <1>1, <2>1, <3>2, NextUnwritten DEF SocketInv, n
      <4>3. AnswerInv' /\ \A m : m # n /\ Unwritten(m) => Unwritten(m)'
        <5>1. Received <= Received' /\ Received' \in Int /\ n <= Received'  BY <2>1 DEF n
        <5>. QED  BY <1>1, <2>1, <3>1, <3>2, <4>1, <4>2, <5>1, AnswerWritten DEF SocketInv
      <4>4. \A e \in pending_responses' : e[2] # n
        BY <1>1, <2>1, <3>4, TripleParts DEF SocketInv, RoutedInv, n
      <4>5. RoutedInv'
        <5>1. Received <= Received' /\ Received' \in Int  BY <2>1
        <5>. QED  BY <1>1, <2>1, <3>4, <4>3, <4>4, <5>1, RoutedWritten DEF SocketInv
      <4>. QED  BY <1>2, <2>1, <4>3, <4>5 DEF SocketInv
    <3>5. CASE /\ pending_responses' = {e \in pending_responses : e[1] # id} \cup {<<id, Response, c>>}
               /\ UNCHANGED answers
      <4>1. AnswerInv'  BY <2>1, <1>1, <3>5, AnswersStay DEF SocketInv
      <4>2. RoutedInv'  BY <1>1, <2>1, <3>2, <3>3, <3>5, RoutedKept DEF SocketInv, n
      <4>. QED  BY <1>2, <2>1, <4>1, <4>2 DEF SocketInv
    <3>. QED  BY <2>3, <3>4, <3>5 DEF id
  <2>4. \/ UNCHANGED <<pending_responses, answers>>
        \/ \E c \in 1..Len(ids) :
              /\ ids[c] \in DOMAIN connections
              /\ \/ Write(Response, c, ids[c]) /\ UNCHANGED pending_responses
                 \/ /\ pending_responses' = {e \in pending_responses : e[1] # ids[c]}
                                                \cup {<<ids[c], Response, c>>}
                    /\ UNCHANGED answers
    BY <1>4 DEF RouteResponse, WriteFails
  <2>. QED  BY <2>2, <2>3, <2>4
<1>. QED  BY <1>3, <1>4 DEF RouteResponse

\* They try again what they kept.
LEMMA RetrySocket == ASSUME SocketInv, RetryResponse, kind.routed PROVE SocketInv'
<1>1. IsServer /\ UNCHANGED <<kind, inq, sent, open, connections, ids>>  BY DEF RetryResponse, edges
<1>2. ConnInv'  BY <1>1, ConnStays DEF SocketInv
<1>3. RespInv' /\ Received' = Received /\ Received \in Int
  BY <1>1, ResponsesStay, ReceivedIs DEF SocketInv
<1>4. CASE UNCHANGED answers /\ pending_responses' \subseteq pending_responses
  BY <1>1, <1>2, <1>4, SocketStays
<1>5. ASSUME NEW e \in pending_responses, Write(e[2], e[3], e[1]),
             pending_responses' = pending_responses \ {e}
      PROVE  SocketInv'
  <2>1. /\ e \in Triple /\ e[1] \in DOMAIN connections /\ e[3] = e[1] + 1
        /\ e[2] <= Received /\ Unwritten(e[2])
        /\ \A f \in pending_responses : e[2] = f[2] => e = f
    BY <1>1, <1>5 DEF SocketInv, RoutedInv
  <2>2. e[2] \in Int /\ e[3] \in Int /\ connections[e[1]].client = e[3]
    BY <1>1, <2>1, TripleParts DEF SocketInv, ConnInv
  <2>3. answers' = Append(answers, <<e[2], e[3], connections[e[1]].client>>)  BY <1>5 DEF Write
  <2>4. Received <= Received' /\ Received' \in Int /\ e[2] <= Received'  BY <1>3, <2>1
  <2>5. AnswerInv' /\ \A m : m # e[2] /\ Unwritten(m) => Unwritten(m)'
    BY <1>1, <1>3, <2>1, <2>2, <2>3, <2>4, AnswerWritten DEF SocketInv
  <2>6. \A f \in pending_responses' : f[2] # e[2]  BY <1>5, <2>1
  <2>7. RoutedInv'  BY <1>1, <1>3, <1>5, <2>4, <2>5, <2>6, RoutedWritten DEF SocketInv
  <2>. QED  BY <1>2, <1>3, <2>5, <2>7 DEF SocketInv
<1>6. \/ UNCHANGED answers /\ pending_responses' \subseteq pending_responses
      \/ \E e \in pending_responses : /\ Write(e[2], e[3], e[1])
                                      /\ pending_responses' = pending_responses \ {e}
  BY DEF RetryResponse, WriteFails
<1>. QED  BY <1>4, <1>5, <1>6

\* WebSocket and TLS send a response to some connection.
LEMMA SendSocket == ASSUME SocketInv, PortInv, SendResponse \/ QueueResponse PROVE SocketInv'
<1>1. IsServer /\ UNCHANGED <<kind, sent, open, connections, ids>>  BY DEF SendResponse, QueueResponse
<1>2. ConnInv'  BY <1>1, ConnStays DEF SocketInv
<1>3. ~kind.routed
  <2>1. kind.queued => ~kind.routed  BY <1>1, ServersAre
  <2>. QED  BY <2>1 DEF SendResponse, QueueResponse
<1>4. RoutedInv'  BY <1>1, <1>3 DEF RoutedInv
<1>5. CASE UNCHANGED <<inq, answers>>
  <2>1. RespInv' /\ Received' = Received /\ Received \in Int
    BY <1>1, <1>5, ResponsesStay, ReceivedIs DEF SocketInv
  <2>2. AnswerInv'  BY <1>1, <1>5, <2>1, AnswersStay DEF SocketInv
  <2>. QED  BY <1>2, <1>4, <2>1, <2>2 DEF SocketInv
<1>6. CASE inq[1] # <<>> /\ Pop(1)
  <2>1. /\ RespInv' /\ Response = Received + 1 /\ Received' = Received + 1 /\ Received \in Int
    BY <1>1, <1>6, ResponsePops, ReceivedIs DEF SocketInv, Response
  <2>2. CASE UNCHANGED answers
    <3>1. AnswerInv'  BY <1>1, <2>1, <2>2, AnswersStay DEF SocketInv
    <3>. QED  BY <1>2, <1>4, <2>1, <3>1 DEF SocketInv
  <2>3. ASSUME NEW id \in DOMAIN connections, Write(Response, connections[id].client, id)
        PROVE  SocketInv'
    <3> DEFINE n == Received + 1  c == connections[id].client
    <3>1. c \in Int /\ n \in Int /\ n <= Received' /\ Received <= Received' /\ Received' \in Int
      BY <1>1, <2>1 DEF SocketInv, ConnInv, Conn
    <3>2. answers' = Append(answers, <<n, c, c>>)  BY <2>1, <2>3 DEF Write
    <3>3. Unwritten(n)  BY <1>1, <2>1, NextUnwritten DEF SocketInv
    <3> HIDE DEF n, c
    <3>4. AnswerInv'  BY <1>1, <2>1, <3>1, <3>2, <3>3, AnswerWritten DEF SocketInv
    <3>. QED  BY <1>2, <1>4, <2>1, <3>4 DEF SocketInv
  <2>. QED  BY <1>6, <2>2, <2>3 DEF SendResponse, QueueResponse
<1>7. CASE SendResponse  BY <1>5, <1>6, <1>7 DEF SendResponse
<1>8. CASE QueueResponse
  <2>1. UNCHANGED answers /\ (UNCHANGED inq \/ (inq[1] # <<>> /\ Pop(1)))  BY <1>8 DEF QueueResponse, Pop
  <2>. QED  BY <1>5, <1>6, <2>1
<1>. QED  BY <1>7, <1>8

\* What was written in part went to the client it is for.
TornInv == IsServer => \A t \in torn : t[2] = t[3]

\* A write that fails, to the client the response is for.
LEMMA TornRight ==
    ASSUME TornInv, UNCHANGED kind, NEW m, NEW c, NEW id, WriteFails(m, c, id),
           connections[id].client = c
    PROVE  TornInv'
<1>1. ASSUME NEW t \in torn', IsServer PROVE t[2] = t[3]
  <2>1. t \in torn \/ t = <<m, c, c>>  BY <1>1 DEF WriteFails
  <2>. QED  BY <1>1, <2>1 DEF TornInv
<1>. QED  BY <1>1 DEF TornInv, IsServer

\* TCP and Unix sockets write to the client their response names.
LEMMA TornRoute == ASSUME SocketInv, TornInv, RouteResponse PROVE TornInv'
<1>1. IsServer /\ UNCHANGED kind  BY DEF RouteResponse
<1>2. CASE UNCHANGED torn  BY <1>1, <1>2 DEF TornInv, IsServer
<1>3. ASSUME NEW c \in 1..Len(ids), ids[c] \in DOMAIN connections, WriteFails(Response, c, ids[c])
      PROVE  TornInv'
  <2>1. ids[c] = c - 1 /\ connections[ids[c]].client = ids[c] + 1 /\ c \in Int
    BY <1>1, <1>3 DEF SocketInv, ConnInv
  <2>2. connections[ids[c]].client = c  BY <2>1
  <2>. QED  BY <1>1, <1>3, <2>2, TornRight
<1>4. \/ UNCHANGED torn
      \/ \E c \in 1..Len(ids) :
             ids[c] \in DOMAIN connections /\ WriteFails(Response, c, ids[c])
  BY DEF RouteResponse, Write
<1>. QED  BY <1>2, <1>3, <1>4

\* And so they do when they try again.
LEMMA TornRetry == ASSUME SocketInv, TornInv, RetryResponse, kind.routed PROVE TornInv'
<1>1. IsServer /\ UNCHANGED kind  BY DEF RetryResponse
<1>2. CASE UNCHANGED torn  BY <1>1, <1>2 DEF TornInv, IsServer
<1>3. ASSUME NEW e \in pending_responses, e[1] \in DOMAIN connections, WriteFails(e[2], e[3], e[1])
      PROVE  TornInv'
  <2>1. connections[e[1]].client = e[3]  BY <1>1, <1>3 DEF SocketInv, ConnInv, RoutedInv
  <2>. QED  BY <1>1, <1>3, <2>1, TornRight
<1>4. \/ UNCHANGED torn
      \/ \E e \in pending_responses :
             e[1] \in DOMAIN connections /\ WriteFails(e[2], e[3], e[1])
  BY DEF RetryResponse, Write
<1>. QED  BY <1>2, <1>3, <1>4

\* The end of a call: broken connections are dropped with what was kept for them.
LEMMA EndSocket == ASSUME SocketInv, EndServer PROVE SocketInv'
<1>1. IsServer /\ UNCHANGED <<kind, inq, sent, open, ids, answers>>  BY DEF EndServer, edges
<1> DEFINE gone == SeqExt!ToSet(removing)
<1>2. connections' = Without(connections, gone)  BY DEF EndServer
<1>3. pending_responses' = IF kind.routed THEN {e \in pending_responses : e[1] \notin gone}
                           ELSE pending_responses
  BY DEF EndServer
<1> HIDE DEF gone
<1>4. ConnInv' /\ DOMAIN connections' = DOMAIN connections \ gone  BY <1>1, <1>2, Dropped DEF SocketInv
<1>. QED  BY <1>1, <1>3, <1>4, SocketStays


-----------------------------------------------------------------------------
(* What was sent over the first out-edge.                                  *)

TripleEdges ==
    outq \in [OutPorts -> Seq(Triple)] /\ delivered \in [OutPorts -> Seq(Triple)]

\* A push adds to it.
LEMMA SentPush ==
    ASSUME TripleEdges, NEW x \in Triple, Push(1, x), UNCHANGED delivered
    PROVE  TripleEdges' /\ OutOf(1) \in Seq(Triple) /\ OutOf(1)' = Append(OutOf(1), x)
<1> DEFINE d == delivered[1]  o == outq[1]
<1>1. d \in Seq(Triple) /\ o \in Seq(Triple) /\ 1 \in OutPorts  BY DEF TripleEdges, OutPorts
<1>2. outq' = [r \in OutPorts |-> IF r = 1 THEN Append(o, x) ELSE outq[r]]
  BY DEF TripleEdges, Push
<1>3. OutOf(1) = d \o o /\ OutOf(1)' = d \o Append(o, x)  BY <1>1, <1>2 DEF OutOf
<1>4. Append(o, x) \in Seq(Triple)  BY <1>1, AppendAt
<1>5. TripleEdges'  BY <1>2, <1>4 DEF TripleEdges
<1> HIDE DEF d, o
<1> DEFINE s == d \o Append(o, x)  t == Append(d \o o, x)
<1>6. s \in Seq(Triple) /\ t \in Seq(Triple) /\ d \o o \in Seq(Triple)  BY <1>1
<1>7. Len(s) = Len(t)  BY <1>1
<1>8. \A i \in 1..Len(s) : s[i] = t[i]  BY <1>1
<1> HIDE DEF s, t
<1>9. s = t  BY <1>6, <1>7, <1>8, SeqEqual
<1>. QED  BY <1>3, <1>5, <1>6, <1>9 DEF s, t

\* What the graph takes of it stays where it is.
LEMMA SentDrain ==
    ASSUME TripleEdges, Drain
    PROVE  TripleEdges' /\ OutOf(1)' = OutOf(1) /\ Len(delivered[1]) <= Len(delivered'[1])
<1>1. \A r \in OutPorts : outq[r] \in Seq(Triple) /\ delivered[r] \in Seq(Triple)  BY DEF TripleEdges
<1>2. PICK q \in OutPorts : /\ outq[q] # <<>> /\ outq' = [outq EXCEPT ![q] = Tail(outq[q])]
                            /\ delivered' = [delivered EXCEPT ![q] = Append(delivered[q], Head(outq[q]))]
  BY DEF Drain, TripleEdges
<1>3. Tail(outq[q]) \in Seq(Triple) /\ Append(delivered[q], Head(outq[q])) \in Seq(Triple)
  BY <1>1, <1>2, HeadTailProperties, AppendProperties
<1>4. /\ outq' = [r \in OutPorts |-> IF r = q THEN Tail(outq[q]) ELSE outq[r]]
      /\ delivered' = [r \in OutPorts |-> IF r = q THEN Append(delivered[q], Head(outq[q])) ELSE delivered[r]]
  BY <1>2 DEF TripleEdges
<1>5. TripleEdges'
  <2>1. outq' \in [OutPorts -> Seq(Triple)] /\ delivered' \in [OutPorts -> Seq(Triple)]
    BY <1>1, <1>3, <1>4
  <2>. QED  BY <2>1 DEF TripleEdges
<1>6. 1 \in OutPorts  BY DEF OutPorts
<1>7. CASE q = 1
  <2> DEFINE d == delivered[1]  o == outq[1]
  <2>1. d \in Seq(Triple) /\ o \in Seq(Triple) /\ o # <<>>  BY <1>1, <1>2, <1>6, <1>7
  <2>2. /\ OutOf(1) = d \o o /\ OutOf(1)' = Append(d, Head(o)) \o Tail(o)
        /\ delivered'[1] = Append(d, Head(o))
    BY <1>4, <1>6, <1>7 DEF OutOf
  <2> HIDE DEF d, o
  <2> DEFINE s == Append(d, Head(o)) \o Tail(o)  t == d \o o
  <2>3. s \in Seq(Triple) /\ t \in Seq(Triple)  BY <2>1
  <2>4. Len(s) = Len(t)  BY <2>1
  <2>5. \A i \in 1..Len(s) : s[i] = t[i]  BY <2>1
  <2> HIDE DEF s, t
  <2>6. s = t  BY <2>3, <2>4, <2>5, SeqEqual
  <2>7. Len(Append(d, Head(o))) = Len(d) + 1 /\ Len(d) \in Nat  BY <2>1
  <2>8. Len(delivered'[1]) = Len(d) + 1  BY <2>2, <2>7
  <2>9. Len(d) <= Len(delivered'[1])  BY <2>7, <2>8
  <2>. QED  BY <1>5, <2>2, <2>6, <2>9 DEF s, t, d
<1>8. CASE q # 1
  <2>1. outq'[1] = outq[1] /\ delivered'[1] = delivered[1]  BY <1>4, <1>6, <1>8
  <2>2. OutOf(1)' = OutOf(1)  BY <2>1 DEF OutOf
  <2>3. Len(delivered[1]) \in Nat  BY <1>1, <1>6
  <2>. QED  BY <1>5, <2>1, <2>2, <2>3
<1>. QED  BY <1>7, <1>8

-----------------------------------------------------------------------------
(* HTTPServer: the requests the graph was given, and what each of them,    *)
(* each response and each connection stands for.                           *)

\* The requests sent on REQ, in order.
Asked == OutOf(1)

\* Connections to be removed.
Removing == {removing[i] : i \in 1..Len(removing)}

\* Request r was not given to the graph.
Refused(r) == \A k \in 1..Len(Asked) : Asked[k][2] # r

\* Request r was read and is no longer going to be given to the graph.
Settled(r) == r < fetched /\ \A i \in 1..Len(pending_requests) : pending_requests[i][1] # r

\* Nobody but client c asked request r.
AskedBy(r, c) == \A k \in 1..Len(Asked) : Asked[k][2] = r => Asked[k][3] = c

\* Response n is the one to request r, and nobody has it yet.
IsFor(n, r) == n \in 1..Received /\ Asked[n][2] = r /\ Unwritten(n)

\* What a connection that waits or writes has.
Waits(id) ==
    LET c == connections[id] IN
    /\ c.hs \in {"pending", "writing"} => Settled(c.req) /\ AskedBy(c.req, c.client)
    /\ c.hs = "writing" => IF c.resp = 0 THEN Refused(c.req) ELSE IsFor(c.resp, c.req)

\* What an entry of pending_responses is.
Responds(e) ==
    /\ e \in Triple /\ e[3] = 1
    /\ IF e[2] = 0 THEN Refused(e[1]) /\ Settled(e[1]) ELSE IsFor(e[2], e[1])

\* What an entry of pending_requests is.
Queued(i) ==
    LET request == pending_requests[i][1]
        id == pending_requests[i][2]
    IN /\ request < fetched /\ Refused(request)
       /\ id \in DOMAIN connections /\ connections[id].hs = "processing"

DataInv ==
    /\ fetched \in Nat /\ held = <<>> /\ removing \in Seq(Int)
    /\ pending_requests \in Seq(Int \X Int \X BOOLEAN) /\ response_wait_queue \in Seq(Int)
    /\ outq \in [OutPorts -> Seq(Triple)] /\ delivered \in [OutPorts -> Seq(Triple)]
    /\ sent[1] <= Len(delivered[1])
    /\ \A id \in DOMAIN connections : connections[id].hs # "shaking"

QueueInv ==
    /\ Len(response_wait_queue) = Len(Asked) - Received
    /\ \A i \in 1..Len(response_wait_queue) : response_wait_queue[i] = Asked[Received + i][2]

RequestInv ==
    /\ \A j, k \in 1..Len(Asked) : Asked[j][2] = Asked[k][2] => j = k
    /\ \A k \in 1..Len(Asked) : Asked[k][2] < fetched
    /\ \A i \in 1..Len(pending_requests) : Queued(i)
    /\ \A i, j \in 1..Len(pending_requests) :
           \/ pending_requests[i][1] = pending_requests[j][1]
           \/ pending_requests[i][2] = pending_requests[j][2]
           => i = j

WaitInv == \A id \in DOMAIN connections : Waits(id)

ResponseInv == \A e \in pending_responses : Responds(e)

\* A connection that writes response n.
Writer(id, n) == connections[id].hs = "writing" /\ connections[id].resp = n /\ n # 0

OneInv ==
    \A id \in DOMAIN connections : \A n \in Int :
        Writer(id, n) =>
            /\ \A e \in pending_responses : e[2] # n
            /\ \A other \in DOMAIN connections : Writer(other, n) => other = id

VisitInv ==
    /\ todo \subseteq DOMAIN connections
    /\ phase \notin {"serve", "parse"} => removing = <<>>
    /\ \A id \in Removing : /\ id \in DOMAIN connections /\ id \notin todo
                            /\ connections[id].hs \in {"reading", "writing", "keepalive"}

MatchInv == DataInv /\ QueueInv /\ RequestInv /\ WaitInv /\ ResponseInv /\ OneInv

HttpInv == kind = HTTPServer => MatchInv /\ VisitInv

\* The requests given to the graph, one by one.
LEMMA AskedIs ==
    ASSUME DataInv
    PROVE  /\ Asked \in Seq(Triple) /\ Len(Asked) \in Nat /\ Len(delivered[1]) \in Nat
           /\ Len(delivered[1]) <= Len(Asked)
           /\ \A k \in 1..Len(Asked) : Asked[k] \in Triple /\ Asked[k][2] \in Int /\ Asked[k][3] \in Int
           /\ \A k \in 1..Len(delivered[1]) : Asked[k] = delivered[1][k]
<1> DEFINE d == delivered[1]  o == outq[1]
<1>1. d \in Seq(Triple) /\ o \in Seq(Triple)  BY DEF DataInv, OutPorts
<1>2. Asked = d \o o  BY DEF Asked, OutOf
<1> HIDE DEF d, o
<1>3. /\ Asked \in Seq(Triple) /\ Len(Asked) = Len(d) + Len(o) /\ Len(d) \in Nat /\ Len(o) \in Nat
      /\ \A k \in 1..Len(d) : Asked[k] = d[k]
  BY <1>1, <1>2, ConcatProperties, LenProperties
<1>4. \A k \in 1..Len(Asked) : Asked[k] \in Triple  BY <1>3, ElementOfSeq
<1>. QED  BY <1>3, <1>4, TripleParts DEF d

\* A request pushed on REQ is the last one asked.
LEMMA AskedPush ==
    ASSUME DataInv, NEW x \in Triple, Push(1, x), UNCHANGED delivered
    PROVE  /\ outq' \in [OutPorts -> Seq(Triple)]
           /\ Len(Asked') = Len(Asked) + 1 /\ Asked'[Len(Asked) + 1] = x
           /\ \A k \in 1..Len(Asked) : Asked'[k] = Asked[k]
<1>1. TripleEdges  BY DEF DataInv, TripleEdges
<1>2. TripleEdges' /\ Asked \in Seq(Triple) /\ Asked' = Append(Asked, x)  BY <1>1, SentPush DEF Asked
<1>. QED  BY <1>2, AppendAt DEF TripleEdges

\* What the graph takes of them stays where it is.
LEMMA AskedDrain ==
    ASSUME DataInv, Drain
    PROVE  /\ Asked' = Asked /\ Len(delivered[1]) <= Len(delivered'[1])
           /\ outq' \in [OutPorts -> Seq(Triple)] /\ delivered' \in [OutPorts -> Seq(Triple)]
<1>1. TripleEdges  BY DEF DataInv, TripleEdges
<1>. QED  BY <1>1, SentDrain DEF Asked, TripleEdges

\* What a step keeps: what is settled and refused, whose a request is, and
\* the responses but the one it writes.
Preserves(w) ==
    /\ \A r \in Int : Settled(r) => /\ Settled(r)' /\ (Refused(r) => Refused(r)')
                                    /\ \A c \in Int : AskedBy(r, c) => AskedBy(r, c)'
    /\ \A n, r \in Int : n # w /\ IsFor(n, r) => IsFor(n, r)'

\* The parts of an entry of pending_requests.
LEMMA QueuedParts ==
    ASSUME DataInv
    PROVE  /\ Len(pending_requests) \in Nat
           /\ \A i \in 1..Len(pending_requests) :
                 /\ pending_requests[i] \in Int \X Int \X BOOLEAN /\ pending_requests[i][1] \in Int
                 /\ pending_requests[i][2] \in Int
<1>1. pending_requests \in Seq(Int \X Int \X BOOLEAN)  BY DEF DataInv
<1>2. \A i \in 1..Len(pending_requests) : pending_requests[i] \in Int \X Int \X BOOLEAN
  BY <1>1, ElementOfSeq
<1>. QED  BY <1>1, <1>2, LenProperties

\* A step that reads a request at most.
LEMMA KeepsReading ==
    ASSUME DataInv, SocketInv, IsServer, Asked' = Asked, UNCHANGED answers,
           Received' \in Int, Received <= Received', fetched' \in {fetched, fetched + 1},
           \/ UNCHANGED pending_requests
           \/ \E id \in Int, routed \in BOOLEAN :
                 pending_requests' = Append(pending_requests, <<fetched, id, routed>>)
    PROVE  Preserves(0)
<1>1. Received \in Nat /\ Received \in Int  BY ReceivedIs DEF SocketInv
<1>2. fetched \in Nat  BY DEF DataInv
<1>3. ASSUME NEW r \in Int, Settled(r) PROVE Settled(r)'
  <2>1. r < fetched'  BY <1>2, <1>3 DEF Settled
  <2>2. CASE UNCHANGED pending_requests  BY <1>3, <2>1, <2>2 DEF Settled
  <2>3. ASSUME NEW id \in Int, NEW routed \in BOOLEAN,
               pending_requests' = Append(pending_requests, <<fetched, id, routed>>)
        PROVE  Settled(r)'
    <3> DEFINE x == <<fetched, id, routed>>  k == Len(pending_requests)
    <3>1. x \in Int \X Int \X BOOLEAN /\ x[1] = fetched  BY <1>2
    <3>2. pending_requests \in Seq(Int \X Int \X BOOLEAN)  BY DEF DataInv
    <3>3. /\ k \in Nat /\ Len(pending_requests') = k + 1 /\ pending_requests'[k + 1] = x
          /\ \A i \in 1..k : pending_requests'[i] = pending_requests[i]
      BY <2>3, <3>1, <3>2, AppendAt
    <3>4. \A i \in 1..k : pending_requests[i][1] # r  BY <1>3 DEF Settled
    <3>5. r # fetched  BY <1>2, <1>3 DEF Settled
    <3> HIDE DEF x, k
    <3>6. ASSUME NEW i \in 1..(k + 1) PROVE pending_requests'[i][1] # r
      <4>1. CASE i \in 1..k  BY <3>3, <3>4, <4>1
      <4>2. CASE i = k + 1  BY <3>1, <3>3, <3>5, <4>2
      <4>. QED  BY <3>3, <4>1, <4>2
    <3>. QED  BY <2>1, <3>3, <3>6 DEF Settled
  <2>. QED  BY <2>2, <2>3
<1>4. \A r : Refused(r) => Refused(r)'  BY DEF Refused
<1>5. \A r, c : AskedBy(r, c) => AskedBy(r, c)'  BY DEF AskedBy
<1>6. ASSUME NEW n \in Int, NEW r, IsFor(n, r) PROVE IsFor(n, r)'
  <2>1. n \in 1..Received' /\ Unwritten(n)'  BY <1>1, <1>6 DEF IsFor, Unwritten
  <2>. QED  BY <1>6, <2>1 DEF IsFor
<1>. QED  BY <1>3, <1>4, <1>5, <1>6 DEF Preserves

\* A request leaves pending_requests, for the graph or refused.
LEMMA KeepsSending ==
    ASSUME DataInv, SocketInv, IsServer, UNCHANGED <<answers, fetched>>, Received' = Received,
           pending_requests # <<>>, pending_requests' = Tail(pending_requests),
           NEW x \in Triple, x[2] = pending_requests[1][1], Len(Asked') \in Nat,
           \/ Asked' = Asked
           \/ /\ Len(Asked') = Len(Asked) + 1 /\ Asked'[Len(Asked) + 1] = x
              /\ \A k \in 1..Len(Asked) : Asked'[k] = Asked[k]
    PROVE  Preserves(0)
<1>1. Received \in Nat /\ Received \in Int  BY ReceivedIs DEF SocketInv
<1>2. /\ Len(pending_requests) \in Nat \ {0} /\ Len(Tail(pending_requests)) = Len(pending_requests) - 1
      /\ \A i \in 1..Len(Tail(pending_requests)) :
            Tail(pending_requests)[i] = pending_requests[i + 1] /\ i + 1 \in 1..Len(pending_requests)
  <2>1. pending_requests \in Seq(Int \X Int \X BOOLEAN)  BY DEF DataInv
  <2>. QED  BY <2>1, TailAt
<1>3. \A r \in Int : Settled(r) => Settled(r)' /\ r # x[2]  BY <1>2 DEF Settled
<1>4. /\ Len(Asked) \in Nat /\ Len(delivered[1]) \in Nat /\ Len(delivered[1]) <= Len(Asked)
  BY AskedIs
<1>5. \A k \in 1..Len(Asked) : k \in 1..Len(Asked') /\ Asked'[k] = Asked[k]  BY <1>4
<1>6. \A k \in 1..Len(Asked') : k \in 1..Len(Asked) \/ Asked'[k] = x  BY <1>4
<1>7. ASSUME NEW r \in Int, Settled(r), Refused(r) PROVE Refused(r)'
  BY <1>3, <1>5, <1>6, <1>7 DEF Refused
<1>8. ASSUME NEW r \in Int, NEW c, Settled(r), AskedBy(r, c) PROVE AskedBy(r, c)'
  BY <1>3, <1>5, <1>6, <1>8 DEF AskedBy
<1>9. ASSUME NEW n \in Int, NEW r, IsFor(n, r) PROVE IsFor(n, r)'
  <2>1. n \in 1..Len(Asked)
    <3>1. sent[1] <= Len(delivered[1]) /\ Received <= sent[1] /\ sent[1] \in Nat
      <4>1. inq[1] \in Seq(Int) /\ sent[1] \in Nat  BY DEF SocketInv, RespInv, InPorts
      <4>2. Len(inq[1]) \in Nat  BY <4>1
      <4>. QED  BY <4>1, <4>2 DEF DataInv, Received
    <3>. QED  BY <1>1, <1>4, <1>9, <3>1 DEF IsFor
  <2>2. Asked'[n] = Asked[n] /\ Unwritten(n)'  BY <1>5, <1>9, <2>1 DEF IsFor, Unwritten
  <2>. QED  BY <1>9, <2>2 DEF IsFor
<1>. QED  BY <1>3, <1>7, <1>8, <1>9 DEF Preserves

\* Response w is written.
LEMMA KeepsWriting ==
    ASSUME UNCHANGED <<fetched, pending_requests>>, Asked' = Asked, Received' = Received, NEW w,
           \A m : m # w /\ Unwritten(m) => Unwritten(m)'
    PROVE  Preserves(w)
<1>1. \A r : Settled(r) => Settled(r)'  BY DEF Settled
<1>2. \A r : Refused(r) => Refused(r)'  BY DEF Refused
<1>3. \A r, c : AskedBy(r, c) => AskedBy(r, c)'  BY DEF AskedBy
<1>4. \A n, r : n # w /\ IsFor(n, r) => IsFor(n, r)'  BY DEF IsFor
<1>. QED  BY <1>1, <1>2, <1>3, <1>4 DEF Preserves

\* A connection nothing is done to.
LEMMA WaitsOn ==
    ASSUME ConnInv, IsServer, NEW w, Preserves(w), NEW id \in DOMAIN connections, Waits(id),
           connections'[id].client = connections[id].client,
           connections'[id].hs \in {"pending", "writing"} =>
               /\ connections'[id].hs = connections[id].hs /\ connections'[id].req = connections[id].req
               /\ connections'[id].resp = connections[id].resp,
           connections[id].hs = "writing" => connections[id].resp # w \/ w = 0
    PROVE  Waits(id)'
<1> DEFINE c == connections[id]  d == connections'[id]
<1>1. PICK r \in Int, k \in Int, n \in Int : r = c.req /\ k = c.client /\ n = c.resp
  <2>1. c \in Conn  BY DEF ConnInv
  <2>. QED  BY <2>1 DEF Conn
<1>2. CASE d.hs \notin {"pending", "writing"}  BY <1>2 DEF Waits
<1>3. CASE d.hs \in {"pending", "writing"}
  <2>1. d.hs = c.hs /\ d.req = r /\ d.resp = n /\ d.client = k  BY <1>1, <1>3
  <2>2. Settled(r) /\ AskedBy(r, k)  BY <1>1, <1>3, <2>1 DEF Waits
  <2>3. Settled(r)' /\ AskedBy(r, k)'  BY <2>2 DEF Preserves
  <2>4. CASE d.hs = "writing" /\ n = 0
    <3>1. Refused(r)  BY <1>1, <2>1, <2>4 DEF Waits
    <3>2. Refused(r)'  BY <2>2, <3>1 DEF Preserves
    <3>. QED  BY <2>1, <2>3, <2>4, <3>2 DEF Waits
  <2>5. CASE d.hs = "writing" /\ n # 0
    <3>1. IsFor(n, r) /\ n # w  BY <1>1, <2>1, <2>5 DEF Waits
    <3>2. IsFor(n, r)'  BY <3>1 DEF Preserves
    <3>. QED  BY <2>1, <2>3, <2>5, <3>2 DEF Waits
  <2>6. CASE d.hs # "writing"  BY <2>1, <2>3, <2>6 DEF Waits
  <2>. QED  BY <2>4, <2>5, <2>6
<1>. QED  BY <1>2, <1>3

\* A response nothing is done with.
LEMMA RespondsOn ==
    ASSUME NEW w, Preserves(w), NEW e, Responds(e), e[2] # w \/ w = 0 PROVE Responds(e)'
<1>1. e \in Triple /\ e[1] \in Int /\ e[2] \in Int  BY TripleParts DEF Responds
<1>2. CASE e[2] = 0
  <2>1. Refused(e[1]) /\ Settled(e[1])  BY <1>2 DEF Responds
  <2>2. Refused(e[1])' /\ Settled(e[1])'  BY <1>1, <2>1 DEF Preserves
  <2>. QED  BY <1>2, <2>2 DEF Responds
<1>3. CASE e[2] # 0
  <2>1. IsFor(e[2], e[1])  BY <1>3 DEF Responds
  <2>2. IsFor(e[2], e[1])'  BY <1>1, <1>3, <2>1 DEF Preserves
  <2>. QED  BY <1>3, <2>2 DEF Responds
<1>. QED  BY <1>2, <1>3


\* Nothing is given to the graph or taken from RESP.
LEMMA QueueStays ==
    ASSUME QueueInv, Asked' = Asked, Received' = Received, UNCHANGED response_wait_queue PROVE QueueInv'
BY DEF QueueInv

\* Nothing joins or leaves pending_requests.
LEMMA RequestStays ==
    ASSUME RequestInv, DataInv, Asked' = Asked, UNCHANGED pending_requests, fetched' \in Int, fetched <= fetched',
           \A x \in DOMAIN connections : connections[x].hs = "processing" =>
               x \in DOMAIN connections' /\ connections'[x].hs = "processing"
    PROVE  RequestInv'
<1>1. \A k \in 1..Len(Asked) : Asked[k][2] \in Int  BY AskedIs
<1>2. fetched \in Int  BY DEF DataInv
<1>3. \A k \in 1..Len(Asked) : Asked[k][2] < fetched'  BY <1>1, <1>2 DEF RequestInv
<1>4. ASSUME NEW i \in 1..Len(pending_requests) PROVE Queued(i)'
  <2>1. pending_requests[i][1] \in Int  BY QueuedParts
  <2>2. Queued(i)  BY DEF RequestInv
  <2>3. Refused(pending_requests[i][1]) => Refused(pending_requests[i][1])'  BY DEF Refused
  <2>. QED  BY <1>2, <2>1, <2>2, <2>3 DEF Queued
<1>. QED  BY <1>3, <1>4 DEF RequestInv

\* Connections stay as they are, leave or are read again.
LEMMA WaitStays ==
    ASSUME WaitInv, ConnInv, IsServer, NEW w, Preserves(w), DOMAIN connections' \subseteq DOMAIN connections,
           \A x \in DOMAIN connections' :
               /\ connections'[x].client = connections[x].client
               /\ connections'[x].hs \in {"pending", "writing"} =>
                      /\ connections'[x].hs = connections[x].hs /\ connections'[x].req = connections[x].req
                      /\ connections'[x].resp = connections[x].resp,
           w # 0 => \A x \in DOMAIN connections' : ~Writer(x, w)
    PROVE  WaitInv'
<1>1. ASSUME NEW x \in DOMAIN connections' PROVE Waits(x)'
  <2>1. x \in DOMAIN connections /\ Waits(x)  BY DEF WaitInv
  <2>2. connections[x].hs = "writing" => connections[x].resp # w \/ w = 0  BY DEF Writer
  <2>. QED  BY <2>1, <2>2, WaitsOn
<1>. QED  BY <1>1 DEF WaitInv

\* No response joins.
LEMMA ResponseStays ==
    ASSUME ResponseInv, NEW w, Preserves(w), pending_responses' \subseteq pending_responses,
           w # 0 => \A e \in pending_responses' : e[2] # w
    PROVE  ResponseInv'
<1>1. ASSUME NEW e \in pending_responses' PROVE Responds(e)'
  <2>1. Responds(e) /\ (e[2] # w \/ w = 0)  BY DEF ResponseInv
  <2>. QED  BY <2>1, RespondsOn
<1>. QED  BY <1>1 DEF ResponseInv

\* No connection starts to write.
LEMMA OneStays ==
    ASSUME OneInv, pending_responses' \subseteq pending_responses, DOMAIN connections' \subseteq DOMAIN connections,
           \A x \in DOMAIN connections' : connections'[x].hs = "writing" =>
               connections[x].hs = "writing" /\ connections'[x].resp = connections[x].resp
    PROVE  OneInv'
<1>1. ASSUME NEW id \in DOMAIN connections', NEW n \in Int, Writer(id, n)'
      PROVE  /\ \A e \in pending_responses' : e[2] # n
             /\ \A other \in DOMAIN connections' : Writer(other, n)' => other = id
  <2>1. \A x \in DOMAIN connections' : x \in DOMAIN connections /\ (Writer(x, n)' => Writer(x, n))
    BY DEF Writer
  <2>. QED  BY <1>1, <2>1 DEF OneInv
<1>. QED  BY <1>1 DEF OneInv

\* The edges of the server while it visits its connections.
LEMMA VisitEdges ==
    ASSUME MatchInv, SocketInv, IsServer, UNCHANGED <<kind, inq, sent, open, outq, delivered>>
    PROVE  /\ Asked' = Asked /\ Received' = Received /\ Received \in Nat /\ Received \in Int
           /\ RespInv'
<1>1. Asked' = Asked  BY DEF Asked, OutOf
<1>2. Received' = Received /\ RespInv'  BY ResponsesStay DEF SocketInv
<1>. QED  BY <1>1, <1>2, ReceivedIs DEF SocketInv

\* A visit that does nothing, or ends the wait after a response.
LEMMA QuietVisit ==
    ASSUME MatchInv, SocketInv, IsServer, ConnInv', DOMAIN connections' = DOMAIN connections,
           UNCHANGED <<kind, inq, sent, open, outq, delivered, held, fetched, pending_requests,
                       response_wait_queue, pending_responses, answers>>,
           removing' \in Seq(Int),
           \A x \in DOMAIN connections :
               /\ connections'[x].client = connections[x].client
               /\ \/ /\ connections'[x].hs = connections[x].hs /\ connections'[x].req = connections[x].req
                     /\ connections'[x].resp = connections[x].resp
                  \/ connections'[x].hs \in {"reading", "keepalive"} /\ connections[x].hs # "processing"
    PROVE  MatchInv'
<1>1. DataInv /\ QueueInv /\ RequestInv /\ WaitInv /\ ResponseInv /\ OneInv /\ ConnInv
  BY DEF MatchInv, SocketInv
<1>2. Asked' = Asked /\ Received' = Received /\ Received \in Int  BY VisitEdges
<1>3. fetched \in Nat  BY <1>1 DEF DataInv
<1>4. DataInv'  BY <1>1 DEF DataInv
<1>5. QueueInv'  BY <1>1, <1>2, QueueStays
<1>6. Preserves(0)
  <2>1. Received' \in Int /\ Received <= Received'  BY <1>2
  <2>. QED  BY <1>1, <1>2, <2>1, KeepsReading
<1>7. RequestInv'
  <2>1. fetched' \in Int /\ fetched <= fetched'  BY <1>3
  <2>2. \A x \in DOMAIN connections : connections[x].hs = "processing" =>
               x \in DOMAIN connections' /\ connections'[x].hs = "processing"
    OBVIOUS
  <2>. QED  BY <1>1, <1>2, <2>1, <2>2, RequestStays
<1>8. WaitInv'
  <2>1. \A x \in DOMAIN connections' :
               /\ connections'[x].client = connections[x].client
               /\ connections'[x].hs \in {"pending", "writing"} =>
                      /\ connections'[x].hs = connections[x].hs /\ connections'[x].req = connections[x].req
                      /\ connections'[x].resp = connections[x].resp
    OBVIOUS
  <2>. QED  BY <1>1, <1>6, <2>1, WaitStays
<1>9. ResponseInv'  BY <1>1, <1>6, ResponseStays
<1>10. OneInv'
  <2>1. \A x \in DOMAIN connections' : connections'[x].hs = "writing" =>
               connections[x].hs = "writing" /\ connections'[x].resp = connections[x].resp
    OBVIOUS
  <2>. QED  BY <1>1, <2>1, OneStays
<1>. QED  BY <1>4, <1>5, <1>7, <1>8, <1>9, <1>10 DEF MatchInv


\* A request nobody can read is refused at once.
LEMMA MalformedMatches ==
    ASSUME MatchInv, SocketInv, IsServer, NEW id \in DOMAIN connections, connections[id].hs = "reading",
           MalformedRequest(id),
           UNCHANGED <<kind, inq, sent, open, outq, delivered, held, ids, response_wait_queue, answers>>
    PROVE  MatchInv' /\ ConnInv'
<1>1. DataInv /\ QueueInv /\ RequestInv /\ WaitInv /\ ResponseInv /\ OneInv /\ ConnInv
  BY DEF MatchInv, SocketInv
<1>2. Asked' = Asked /\ Received' = Received /\ Received \in Int  BY VisitEdges
<1>3. PICK r \in Nat : r = fetched  BY <1>1 DEF DataInv
<1>4. /\ fetched' = r + 1 /\ connections' = Await(id, r) /\ UNCHANGED <<pending_requests, removing>>
      /\ pending_responses' = pending_responses \cup {<<r, 0, 1>>}
  BY <1>3 DEF MalformedRequest, Refusal
<1>5. /\ ConnInv' /\ DOMAIN connections' = DOMAIN connections
      /\ connections'[id].hs = "pending" /\ connections'[id].req = r
      /\ \A x \in DOMAIN connections :
            /\ connections'[x].client = connections[x].client
            /\ connections'[x].resp = connections[x].resp
            /\ x # id => connections'[x].hs = connections[x].hs /\ connections'[x].req = connections[x].req
  <2>1. r \in Int  OBVIOUS
  <2>. QED  BY <1>1, <1>4, <2>1, AwaitSet
<1>6. DataInv'
  <2>1. \A x \in DOMAIN connections' : connections'[x].hs # "shaking"  BY <1>1, <1>5 DEF DataInv
  <2>2. fetched' \in Nat  BY <1>4
  <2>. QED  BY <1>1, <1>4, <2>1, <2>2 DEF DataInv
<1>7. QueueInv'  BY <1>1, <1>2, QueueStays
<1>8. Preserves(0)
  <2>1. Received' \in Int /\ Received <= Received' /\ fetched' = fetched + 1  BY <1>2, <1>3, <1>4
  <2>. QED  BY <1>1, <1>2, <1>4, <2>1, KeepsReading
<1>9. RequestInv'
  <2>1. fetched' \in Int /\ fetched <= fetched'  BY <1>3, <1>4
  <2>2. \A x \in DOMAIN connections : connections[x].hs = "processing" =>
               x \in DOMAIN connections' /\ connections'[x].hs = "processing"
    BY <1>5
  <2>. QED  BY <1>1, <1>2, <1>4, <2>1, <2>2, RequestStays
<1>10. Refused(r)' /\ Settled(r)'
  <2>1. \A k \in 1..Len(Asked) : Asked[k][2] # r
    BY <1>1, <1>3, AskedIs DEF RequestInv
  <2>2. \A i \in 1..Len(pending_requests) : pending_requests[i][1] # r
    BY <1>1, <1>3, QueuedParts DEF RequestInv, Queued
  <2>. QED  BY <1>2, <1>4, <2>1, <2>2 DEF Refused, Settled
<1>11. WaitInv'
  <2>1. ASSUME NEW x \in DOMAIN connections' PROVE Waits(x)'
    <3>1. CASE x = id
      <4>1. \A c : AskedBy(r, c)'  BY <1>10 DEF Refused, AskedBy
      <4>. QED  BY <1>5, <1>10, <3>1, <4>1 DEF Waits
    <3>2. CASE x # id
      <4>1. x \in DOMAIN connections /\ Waits(x)  BY <1>1, <1>5 DEF WaitInv
      <4>. QED  BY <1>1, <1>5, <1>8, <3>2, <4>1, WaitsOn
    <3>. QED  BY <3>1, <3>2
  <2>. QED  BY <2>1 DEF WaitInv
<1>12. ResponseInv'
  <2>1. ASSUME NEW e \in pending_responses PROVE Responds(e)'  BY <1>1, <1>8, RespondsOn DEF ResponseInv
  <2>2. Responds(<<r, 0, 1>>)'
    <3>1. <<r, 0, 1>> \in Triple  BY DEF Triple
    <3>. QED  BY <1>10, <3>1 DEF Responds
  <2>. QED  BY <1>4, <2>1, <2>2 DEF ResponseInv
<1>13. OneInv'
  <2>1. ASSUME NEW x \in DOMAIN connections', NEW n \in Int, Writer(x, n)'
        PROVE  /\ \A e \in pending_responses' : e[2] # n
               /\ \A other \in DOMAIN connections' : Writer(other, n)' => other = x
    <3>1. \A y \in DOMAIN connections' : y \in DOMAIN connections /\ (Writer(y, n)' => Writer(y, n))
      BY <1>5 DEF Writer
    <3>2. n # 0  BY <2>1 DEF Writer
    <3>. QED  BY <1>1, <1>4, <2>1, <3>1, <3>2 DEF OneInv
  <2>. QED  BY <2>1 DEF OneInv
<1>. QED  BY <1>5, <1>6, <1>7, <1>9, <1>11, <1>12, <1>13 DEF MatchInv

\* A request that was read waits to be sent.
LEMMA ParsedMatches ==
    ASSUME MatchInv, SocketInv, IsServer, NEW id \in DOMAIN connections, connections[id].hs = "reading",
           RequestParsed(id),
           UNCHANGED <<kind, inq, sent, open, outq, delivered, held, ids, response_wait_queue, answers>>
    PROVE  MatchInv' /\ ConnInv'
<1>1. DataInv /\ QueueInv /\ RequestInv /\ WaitInv /\ ResponseInv /\ OneInv /\ ConnInv
  BY DEF MatchInv, SocketInv
<1>2. Asked' = Asked /\ Received' = Received /\ Received \in Int  BY VisitEdges
<1>3. PICK r \in Nat, routed \in BOOLEAN :
          r = fetched /\ pending_requests' = Append(pending_requests, <<r, id, routed>>)
  BY <1>1 DEF DataInv, RequestParsed
<1>4. /\ fetched' = r + 1 /\ connections' = [connections EXCEPT ![id].hs = "processing"]
      /\ UNCHANGED <<pending_responses, removing>>
  BY <1>3 DEF RequestParsed
<1>5. /\ ConnInv' /\ DOMAIN connections' = DOMAIN connections
      /\ connections'[id].hs = "processing"
      /\ \A x \in DOMAIN connections :
            /\ connections'[x].client = connections[x].client /\ connections'[x].req = connections[x].req
            /\ connections'[x].resp = connections[x].resp
            /\ x # id => connections'[x].hs = connections[x].hs
  <2>1. "processing" \in States  BY DEF States
  <2>. QED  BY <1>1, <1>4, <2>1, StateSet
<1>6. id \in Int  BY <1>1 DEF ConnInv
<1> DEFINE x == <<r, id, routed>>  k == Len(pending_requests)
<1>7. /\ x \in Int \X Int \X BOOLEAN /\ x[1] = r /\ x[2] = id  BY <1>6
<1>8. /\ k \in Nat /\ pending_requests' \in Seq(Int \X Int \X BOOLEAN) /\ Len(pending_requests') = k + 1
      /\ pending_requests'[k + 1] = x /\ \A i \in 1..k : pending_requests'[i] = pending_requests[i]
  <2>1. pending_requests \in Seq(Int \X Int \X BOOLEAN)  BY <1>1 DEF DataInv
  <2>. QED  BY <1>3, <1>7, <2>1, AppendAt
<1> HIDE DEF x, k
<1>9. DataInv'
  <2>1. \A y \in DOMAIN connections' : connections'[y].hs # "shaking"  BY <1>1, <1>5 DEF DataInv
  <2>2. fetched' \in Nat  BY <1>4
  <2>. QED  BY <1>1, <1>4, <1>8, <2>1, <2>2 DEF DataInv
<1>10. QueueInv'  BY <1>1, <1>2, QueueStays
<1>11. Preserves(0)
  <2>1. Received' \in Int /\ Received <= Received' /\ fetched' = fetched + 1  BY <1>2, <1>3, <1>4
  <2>2. \E y \in Int, z \in BOOLEAN : pending_requests' = Append(pending_requests, <<fetched, y, z>>)
    BY <1>3, <1>6
  <2>. QED  BY <1>1, <1>2, <2>1, <2>2, KeepsReading
<1>12. \A i \in 1..k : /\ Queued(i) /\ pending_requests[i][1] \in Int /\ pending_requests[i][1] < r
                       /\ pending_requests[i][2] # id
  <2>1. \A i \in 1..k : Queued(i) /\ pending_requests[i][1] \in Int  BY <1>1, QueuedParts DEF RequestInv, k
  <2>. QED  BY <1>3, <2>1 DEF Queued
<1>13. \A i \in 1..(k + 1) : i \in 1..k \/ i = k + 1  BY <1>8
<1>14. RequestInv'
  <2>1. \A j \in 1..Len(Asked) : Asked[j][2] < fetched' /\ Asked[j][2] # r
    BY <1>1, <1>3, <1>4, AskedIs DEF RequestInv
  <2>2. ASSUME NEW i \in 1..(k + 1) PROVE Queued(i)'
    <3>1. CASE i \in 1..k
      <4>1. pending_requests'[i] = pending_requests[i]  BY <1>8, <3>1
      <4>2. Queued(i) /\ pending_requests[i][1] < fetched' /\ pending_requests[i][2] # id
        BY <1>4, <1>12, <3>1
      <4>3. Refused(pending_requests[i][1])'
        BY <1>2, <4>1, <4>2 DEF Queued, Refused
      <4>. QED  BY <1>5, <4>1, <4>2, <4>3 DEF Queued
    <3>2. CASE i = k + 1
      <4>1. pending_requests'[i] = x /\ r < fetched'  BY <1>4, <1>8, <3>2
      <4>2. Refused(pending_requests[i][1])'  BY <1>2, <1>7, <2>1, <4>1 DEF Refused
      <4>. QED  BY <1>5, <1>7, <4>1, <4>2 DEF Queued
    <3>. QED  BY <1>13, <3>1, <3>2
  <2>3. ASSUME NEW i \in 1..(k + 1), NEW j \in 1..(k + 1),
               \/ pending_requests'[i][1] = pending_requests'[j][1]
               \/ pending_requests'[i][2] = pending_requests'[j][2]
        PROVE  i = j
    <3>1. CASE i \in 1..k /\ j \in 1..k  BY <1>1, <1>8, <2>3, <3>1 DEF RequestInv, k
    <3>2. ASSUME NEW m \in 1..k
          PROVE  /\ pending_requests'[m][1] # pending_requests'[k + 1][1]
                 /\ pending_requests'[m][2] # pending_requests'[k + 1][2]
      <4>1. pending_requests'[m] = pending_requests[m] /\ pending_requests'[k + 1] = x  BY <1>8, <3>2
      <4>2. pending_requests[m][1] # r /\ pending_requests[m][2] # id  BY <1>12, <3>2
      <4>. QED  BY <1>7, <4>1, <4>2
    <3>3. CASE i = k + 1 /\ j \in 1..k  BY <2>3, <3>2, <3>3
    <3>4. CASE j = k + 1 /\ i \in 1..k  BY <2>3, <3>2, <3>4
    <3>5. CASE i = k + 1 /\ j = k + 1  BY <3>5
    <3>. QED  BY <1>13, <3>1, <3>3, <3>4, <3>5
  <2>. QED  BY <1>1, <1>2, <1>8, <2>1, <2>2, <2>3 DEF RequestInv
<1>15. WaitInv'
  <2>1. \A y \in DOMAIN connections' :
               /\ connections'[y].client = connections[y].client
               /\ connections'[y].hs \in {"pending", "writing"} =>
                      /\ connections'[y].hs = connections[y].hs /\ connections'[y].req = connections[y].req
                      /\ connections'[y].resp = connections[y].resp
    BY <1>5
  <2>. QED  BY <1>1, <1>5, <1>11, <2>1, WaitStays
<1>16. ResponseInv'  BY <1>1, <1>4, <1>11, ResponseStays
<1>17. OneInv'
  <2>1. \A y \in DOMAIN connections' : connections'[y].hs = "writing" =>
               connections[y].hs = "writing" /\ connections'[y].resp = connections[y].resp
    BY <1>5
  <2>. QED  BY <1>1, <1>4, <1>5, <2>1, OneStays
<1>. QED  BY <1>5, <1>9, <1>10, <1>14, <1>15, <1>16, <1>17 DEF MatchInv


\* The response to a connection's request is found.
LEMMA FoundMatches ==
    ASSUME MatchInv, SocketInv, IsServer, NEW id \in DOMAIN connections, connections[id].hs = "pending",
           NEW e \in pending_responses, e[1] = connections[id].req,
           pending_responses' = pending_responses \ {e},
           connections' = [connections EXCEPT ![id].hs = "writing", ![id].resp = e[2]],
           UNCHANGED <<kind, inq, sent, open, outq, delivered, held, ids, response_wait_queue, answers,
                       fetched, pending_requests, removing>>
    PROVE  MatchInv' /\ ConnInv'
<1>1. DataInv /\ QueueInv /\ RequestInv /\ WaitInv /\ ResponseInv /\ OneInv /\ ConnInv
  BY DEF MatchInv, SocketInv
<1>2. Asked' = Asked /\ Received' = Received /\ Received \in Int  BY VisitEdges
<1>3. Responds(e) /\ e \in Triple  BY <1>1 DEF ResponseInv, Responds
<1>4. PICK r \in Int, n \in Int, c \in Int : e[1] = r /\ e[2] = n /\ c = connections[id].client
  <2>1. connections[id] \in Conn  BY <1>1 DEF ConnInv
  <2>. QED  BY <1>3, <2>1, TripleParts DEF Conn
<1>5. /\ ConnInv' /\ DOMAIN connections' = DOMAIN connections
      /\ connections'[id].hs = "writing" /\ connections'[id].resp = n
      /\ \A x \in DOMAIN connections :
            /\ connections'[x].client = connections[x].client
            /\ connections'[x].req = connections[x].req
            /\ x # id => connections'[x].hs = connections[x].hs /\ connections'[x].resp = connections[x].resp
  BY <1>1, <1>4, WritingSet
<1>6. DataInv'
  <2>1. \A x \in DOMAIN connections' : connections'[x].hs # "shaking"  BY <1>1, <1>5 DEF DataInv
  <2>. QED  BY <1>1, <2>1 DEF DataInv
<1>7. QueueInv'  BY <1>1, <1>2, QueueStays
<1>8. Preserves(0)
  <2>1. Received' \in Int /\ Received <= Received'  BY <1>2
  <2>. QED  BY <1>1, <1>2, <2>1, KeepsReading
<1>9. RequestInv'
  <2>1. fetched' \in Int /\ fetched <= fetched'  BY <1>1 DEF DataInv
  <2>2. \A x \in DOMAIN connections : connections[x].hs = "processing" =>
               x \in DOMAIN connections' /\ connections'[x].hs = "processing"
    BY <1>5
  <2>. QED  BY <1>1, <1>2, <2>1, <2>2, RequestStays
<1>10. Responds(e)'  BY <1>3, <1>8, RespondsOn
<1>11. WaitInv'
  <2>1. ASSUME NEW x \in DOMAIN connections' PROVE Waits(x)'
    <3>1. CASE x = id
      <4>1. Settled(r) /\ AskedBy(r, c)  BY <1>1, <1>4 DEF WaitInv, Waits
      <4>2. Settled(r)' /\ AskedBy(r, c)'  BY <1>8, <4>1 DEF Preserves
      <4>3. IF n = 0 THEN Refused(r)' ELSE IsFor(n, r)'  BY <1>4, <1>10 DEF Responds
      <4>4. connections'[id].req = r /\ connections'[id].client = c  BY <1>4, <1>5
      <4>. QED  BY <1>5, <3>1, <4>2, <4>3, <4>4 DEF Waits
    <3>2. CASE x # id
      <4>1. x \in DOMAIN connections /\ Waits(x)  BY <1>1, <1>5 DEF WaitInv
      <4>. QED  BY <1>1, <1>5, <1>8, <3>2, <4>1, WaitsOn
    <3>. QED  BY <3>1, <3>2
  <2>. QED  BY <2>1 DEF WaitInv
<1>12. ResponseInv'  BY <1>1, <1>8, ResponseStays
<1>13. OneInv'
  <2>1. \A x \in DOMAIN connections, m \in Int : x # id => (Writer(x, m)' <=> Writer(x, m))
    BY <1>5 DEF Writer
  <2>2. \A m : Writer(id, m)' => m = n /\ n # 0  BY <1>5 DEF Writer
  <2>3. n # 0 => \A f \in pending_responses : f[2] = n => f = e
    <3>1. ASSUME n # 0, NEW f \in pending_responses, f[2] = n PROVE f = e
      <4>1. Responds(f)  BY <1>1, <3>1 DEF ResponseInv
      <4>2. f \in Triple /\ f[3] = 1 /\ f[1] = Asked[n][2]  BY <3>1, <4>1 DEF Responds, IsFor
      <4>3. e[3] = 1 /\ e[1] = Asked[n][2]  BY <1>3, <1>4, <3>1 DEF Responds, IsFor
      <4>. QED  BY <1>3, <1>4, <3>1, <4>2, <4>3 DEF Triple
    <3>. QED  BY <3>1
  <2>4. n # 0 => \A x \in DOMAIN connections : ~Writer(x, n)  BY <1>1, <1>4 DEF OneInv
  <2>5. ASSUME NEW x \in DOMAIN connections', NEW m \in Int, Writer(x, m)'
        PROVE  /\ \A f \in pending_responses' : f[2] # m
               /\ \A other \in DOMAIN connections' : Writer(other, m)' => other = x
    <3>1. CASE x = id
      <4>1. m = n /\ n # 0  BY <2>2, <2>5, <3>1
      <4>. QED  BY <1>5, <2>1, <2>3, <2>4, <3>1, <4>1
    <3>2. CASE x # id
      <4>1. x \in DOMAIN connections /\ Writer(x, m)  BY <1>5, <2>1, <2>5, <3>2
      <4>2. m # n \/ n = 0  BY <2>4, <4>1
      <4>. QED  BY <1>1, <1>5, <2>1, <2>2, <4>1, <4>2 DEF OneInv
    <3>. QED  BY <3>1, <3>2
  <2>. QED  BY <2>5 DEF OneInv
<1>. QED  BY <1>5, <1>6, <1>7, <1>9, <1>11, <1>12, <1>13 DEF MatchInv

\* A response is written to the last byte.
LEMMA WrittenMatches ==
    ASSUME MatchInv, SocketInv, IsServer, NEW id \in DOMAIN connections, connections[id].hs = "writing",
           connections' = [connections EXCEPT ![id].hs = "keepalive"],
           answers' = IF connections[id].resp = 0 THEN answers
                      ELSE Append(answers, <<connections[id].resp, Asker(connections[id].resp),
                                             connections[id].client>>),
           UNCHANGED <<kind, inq, sent, open, outq, delivered, held, ids, response_wait_queue,
                       fetched, pending_requests, pending_responses, removing>>
    PROVE  MatchInv' /\ ConnInv' /\ AnswerInv'
<1>1. DataInv /\ QueueInv /\ RequestInv /\ WaitInv /\ ResponseInv /\ OneInv /\ ConnInv /\ AnswerInv
  BY DEF MatchInv, SocketInv
<1>2. Asked' = Asked /\ Received' = Received /\ Received \in Int /\ Received \in Nat  BY VisitEdges
<1>3. PICK r \in Int, n \in Int, c \in Int :
          connections[id].req = r /\ connections[id].resp = n /\ c = connections[id].client
  <2>1. connections[id] \in Conn  BY <1>1 DEF ConnInv
  <2>. QED  BY <2>1 DEF Conn
<1>4. /\ ConnInv' /\ DOMAIN connections' = DOMAIN connections
      /\ connections'[id].hs = "keepalive"
      /\ \A x \in DOMAIN connections :
            /\ connections'[x].client = connections[x].client /\ connections'[x].req = connections[x].req
            /\ connections'[x].resp = connections[x].resp
            /\ x # id => connections'[x].hs = connections[x].hs
  <2>1. "keepalive" \in States  BY DEF States
  <2>. QED  BY <1>1, <2>1, StateSet
<1>5. CASE n = 0
  <2>1. UNCHANGED answers  BY <1>3, <1>5
  <2>2. MatchInv'
    <3>1. removing' \in Seq(Int)  BY <1>1 DEF DataInv
    <3>2. \A x \in DOMAIN connections :
               /\ connections'[x].client = connections[x].client
               /\ \/ /\ connections'[x].hs = connections[x].hs /\ connections'[x].req = connections[x].req
                     /\ connections'[x].resp = connections[x].resp
                  \/ connections'[x].hs \in {"reading", "keepalive"} /\ connections[x].hs # "processing"
      BY <1>4
    <3>. QED  BY <1>4, <2>1, <3>1, <3>2, QuietVisit
  <2>3. AnswerInv'  BY <1>1, <1>2, <2>1, AnswersStay
  <2>. QED  BY <1>4, <2>2, <2>3
<1>6. CASE n # 0
  <2>1. IsFor(n, r) /\ AskedBy(r, c) /\ Writer(id, n)  BY <1>1, <1>3, <1>6 DEF WaitInv, Waits, Writer
  <2>2. n \in 1..Len(delivered[1])
    <3>1. inq[1] \in Seq(Int) /\ sent[1] \in Nat  BY DEF SocketInv, RespInv, InPorts
    <3>2. Len(inq[1]) \in Nat /\ Len(delivered[1]) \in Nat /\ sent[1] <= Len(delivered[1])
      BY <1>1, <3>1, AskedIs DEF DataInv
    <3>. QED  BY <2>1, <3>1, <3>2 DEF IsFor, Received
  <2>3. Asker(n) = c
    <3>1. n \in 1..Len(Asked) /\ Asked[n] = delivered[1][n]  BY <1>1, <2>2, AskedIs
    <3>. QED  BY <2>1, <3>1 DEF IsFor, AskedBy, Asker
  <2>4. answers' = Append(answers, <<n, c, c>>) /\ Unwritten(n)  BY <1>3, <1>6, <2>1, <2>3 DEF IsFor
  <2>5. AnswerInv' /\ \A m : m # n /\ Unwritten(m) => Unwritten(m)'
    <3>1. Received' \in Int /\ Received <= Received' /\ n <= Received'  BY <1>2, <2>1 DEF IsFor
    <3>. QED  BY <1>1, <1>2, <2>4, <3>1, AnswerWritten
  <2>6. Preserves(n)  BY <1>2, <2>5, KeepsWriting
  <2>7. DataInv'
    <3>1. \A x \in DOMAIN connections' : connections'[x].hs # "shaking"  BY <1>1, <1>4 DEF DataInv
    <3>. QED  BY <1>1, <3>1 DEF DataInv
  <2>8. QueueInv'  BY <1>1, <1>2, QueueStays
  <2>9. RequestInv'
    <3>1. fetched' \in Int /\ fetched <= fetched'  BY <1>1 DEF DataInv
    <3>2. \A x \in DOMAIN connections : connections[x].hs = "processing" =>
                 x \in DOMAIN connections' /\ connections'[x].hs = "processing"
      BY <1>4
    <3>. QED  BY <1>1, <1>2, <3>1, <3>2, RequestStays
  <2>10. WaitInv'
    <3>1. ASSUME NEW x \in DOMAIN connections' PROVE Waits(x)'
      <4>1. CASE x = id  BY <1>4, <4>1 DEF Waits
      <4>2. CASE x # id
        <5>1. x \in DOMAIN connections /\ Waits(x)  BY <1>1, <1>4 DEF WaitInv
        <5>2. ~Writer(x, n)  BY <1>1, <2>1, <4>2, <5>1 DEF OneInv
        <5>3. connections[x].hs = "writing" => connections[x].resp # n  BY <1>6, <5>2 DEF Writer
        <5>. QED  BY <1>1, <1>4, <2>6, <4>2, <5>1, <5>3, WaitsOn
      <4>. QED  BY <4>1, <4>2
    <3>. QED  BY <3>1 DEF WaitInv
  <2>11. ResponseInv'
    <3>1. \A e \in pending_responses : e[2] # n  BY <1>1, <2>1 DEF OneInv
    <3>. QED  BY <1>1, <2>6, <3>1, ResponseStays
  <2>12. OneInv'
    <3>1. \A x \in DOMAIN connections' : connections'[x].hs = "writing" =>
                 connections[x].hs = "writing" /\ connections'[x].resp = connections[x].resp
      BY <1>4
    <3>. QED  BY <1>1, <1>4, <3>1, OneStays
  <2>. QED  BY <1>4, <2>5, <2>7, <2>8, <2>9, <2>10, <2>11, <2>12 DEF MatchInv
<1>. QED  BY <1>5, <1>6


\* A visit takes its connection off the list, and may add it to the ones to remove.
LEMMA VisitOn ==
    ASSUME VisitInv, DataInv, NEW id \in todo, id \in Int, todo' = todo \ {id}, phase' \in {"serve", "parse"},
           DOMAIN connections' = DOMAIN connections,
           \A x \in DOMAIN connections : x # id => connections'[x].hs = connections[x].hs,
           \/ removing' = removing
           \/ /\ removing' = Append(removing, id)
              /\ connections'[id].hs \in {"reading", "writing", "keepalive"}
    PROVE  VisitInv'
<1>1. removing \in Seq(Int)  BY DEF DataInv
<1>2. \A x \in Removing : x \in DOMAIN connections /\ x \notin todo /\ x # id
                          /\ connections[x].hs \in {"reading", "writing", "keepalive"}
  BY DEF VisitInv
<1>3. \A x \in Removing' : x \in Removing \/ (x = id /\ connections'[id].hs \in {"reading", "writing", "keepalive"})
  <2>1. CASE removing' = removing  BY <2>1 DEF Removing
  <2>2. CASE /\ removing' = Append(removing, id)
             /\ connections'[id].hs \in {"reading", "writing", "keepalive"}
    <3>1. /\ Len(removing) \in Nat /\ Len(removing') = Len(removing) + 1
          /\ \A i \in 1..Len(removing) : removing'[i] = removing[i]
          /\ removing'[Len(removing) + 1] = id
      BY <1>1, <2>2, AppendAt
    <3>2. ASSUME NEW i \in 1..Len(removing') PROVE removing'[i] \in Removing \/ removing'[i] = id
      <4>1. CASE i \in 1..Len(removing)  BY <3>1, <4>1 DEF Removing
      <4>2. CASE i = Len(removing) + 1  BY <3>1, <4>2
      <4>. QED  BY <3>1, <4>1, <4>2
    <3>. QED  BY <2>2, <3>2 DEF Removing
  <2>. QED  BY <2>1, <2>2
<1>4. todo' \subseteq DOMAIN connections' /\ id \in DOMAIN connections'  BY DEF VisitInv
<1>5. ASSUME NEW x \in Removing'
      PROVE  /\ x \in DOMAIN connections' /\ x \notin todo'
             /\ connections'[x].hs \in {"reading", "writing", "keepalive"}
  <2>1. CASE x \in Removing
    <3>1. x \in DOMAIN connections /\ x \notin todo /\ x # id
          /\ connections[x].hs \in {"reading", "writing", "keepalive"}
      BY <1>2, <2>1
    <3>2. connections'[x].hs = connections[x].hs  BY <3>1
    <3>. QED  BY <3>1, <3>2
  <2>2. CASE x = id /\ connections'[id].hs \in {"reading", "writing", "keepalive"}
    BY <1>4, <2>2
  <2>. QED  BY <1>3, <2>1, <2>2
<1>. QED  BY <1>4, <1>5 DEF VisitInv

\* One connection of an HTTP server.
LEMMA ServeMatches ==
    ASSUME MatchInv, VisitInv, SocketInv, IsServer, ~kind.routed, ServeClient
    PROVE  MatchInv' /\ VisitInv' /\ SocketInv'
<1>1. DataInv /\ ConnInv /\ AnswerInv  BY DEF MatchInv, SocketInv
<1>2. UNCHANGED <<kind, inq, sent, open, outq, delivered, held, ids, response_wait_queue>>
  BY DEF ServeClient, edges
<1>3. PICK id \in todo : /\ todo' = todo \ {id}
                         /\ ReadRequest(id) \/ AwaitResponse(id) \/ WriteResponse(id) \/ KeepAlive(id)
  BY DEF ServeClient
<1>4. phase' \in {"serve", "parse"}  BY ServeGoes
<1>5. id \in DOMAIN connections /\ id \in Int
  <2>1. id \in DOMAIN connections  BY DEF VisitInv
  <2>. QED  BY <1>1, <2>1 DEF ConnInv
<1>6. Asked' = Asked /\ Received' = Received /\ Received \in Int /\ RespInv'  BY <1>2, VisitEdges
<1>7. RoutedInv'  BY <1>2 DEF RoutedInv
<1>8. ASSUME UNCHANGED answers PROVE AnswerInv'  BY <1>1, <1>2, <1>6, <1>8, AnswersStay
<1>9. ASSUME MatchInv', ConnInv', UNCHANGED answers \/ AnswerInv',
             DOMAIN connections' = DOMAIN connections,
             \A x \in DOMAIN connections : x # id => connections'[x].hs = connections[x].hs,
             \/ removing' = removing
             \/ /\ removing' = Append(removing, id)
                /\ connections'[id].hs \in {"reading", "writing", "keepalive"}
      PROVE  MatchInv' /\ VisitInv' /\ SocketInv'
  <2>1. VisitInv'  BY <1>1, <1>3, <1>4, <1>5, <1>9, VisitOn
  <2>. QED  BY <1>6, <1>7, <1>8, <1>9, <2>1 DEF SocketInv
<1>10. ASSUME UNCHANGED <<connections, fetched, pending_requests, pending_responses, answers>>,
              connections[id].hs \in {"reading", "writing", "keepalive"} \/ UNCHANGED removing,
              removing' \in {removing, Append(removing, id)}
       PROVE  MatchInv' /\ VisitInv' /\ SocketInv'
  <2>1. ConnInv'  BY <1>1, <1>2, <1>10, ConnStays
  <2>2. removing' \in Seq(Int)
    <3>1. removing \in Seq(Int)  BY <1>1 DEF DataInv
    <3>. QED  BY <1>5, <1>10, <3>1, AppendAt
  <2>3. MatchInv'  BY <1>2, <1>10, <2>1, <2>2, QuietVisit
  <2>. QED  BY <1>9, <1>10, <2>1, <2>3
<1>11. CASE ReadRequest(id)
  <2>1. connections[id].hs = "reading" /\ UNCHANGED answers  BY <1>11 DEF ReadRequest
  <2>2. CASE NoRequest(id) \/ ParserLoops(id)  BY <1>10, <2>1, <2>2 DEF NoRequest, ParserLoops
  <2>3. CASE MalformedRequest(id)
    <3>1. MatchInv' /\ ConnInv'  BY <1>2, <1>5, <2>1, <2>3, MalformedMatches
    <3>2. fetched \in Int  BY <1>1 DEF DataInv
    <3>3. connections' = Await(id, fetched) /\ UNCHANGED removing  BY <2>3 DEF MalformedRequest
    <3>4. /\ DOMAIN connections' = DOMAIN connections
          /\ \A x \in DOMAIN connections : x # id => connections'[x].hs = connections[x].hs
      BY <1>1, <1>2, <1>5, <3>2, <3>3, AwaitSet
    <3>. QED  BY <1>9, <2>1, <3>1, <3>3, <3>4
  <2>4. CASE RequestParsed(id)
    <3>1. MatchInv' /\ ConnInv'  BY <1>2, <1>5, <2>1, <2>4, ParsedMatches
    <3>2. connections' = [connections EXCEPT ![id].hs = "processing"] /\ UNCHANGED removing
      BY <2>4 DEF RequestParsed
    <3>3. "processing" \in States  BY DEF States
    <3>4. /\ DOMAIN connections' = DOMAIN connections
          /\ \A x \in DOMAIN connections : x # id => connections'[x].hs = connections[x].hs
      BY <1>1, <1>2, <1>5, <3>2, <3>3, StateSet
    <3>. QED  BY <1>9, <2>1, <3>1, <3>2, <3>4
  <2>. QED  BY <1>11, <2>2, <2>3, <2>4 DEF ReadRequest
<1>12. CASE AwaitResponse(id)
  <2>1. UNCHANGED <<fetched, pending_requests, removing, answers>>  BY <1>12 DEF AwaitResponse
  <2>2. CASE UNCHANGED <<connections, pending_responses>>  BY <1>10, <2>1, <2>2
  <2>3. ASSUME NEW e \in pending_responses, e[1] = connections[id].req, connections[id].hs = "pending",
               pending_responses' = pending_responses \ {e},
               connections' = [connections EXCEPT ![id].hs = "writing", ![id].resp = e[2]]
        PROVE  MatchInv' /\ VisitInv' /\ SocketInv'
    <3>1. MatchInv' /\ ConnInv'  BY <1>2, <1>5, <2>1, <2>3, FoundMatches
    <3>2. e[2] \in Int  BY <2>3, TripleParts DEF MatchInv, ResponseInv, Responds
    <3>3. /\ DOMAIN connections' = DOMAIN connections
          /\ \A x \in DOMAIN connections : x # id => connections'[x].hs = connections[x].hs
      BY <1>1, <1>2, <1>5, <2>3, <3>2, WritingSet
    <3>. QED  BY <1>9, <2>1, <3>1, <3>3
  <2>4. \/ UNCHANGED <<connections, pending_responses>>
        \/ \E e \in pending_responses :
              /\ e[1] = connections[id].req /\ connections[id].hs = "pending"
              /\ pending_responses' = pending_responses \ {e}
              /\ connections' = [connections EXCEPT ![id].hs = "writing", ![id].resp = e[2]]
    BY <1>12 DEF AwaitResponse
  <2>. QED  BY <2>2, <2>3, <2>4
<1>13. CASE WriteResponse(id)
  <2>1. UNCHANGED <<fetched, pending_requests, pending_responses>> /\ connections[id].hs = "writing"
    BY <1>13 DEF WriteResponse
  <2>2. CASE UNCHANGED <<connections, answers>> /\ removing' \in {removing, Append(removing, id)}
    BY <1>10, <2>1, <2>2
  <2>3. CASE /\ connections' = [connections EXCEPT ![id].hs = "keepalive"] /\ UNCHANGED removing
             /\ answers' = IF connections[id].resp = 0 THEN answers
                           ELSE Append(answers, <<connections[id].resp, Asker(connections[id].resp),
                                                  connections[id].client>>)
    <3>1. MatchInv' /\ ConnInv' /\ AnswerInv'  BY <1>2, <1>5, <2>1, <2>3, WrittenMatches
    <3>2. "keepalive" \in States  BY DEF States
    <3>3. /\ DOMAIN connections' = DOMAIN connections
          /\ \A x \in DOMAIN connections : x # id => connections'[x].hs = connections[x].hs
      BY <1>1, <1>2, <1>5, <2>3, <3>2, StateSet
    <3>. QED  BY <1>9, <2>3, <3>1, <3>3
  <2>. QED  BY <1>13, <2>2, <2>3 DEF WriteResponse
<1>14. CASE KeepAlive(id)
  <2>1. /\ UNCHANGED <<fetched, pending_requests, pending_responses, answers>>
        /\ connections[id].hs = "keepalive"
    BY <1>14 DEF KeepAlive
  <2>2. CASE removing' = Append(removing, id) /\ UNCHANGED connections
    BY <1>10, <2>1, <2>2
  <2>3. CASE connections' = [connections EXCEPT ![id].hs = "reading"] /\ UNCHANGED removing
    <3>1. "reading" \in States  BY DEF States
    <3>2. /\ ConnInv' /\ DOMAIN connections' = DOMAIN connections
          /\ connections'[id].hs = "reading"
          /\ \A x \in DOMAIN connections :
                /\ connections'[x].client = connections[x].client /\ connections'[x].req = connections[x].req
                /\ connections'[x].resp = connections[x].resp
                /\ x # id => connections'[x].hs = connections[x].hs
      BY <1>1, <1>2, <1>5, <2>3, <3>1, StateSet
    <3>3. removing' \in Seq(Int)  BY <1>1, <2>3 DEF DataInv
    <3>4. MatchInv'
      <4>1. \A x \in DOMAIN connections :
               /\ connections'[x].client = connections[x].client
               /\ \/ /\ connections'[x].hs = connections[x].hs /\ connections'[x].req = connections[x].req
                     /\ connections'[x].resp = connections[x].resp
                  \/ connections'[x].hs \in {"reading", "keepalive"} /\ connections[x].hs # "processing"
        BY <2>1, <3>2
      <4>. QED  BY <1>2, <2>1, <3>2, <3>3, <4>1, QuietVisit
    <3>. QED  BY <1>9, <2>1, <2>3, <3>2, <3>4
  <2>. QED  BY <1>14, <2>2, <2>3 DEF KeepAlive
<1>. QED  BY <1>3, <1>11, <1>12, <1>13, <1>14


\* retain() of a queue nothing of which is to go.
LEMMA RetainAll ==
    ASSUME NEW s \in Seq(Int), NEW S, \A i \in 1..Len(s) : s[i] \notin S PROVE Retain(s, S) = s
<1> DEFINE n == Len(s)
           kept == {i \in 1..Len(s) : s[i] \notin S}
           Nth(j) == CHOOSE i \in kept : Cardinality({k \in kept : k <= i}) = j
<1>1. n \in Nat  OBVIOUS
<1>2. kept = 1..n  OBVIOUS
<1>3. Retain(s, S) = [j \in 1..Cardinality(kept) |-> s[Nth(j)]]  BY DEF Retain
<1> HIDE DEF n, kept
<1>4. Cardinality(kept) = n
  <2>1. Cardinality(1..n) = IF 1 > n THEN 0 ELSE n - 1 + 1  BY <1>1, FS_Interval
  <2>. QED  BY <1>1, <1>2, <2>1
<1>5. ASSUME NEW i \in 1..n PROVE Cardinality({k \in kept : k <= i}) = i
  <2>1. {k \in kept : k <= i} = 1..i  BY <1>1, <1>2
  <2>2. Cardinality(1..i) = IF 1 > i THEN 0 ELSE i - 1 + 1  BY <1>1, FS_Interval
  <2>3. Cardinality(1..i) = i  BY <1>1, <2>2
  <2>. QED  BY <2>1, <2>3
<1>6. ASSUME NEW j \in 1..n PROVE Nth(j) = j
  <2>1. j \in kept /\ Cardinality({k \in kept : k <= j}) = j  BY <1>2, <1>5
  <2>2. \A i \in kept : Cardinality({k \in kept : k <= i}) = i  BY <1>2, <1>5
  <2>3. Nth(j) \in kept /\ Cardinality({k \in kept : k <= Nth(j)}) = j  BY <2>1
  <2> HIDE DEF Nth
  <2>. QED  BY <2>2, <2>3
<1> HIDE DEF Nth
<1>7. Retain(s, S) = [j \in 1..n |-> s[j]]  BY <1>3, <1>4, <1>6
<1>8. s = [j \in 1..n |-> s[j]]  BY DEF n
<1>. QED  BY <1>7, <1>8

\* Broken connections are removed.  None of their requests is still waiting
\* for the graph, so the queue stays as it is.
LEMMA ServedMatches ==
    ASSUME MatchInv, VisitInv, SocketInv, IsServer, ~kind.routed, ServeDone
    PROVE  MatchInv' /\ VisitInv' /\ SocketInv'
<1>1. DataInv /\ QueueInv /\ RequestInv /\ WaitInv /\ ResponseInv /\ OneInv /\ ConnInv /\ AnswerInv
  BY DEF MatchInv, SocketInv
<1>2. UNCHANGED <<kind, inq, sent, open, outq, delivered, held, ids, answers, fetched, pending_requests>>
  <2>1. UNCHANGED <<kind, edges, ioVars, ids, answers, pending_requests>>  BY DEF ServeDone
  <2>2. UNCHANGED <<held, fetched>>  BY <2>1 DEF ioVars, history
  <2>. QED  BY <2>1, <2>2 DEF edges
<1>3. todo' = {} /\ removing' = <<>>  BY DEF ServeDone
<1> DEFINE gone == SeqExt!ToSet(removing)
           waited == {connections[id].req :
                         id \in {i \in gone : connections[i].hs \in {"pending", "writing"}}}
<1>4. /\ connections' = Without(connections, gone)
      /\ response_wait_queue' = Retain(response_wait_queue, waited)
      /\ pending_responses' \subseteq pending_responses
  BY DEF ServeDone
<1>5. gone = Removing
  <2>1. removing \in Seq(Int)  BY <1>1 DEF DataInv
  <2>2. DOMAIN removing = 1..Len(removing)  BY <2>1
  <2>. QED  BY <2>2 DEF Removing, SeqExt!ToSet
<1> HIDE DEF gone
<1>6. Asked' = Asked /\ Received' = Received /\ Received \in Int /\ Received \in Nat /\ RespInv'
  BY <1>2, VisitEdges
<1>7. response_wait_queue' = response_wait_queue
  <2>1. ASSUME NEW id \in gone, connections[id].hs \in {"pending", "writing"},
               NEW i \in 1..Len(response_wait_queue)
        PROVE  response_wait_queue[i] # connections[id].req
    <3>1. id \in DOMAIN connections /\ connections[id].hs = "writing"
      <4>1. id \in DOMAIN connections /\ connections[id].hs \in {"reading", "writing", "keepalive"}
        BY <1>5, <2>1 DEF VisitInv
      <4>. QED  BY <2>1, <4>1
    <3>2. Waits(id)  BY <1>1, <3>1 DEF WaitInv
    <3>3. Len(response_wait_queue) \in Nat /\ Len(Asked) \in Nat
      <4>1. response_wait_queue \in Seq(Int)  BY <1>1 DEF DataInv
      <4>. QED  BY <1>1, <4>1, AskedIs
    <3>4. Received + i \in 1..Len(Asked) /\ response_wait_queue[i] = Asked[Received + i][2]
      BY <1>1, <1>6, <3>3 DEF QueueInv
    <3>5. CASE connections[id].resp = 0
      <4>1. Refused(connections[id].req)  BY <3>1, <3>2, <3>5 DEF Waits
      <4>. QED  BY <3>4, <4>1 DEF Refused
    <3>6. CASE connections[id].resp # 0
      <4>1. IsFor(connections[id].resp, connections[id].req)  BY <3>1, <3>2, <3>6 DEF Waits
      <4>2. PICK n \in 1..Received : Asked[n][2] = connections[id].req  BY <4>1 DEF IsFor
      <4>3. n \in 1..Len(Asked) /\ n # Received + i  BY <1>6, <3>3, <3>4
      <4>. QED  BY <1>1, <3>4, <4>2, <4>3 DEF RequestInv
    <3>. QED  BY <3>5, <3>6
  <2>2. \A i \in 1..Len(response_wait_queue) : response_wait_queue[i] \notin waited  BY <2>1
  <2>3. response_wait_queue \in Seq(Int)  BY <1>1 DEF DataInv
  <2> HIDE DEF waited
  <2>. QED  BY <1>4, <2>2, <2>3, RetainAll
<1> HIDE DEF waited
<1>8. /\ ConnInv' /\ DOMAIN connections' = DOMAIN connections \ gone
      /\ \A x \in DOMAIN connections' : connections'[x] = connections[x]
  BY <1>1, <1>2, <1>4, Dropped
<1>9. DataInv'
  <2>1. \A x \in DOMAIN connections' : connections'[x].hs # "shaking"  BY <1>1, <1>8 DEF DataInv
  <2>2. removing' \in Seq(Int)  BY <1>3
  <2>. QED  BY <1>1, <1>2, <1>7, <2>1, <2>2 DEF DataInv
<1>10. QueueInv'  BY <1>1, <1>6, <1>7, QueueStays
<1>11. Preserves(0)
  <2>1. Received' \in Int /\ Received <= Received'  BY <1>6
  <2>. QED  BY <1>1, <1>2, <1>6, <2>1, KeepsReading
<1>12. RequestInv'
  <2>1. fetched' \in Int /\ fetched <= fetched'  BY <1>1, <1>2 DEF DataInv
  <2>2. \A x \in DOMAIN connections : connections[x].hs = "processing" =>
               x \in DOMAIN connections' /\ connections'[x].hs = "processing"
    <3>1. \A x \in gone : connections[x].hs # "processing"  BY <1>5 DEF VisitInv
    <3>. QED  BY <1>8, <3>1
  <2>. QED  BY <1>1, <1>2, <1>6, <2>1, <2>2, RequestStays
<1>13. WaitInv'
  <2>1. DOMAIN connections' \subseteq DOMAIN connections /\ \A x \in DOMAIN connections' :
               /\ connections'[x].client = connections[x].client
               /\ connections'[x].hs \in {"pending", "writing"} =>
                      /\ connections'[x].hs = connections[x].hs /\ connections'[x].req = connections[x].req
                      /\ connections'[x].resp = connections[x].resp
    BY <1>8
  <2>. QED  BY <1>1, <1>11, <2>1, WaitStays
<1>14. ResponseInv'  BY <1>1, <1>4, <1>11, ResponseStays
<1>15. OneInv'
  <2>1. DOMAIN connections' \subseteq DOMAIN connections /\ \A x \in DOMAIN connections' :
           connections'[x].hs = "writing" =>
               connections[x].hs = "writing" /\ connections'[x].resp = connections[x].resp
    BY <1>8
  <2>. QED  BY <1>1, <1>4, <2>1, OneStays
<1>16. VisitInv'
  <2>1. Removing' = {}
    <3>1. Len(removing') = 0  BY <1>3
    <3>. QED  BY <3>1 DEF Removing
  <2>. QED  BY <1>3, <2>1 DEF VisitInv
<1>17. AnswerInv' /\ RoutedInv'
  <2>1. AnswerInv'  BY <1>1, <1>2, <1>6, AnswersStay
  <2>. QED  BY <1>2, <2>1 DEF RoutedInv
<1>. QED
  BY <1>6, <1>8, <1>9, <1>10, <1>12, <1>13, <1>14, <1>15, <1>16, <1>17 DEF MatchInv, SocketInv


\* The first of pending_requests is given to the graph, or refused.
LEMMA SentMatches ==
    ASSUME MatchInv, VisitInv, SocketInv, IsServer, ~kind.routed, SendRequest
    PROVE  MatchInv' /\ VisitInv' /\ SocketInv'
<1>1. DataInv /\ QueueInv /\ RequestInv /\ WaitInv /\ ResponseInv /\ OneInv /\ ConnInv /\ AnswerInv
  BY DEF MatchInv, SocketInv
<1>2. /\ UNCHANGED <<kind, inq, sent, open, delivered, held, ids, answers, fetched, todo, removing>>
      /\ pending_requests # <<>> /\ phase = "request"
  <2>1. /\ UNCHANGED <<kind, inq, sent, open, delivered, ids, answers, todo, removing, ioVars>>
        /\ pending_requests # <<>> /\ phase = "request"
    BY DEF SendRequest
  <2>2. UNCHANGED <<held, fetched>>  BY <2>1 DEF ioVars, history
  <2>. QED  BY <2>1, <2>2
<1>3. /\ Len(pending_requests) \in Nat \ {0} /\ Head(pending_requests) = pending_requests[1]
      /\ pending_requests[1] \in Int \X Int \X BOOLEAN
      /\ Tail(pending_requests) \in Seq(Int \X Int \X BOOLEAN)
      /\ Len(Tail(pending_requests)) = Len(pending_requests) - 1
      /\ \A i \in 1..Len(Tail(pending_requests)) :
            Tail(pending_requests)[i] = pending_requests[i + 1] /\ i + 1 \in 1..Len(pending_requests)
  <2>1. pending_requests \in Seq(Int \X Int \X BOOLEAN)  BY <1>1 DEF DataInv
  <2>. QED  BY <1>2, <2>1, TailAt
<1>4. PICK r \in Int, id \in Int, routed \in BOOLEAN :
          pending_requests[1][1] = r /\ pending_requests[1][2] = id /\ pending_requests[1][3] = routed
  BY <1>3
<1>5. /\ id \in DOMAIN connections /\ connections[id].hs = "processing" /\ r < fetched
      /\ \A k \in 1..Len(Asked) : Asked[k][2] # r
  <2>1. Queued(1)  BY <1>1, <1>3 DEF RequestInv
  <2>. QED  BY <1>4, <2>1 DEF Queued, Refused
<1>6. PICK c \in Int : c = connections[id].client
  <2>1. connections[id] \in Conn  BY <1>1, <1>5 DEF ConnInv
  <2>. QED  BY <2>1 DEF Conn
<1>7. /\ connections' = Await(id, r) /\ pending_requests' = Tail(pending_requests)
      /\ \/ /\ Push(1, <<1, r, c>>) /\ response_wait_queue' = Append(response_wait_queue, r)
            /\ UNCHANGED pending_responses
         \/ /\ pending_responses' = pending_responses \cup {<<r, 0, 1>>}
            /\ UNCHANGED <<outq, response_wait_queue>>
      /\ \E left, units : Goto("request", left, units)
  BY <1>3, <1>4, <1>6 DEF SendRequest, Refusal
<1>8. phase' = "request"  BY <1>7, GotoTo
<1>9. /\ ConnInv' /\ DOMAIN connections' = DOMAIN connections
      /\ connections'[id].hs = "pending" /\ connections'[id].req = r
      /\ \A x \in DOMAIN connections :
            /\ connections'[x].client = connections[x].client
            /\ connections'[x].resp = connections[x].resp
            /\ x # id => connections'[x].hs = connections[x].hs /\ connections'[x].req = connections[x].req
  BY <1>1, <1>2, <1>5, <1>7, AwaitSet
<1>10. RespInv' /\ Received' = Received /\ Received \in Int /\ Received \in Nat
  BY <1>2, ResponsesStay, ReceivedIs DEF SocketInv
<1> DEFINE x == <<1, r, c>>  k == Len(Asked)
<1>11. x \in Triple /\ x[2] = r /\ x[3] = c  BY DEF Triple
<1>12. k \in Nat /\ Received <= k /\ \A j \in 1..k : Asked[j][2] \in Int
  <2>1. inq[1] \in Seq(Int) /\ sent[1] \in Nat  BY DEF SocketInv, RespInv, InPorts
  <2>2. Len(inq[1]) \in Nat /\ Len(delivered[1]) \in Nat /\ sent[1] <= Len(delivered[1])
        /\ Len(delivered[1]) <= k /\ k \in Nat
    BY <1>1, <2>1, AskedIs DEF DataInv
  <2>3. Received <= k  BY <2>1, <2>2 DEF Received
  <2>. QED  BY <1>1, <2>2, <2>3, AskedIs
<1>13. /\ outq' \in [OutPorts -> Seq(Triple)] /\ response_wait_queue' \in Seq(Int)
       /\ \/ /\ Len(Asked') = k + 1 /\ Asked'[k + 1] = x /\ \A j \in 1..k : Asked'[j] = Asked[j]
             /\ UNCHANGED pending_responses
             /\ response_wait_queue' = Append(response_wait_queue, r)
          \/ /\ Asked' = Asked /\ UNCHANGED response_wait_queue
             /\ pending_responses' = pending_responses \cup {<<r, 0, 1>>}
  <2>1. CASE /\ Push(1, x) /\ response_wait_queue' = Append(response_wait_queue, r)
             /\ UNCHANGED pending_responses
    <3>1. response_wait_queue' \in Seq(Int)  BY <1>1, <2>1, AppendAt DEF DataInv
    <3>. QED  BY <1>1, <1>2, <1>11, <2>1, <3>1, AskedPush
  <2>2. CASE /\ pending_responses' = pending_responses \cup {<<r, 0, 1>>}
             /\ UNCHANGED <<outq, response_wait_queue>>
    <3>1. Asked' = Asked  BY <1>2, <2>2 DEF Asked, OutOf
    <3>. QED  BY <1>1, <2>2, <3>1 DEF DataInv
  <2>. QED  BY <1>7, <2>1, <2>2
<1> HIDE DEF x, k
<1>14. \A j \in 1..Len(Asked') : (j \in 1..k /\ Asked'[j] = Asked[j]) \/ (j = k + 1 /\ Asked'[j] = x)
  <2>1. CASE Len(Asked') = k + 1 /\ Asked'[k + 1] = x /\ \A j \in 1..k : Asked'[j] = Asked[j]
    <3>1. \A j \in 1..(k + 1) : j \in 1..k \/ j = k + 1  BY <1>12
    <3>. QED  BY <2>1, <3>1
  <2>2. CASE Asked' = Asked  BY <2>2 DEF k
  <2>. QED  BY <1>13, <2>1, <2>2
<1>15. Len(Asked') \in Nat /\ k <= Len(Asked')  BY <1>12, <1>13 DEF k
<1>16. Preserves(0)
  BY <1>1, <1>2, <1>4, <1>7, <1>10, <1>11, <1>13, <1>15, KeepsSending DEF k
<1>17. DataInv'
  <2>1. \A y \in DOMAIN connections' : connections'[y].hs # "shaking"  BY <1>1, <1>9 DEF DataInv
  <2>. QED  BY <1>1, <1>2, <1>3, <1>7, <1>13, <2>1 DEF DataInv
<1>18. QueueInv'
  <2> DEFINE q == response_wait_queue  n == Len(q)
  <2>1. q \in Seq(Int) /\ n \in Nat /\ n = k - Received  BY <1>1 DEF DataInv, QueueInv, k
  <2>2. CASE Asked' = Asked /\ UNCHANGED response_wait_queue  BY <1>1, <1>10, <2>2, QueueStays
  <2>3. CASE /\ Len(Asked') = k + 1 /\ Asked'[k + 1] = x /\ \A j \in 1..k : Asked'[j] = Asked[j]
             /\ response_wait_queue' = Append(q, r)
    <3>1. /\ Len(q') = n + 1 /\ q'[n + 1] = r /\ \A i \in 1..n : q'[i] = q[i]  BY <2>1, <2>3, AppendAt
    <3>2. Len(q') = Len(Asked') - Received'  BY <1>10, <1>12, <2>1, <2>3, <3>1
    <3>3. ASSUME NEW i \in 1..(n + 1) PROVE q'[i] = Asked'[Received + i][2]
      <4>1. CASE i \in 1..n
        <5>1. Received + i \in 1..k  BY <1>10, <1>12, <2>1, <4>1
        <5>2. q[i] = Asked[Received + i][2]  BY <1>1, <4>1 DEF QueueInv
        <5>. QED  BY <2>3, <3>1, <4>1, <5>1, <5>2
      <4>2. CASE i = n + 1
        <5>1. Received + i = k + 1  BY <1>10, <1>12, <2>1, <4>2
        <5>. QED  BY <1>11, <2>3, <3>1, <4>2, <5>1
      <4>. QED  BY <2>1, <4>1, <4>2
    <3>. QED  BY <1>10, <3>1, <3>2, <3>3 DEF QueueInv
  <2>. QED  BY <1>13, <2>2, <2>3
<1>19. \A i \in 1..Len(pending_requests') :
          /\ pending_requests'[i] = pending_requests[i + 1] /\ i + 1 \in 1..Len(pending_requests)
          /\ pending_requests[i + 1][1] # r /\ pending_requests[i + 1][2] # id
  <2>1. ASSUME NEW i \in 1..Len(pending_requests')
        PROVE  /\ pending_requests'[i] = pending_requests[i + 1] /\ i + 1 \in 1..Len(pending_requests)
               /\ i + 1 # 1 /\ 1 \in 1..Len(pending_requests)
    <3>1. i \in 1..Len(Tail(pending_requests)) /\ Len(Tail(pending_requests)) \in Nat  BY <1>3, <1>7
    <3>2. i + 1 # 1 /\ 1 \in 1..Len(pending_requests)  BY <1>3, <3>1
    <3>. QED  BY <1>3, <1>7, <3>1, <3>2
  <2>. QED  BY <1>1, <1>4, <2>1 DEF RequestInv
<1>20. RequestInv'
  <2>1. \A i, j \in 1..Len(Asked') : Asked'[i][2] = Asked'[j][2] => i = j
    <3>1. \A j \in 1..k : Asked[j][2] # r  BY <1>5 DEF k
    <3>2. \A i, j \in 1..k : Asked[i][2] = Asked[j][2] => i = j  BY <1>1 DEF RequestInv, k
    <3>. QED  BY <1>11, <1>14, <3>1, <3>2
  <2>2. \A j \in 1..Len(Asked') : Asked'[j][2] < fetched'
    <3>1. \A j \in 1..k : Asked[j][2] < fetched  BY <1>1 DEF RequestInv, k
    <3>. QED  BY <1>2, <1>5, <1>11, <1>14, <3>1
  <2>3. ASSUME NEW i \in 1..Len(pending_requests') PROVE Queued(i)'
    <3>1. /\ pending_requests'[i] = pending_requests[i + 1] /\ i + 1 \in 1..Len(pending_requests)
          /\ pending_requests[i + 1][1] # r /\ pending_requests[i + 1][2] # id
      BY <1>19
    <3>2. Queued(i + 1)  BY <1>1, <3>1 DEF RequestInv
    <3>3. \A j \in 1..Len(Asked') : Asked'[j][2] # pending_requests'[i][1]
      BY <1>11, <1>14, <3>1, <3>2 DEF Queued, Refused, k
    <3>4. Refused(pending_requests[i][1])'  BY <3>3 DEF Refused
    <3>. QED  BY <1>2, <1>9, <3>1, <3>2, <3>4 DEF Queued
  <2>4. ASSUME NEW i \in 1..Len(pending_requests'), NEW j \in 1..Len(pending_requests'),
               \/ pending_requests'[i][1] = pending_requests'[j][1]
               \/ pending_requests'[i][2] = pending_requests'[j][2]
        PROVE  i = j
    <3>1. i + 1 = j + 1  BY <1>1, <1>19, <2>4 DEF RequestInv
    <3>2. i \in Int /\ j \in Int  BY <1>3, <1>7
    <3>. QED  BY <3>1, <3>2
  <2>. QED  BY <2>1, <2>2, <2>3, <2>4 DEF RequestInv
<1>21. Settled(r)'  BY <1>2, <1>5, <1>19 DEF Settled
<1>22. WaitInv'
  <2>1. ASSUME NEW y \in DOMAIN connections' PROVE Waits(y)'
    <3>1. CASE y = id
      <4>1. AskedBy(r, c)'  BY <1>5, <1>11, <1>14 DEF AskedBy, k
      <4>2. connections'[id].client = c  BY <1>5, <1>6, <1>9
      <4>. QED  BY <1>9, <1>21, <3>1, <4>1, <4>2 DEF Waits
    <3>2. CASE y # id
      <4>1. y \in DOMAIN connections /\ Waits(y)  BY <1>1, <1>9 DEF WaitInv
      <4>. QED  BY <1>1, <1>9, <1>16, <3>2, <4>1, WaitsOn
    <3>. QED  BY <3>1, <3>2
  <2>. QED  BY <2>1 DEF WaitInv
<1>23. ResponseInv'
  <2>1. CASE UNCHANGED pending_responses  BY <1>1, <1>16, <2>1, ResponseStays
  <2>2. CASE pending_responses' = pending_responses \cup {<<r, 0, 1>>} /\ Asked' = Asked
    <3>1. ASSUME NEW e \in pending_responses PROVE Responds(e)'  BY <1>1, <1>16, RespondsOn DEF ResponseInv
    <3>2. Responds(<<r, 0, 1>>)'
      <4>1. <<r, 0, 1>> \in Triple  BY DEF Triple
      <4>2. Refused(r)'  BY <1>5, <2>2 DEF Refused
      <4>. QED  BY <1>21, <4>1, <4>2 DEF Responds
    <3>. QED  BY <2>2, <3>1, <3>2 DEF ResponseInv
  <2>. QED  BY <1>13, <2>1, <2>2
<1>24. OneInv'
  <2>1. ASSUME NEW y \in DOMAIN connections', NEW n \in Int, Writer(y, n)'
        PROVE  /\ \A e \in pending_responses' : e[2] # n
               /\ \A other \in DOMAIN connections' : Writer(other, n)' => other = y
    <3>1. \A z \in DOMAIN connections' : z \in DOMAIN connections /\ (Writer(z, n)' => Writer(z, n))
      BY <1>9 DEF Writer
    <3>2. n # 0  BY <2>1 DEF Writer
    <3>3. \A e \in pending_responses' : e \in pending_responses \/ e[2] = 0  BY <1>13
    <3>. QED  BY <1>1, <2>1, <3>1, <3>2, <3>3 DEF OneInv
  <2>. QED  BY <2>1 DEF OneInv
<1>25. VisitInv'
  <2>1. removing = <<>> /\ todo \subseteq DOMAIN connections  BY <1>2 DEF VisitInv
  <2>2. Removing' = {}
    <3>1. Len(removing') = 0  BY <1>2, <2>1
    <3>. QED  BY <3>1 DEF Removing
  <2>. QED  BY <1>2, <1>9, <2>1, <2>2 DEF VisitInv
<1>26. AnswerInv' /\ RoutedInv'
  <2>1. AnswerInv'  BY <1>1, <1>2, <1>10, AnswersStay
  <2>. QED  BY <1>2, <2>1 DEF RoutedInv
<1>. QED
  BY <1>9, <1>10, <1>17, <1>18, <1>20, <1>22, <1>23, <1>24, <1>25, <1>26 DEF MatchInv, SocketInv


\* A response goes to the request that has waited longest, which is its own.
LEMMA TakenMatches ==
    ASSUME MatchInv, VisitInv, SocketInv, IsServer, ~kind.routed, TakeResponse
    PROVE  MatchInv' /\ VisitInv' /\ SocketInv'
<1>1. DataInv /\ QueueInv /\ RequestInv /\ WaitInv /\ ResponseInv /\ OneInv /\ ConnInv /\ AnswerInv
      /\ RespInv
  BY DEF MatchInv, SocketInv
<1>2. /\ UNCHANGED <<kind, sent, open, outq, delivered, held, ids, answers, fetched, todo, removing,
                     connections, pending_requests>>
      /\ phase = "response" /\ inq[1] # <<>> /\ Pop(1)
  <2>1. /\ UNCHANGED <<kind, sent, open, outq, delivered, ids, answers, todo, removing, ioVars,
                       connections, pending_requests>>
        /\ phase = "response" /\ inq[1] # <<>> /\ Pop(1)
    BY DEF TakeResponse
  <2>2. UNCHANGED <<held, fetched>>  BY <2>1 DEF ioVars, history
  <2>. QED  BY <2>1, <2>2
<1>3. PICK m \in Int : m = Received + 1  BY <1>1, ReceivedIs
<1>4. /\ RespInv' /\ Response = m /\ Received' = m /\ Received \in Nat /\ m <= sent[1] /\ Received' \in Int
  BY <1>1, <1>2, <1>3, ResponsePops DEF Response
<1>5. Asked' = Asked  BY <1>2 DEF Asked, OutOf
<1> DEFINE q == response_wait_queue
<1>6. Len(Asked) \in Nat /\ m \in 1..Len(Asked) /\ q \in Seq(Int) /\ Len(q) \in Nat
  <2>1. Len(Asked) \in Nat /\ Len(delivered[1]) \in Nat /\ Len(delivered[1]) <= Len(Asked)
        /\ sent[1] <= Len(delivered[1]) /\ q \in Seq(Int)
    BY <1>1, AskedIs DEF DataInv
  <2>2. sent[1] \in Nat  BY <1>1 DEF RespInv, InPorts
  <2>. QED  BY <1>3, <1>4, <2>1, <2>2
<1>7. q # <<>>
  <2>1. Len(q) = Len(Asked) - Received  BY <1>1 DEF QueueInv
  <2>2. Len(q) # 0  BY <1>3, <1>4, <1>6, <2>1
  <2>. QED  BY <2>2
<1>8. /\ Len(q) \in Nat \ {0} /\ Head(q) = q[1] /\ q[1] \in Int /\ Tail(q) \in Seq(Int)
      /\ Len(Tail(q)) = Len(q) - 1
      /\ \A i \in 1..Len(Tail(q)) : Tail(q)[i] = q[i + 1] /\ i + 1 \in 1..Len(q)
  BY <1>6, <1>7, TailAt
<1>9. PICK r \in Int : r = q[1]  BY <1>8
<1>10. Asked[m][2] = r  BY <1>1, <1>3, <1>8, <1>9 DEF QueueInv
<1>11. /\ pending_responses' = pending_responses \cup {<<r, m, 1>>} /\ q' = Tail(q)
       /\ phase' = "response"
  <2>1. /\ pending_responses' = pending_responses \cup {<<r, m, 1>>} /\ q' = Tail(q)
        /\ \E left, units : Goto("response", left, units)
    BY <1>4, <1>7, <1>8, <1>9 DEF TakeResponse
  <2>. QED  BY <2>1, GotoTo
<1>12. ConnInv'  BY <1>1, <1>2, ConnStays
<1>13. AnswerInv'
  <2>1. Received \in Int /\ Received <= Received'  BY <1>3, <1>4
  <2>. QED  BY <1>1, <1>2, <1>4, <2>1, AnswersStay
<1>14. Unwritten(m)
  <2>1. Received \in Int /\ m > Received  BY <1>3, <1>4
  <2>. QED  BY <1>1, <2>1, NextUnwritten
<1>15. RoutedInv'  BY <1>2 DEF RoutedInv
<1>16. DataInv'  BY <1>1, <1>2, <1>8, <1>11 DEF DataInv
<1>17. QueueInv'
  <2>1. Len(q') = Len(Asked') - Received'
    <3>1. Len(q) = Len(Asked) - Received  BY <1>1 DEF QueueInv
    <3>2. Len(q') = Len(q) - 1  BY <1>8, <1>11
    <3>. QED  BY <1>3, <1>4, <1>5, <1>6, <3>1, <3>2
  <2>2. ASSUME NEW i \in 1..Len(q') PROVE q'[i] = Asked'[Received' + i][2]
    <3>1. i \in 1..Len(Tail(q))  BY <1>11
    <3>2. q'[i] = q[i + 1] /\ i + 1 \in 1..Len(q)  BY <1>8, <1>11, <3>1
    <3>3. q[i + 1] = Asked[Received + (i + 1)][2]  BY <1>1, <3>2 DEF QueueInv
    <3>4. Received + (i + 1) = Received' + i  BY <1>3, <1>4, <1>8, <3>1
    <3>. QED  BY <1>5, <3>2, <3>3, <3>4
  <2>. QED  BY <2>1, <2>2 DEF QueueInv
<1>18. Preserves(0)
  <2>1. Received <= Received' /\ fetched' = fetched  BY <1>2, <1>3, <1>4
  <2>. QED  BY <1>1, <1>2, <1>4, <1>5, <2>1, KeepsReading
<1>19. RequestInv'
  <2>1. fetched' \in Int /\ fetched <= fetched'  BY <1>1, <1>2 DEF DataInv
  <2>. QED  BY <1>1, <1>2, <1>5, <2>1, RequestStays
<1>20. WaitInv'  BY <1>1, <1>2, <1>18, WaitStays
<1>21. ResponseInv'
  <2>1. ASSUME NEW e \in pending_responses PROVE Responds(e)'  BY <1>1, <1>18, RespondsOn DEF ResponseInv
  <2>2. Responds(<<r, m, 1>>)'
    <3>1. <<r, m, 1>> \in Triple  BY DEF Triple
    <3>2. m \in 1..Received' /\ Asked'[m][2] = r /\ m # 0  BY <1>3, <1>4, <1>5, <1>10
    <3>3. Unwritten(m)'  BY <1>2, <1>14 DEF Unwritten
    <3>4. IsFor(m, r)'  BY <3>2, <3>3 DEF IsFor
    <3>. QED  BY <3>1, <3>2, <3>4 DEF Responds
  <2>. QED  BY <1>11, <2>1, <2>2 DEF ResponseInv
<1>22. OneInv'
  <2>1. ASSUME NEW y \in DOMAIN connections, NEW n \in Int, Writer(y, n) PROVE n # m
    <3>1. Waits(y) /\ connections[y].hs = "writing" /\ connections[y].resp = n /\ n # 0
      BY <1>1, <2>1 DEF WaitInv, Writer
    <3>2. IsFor(n, connections[y].req)  BY <3>1 DEF Waits
    <3>. QED  BY <1>3, <1>4, <3>2 DEF IsFor
  <2>2. \A y, n : Writer(y, n)' <=> Writer(y, n)  BY <1>2 DEF Writer
  <2>3. \A e \in pending_responses' : e \in pending_responses \/ e[2] = m  BY <1>11
  <2>4. ASSUME NEW y \in DOMAIN connections', NEW n \in Int, Writer(y, n)'
        PROVE  /\ \A e \in pending_responses' : e[2] # n
               /\ \A other \in DOMAIN connections' : Writer(other, n)' => other = y
    <3>1. y \in DOMAIN connections /\ Writer(y, n) /\ n # m  BY <1>2, <2>1, <2>2, <2>4
    <3>. QED  BY <1>1, <1>2, <2>2, <2>3, <3>1 DEF OneInv
  <2>. QED  BY <2>4 DEF OneInv
<1>23. VisitInv'
  <2>1. removing = <<>> /\ todo \subseteq DOMAIN connections  BY <1>2 DEF VisitInv
  <2>2. Removing' = {}
    <3>1. Len(removing') = 0  BY <1>2, <2>1
    <3>. QED  BY <3>1 DEF Removing
  <2>. QED  BY <1>2, <2>1, <2>2 DEF VisitInv
<1>. QED
  BY <1>4, <1>12, <1>13, <1>15, <1>16, <1>17, <1>19, <1>20, <1>21, <1>22, <1>23 DEF MatchInv, SocketInv

\* Steps that touch neither requests nor responses; a client may come.
LEMMA OtherMatches ==
    ASSUME MatchInv, SocketInv, IsServer, Asked' = Asked, Received' = Received,
           UNCHANGED <<held, fetched, pending_requests, response_wait_queue, pending_responses, answers>>,
           removing' \in {removing, <<>>},
           outq' \in [OutPorts -> Seq(Triple)], delivered' \in [OutPorts -> Seq(Triple)],
           sent'[1] <= Len(delivered'[1]), DOMAIN connections \subseteq DOMAIN connections',
           \A y \in DOMAIN connections' :
               IF y \in DOMAIN connections THEN connections'[y] = connections[y]
                                           ELSE connections'[y].hs = "reading"
    PROVE  MatchInv'
<1>1. DataInv /\ QueueInv /\ RequestInv /\ WaitInv /\ ResponseInv /\ OneInv /\ ConnInv
  BY DEF MatchInv, SocketInv
<1>2. Received \in Int  BY ReceivedIs DEF SocketInv
<1>3. DataInv'
  <2>1. \A y \in DOMAIN connections' : connections'[y].hs # "shaking"  BY <1>1 DEF DataInv
  <2>2. removing' \in Seq(Int)
    <3>1. removing \in Seq(Int) /\ <<>> \in Seq(Int)  BY <1>1 DEF DataInv
    <3>. QED  BY <3>1
  <2>. QED  BY <1>1, <2>1, <2>2 DEF DataInv
<1>4. QueueInv'  BY <1>1, QueueStays
<1>5. Preserves(0)
  <2>1. Received' \in Int /\ Received <= Received'  BY <1>2
  <2>. QED  BY <1>1, <2>1, KeepsReading
<1>6. RequestInv'
  <2>1. fetched' \in Int /\ fetched <= fetched'  BY <1>1 DEF DataInv
  <2>2. \A y \in DOMAIN connections : connections[y].hs = "processing" =>
               y \in DOMAIN connections' /\ connections'[y].hs = "processing"
    OBVIOUS
  <2>. QED  BY <1>1, <2>1, <2>2, RequestStays
<1>7. WaitInv'
  <2>1. ASSUME NEW y \in DOMAIN connections' PROVE Waits(y)'
    <3>1. CASE y \in DOMAIN connections
      <4>1. Waits(y) /\ connections'[y] = connections[y]  BY <1>1, <3>1 DEF WaitInv
      <4>. QED  BY <1>1, <1>5, <3>1, <4>1, WaitsOn
    <3>2. CASE y \notin DOMAIN connections  BY <3>2 DEF Waits
    <3>. QED  BY <3>1, <3>2
  <2>. QED  BY <2>1 DEF WaitInv
<1>8. ResponseInv'  BY <1>1, <1>5, ResponseStays
<1>9. OneInv'
  <2>1. ASSUME NEW y \in DOMAIN connections', NEW n \in Int, Writer(y, n)'
        PROVE  /\ \A e \in pending_responses' : e[2] # n
               /\ \A other \in DOMAIN connections' : Writer(other, n)' => other = y
    <3>1. \A z \in DOMAIN connections' : Writer(z, n)' => z \in DOMAIN connections /\ Writer(z, n)
      BY DEF Writer
    <3>. QED  BY <1>1, <2>1, <3>1 DEF OneInv
  <2>. QED  BY <2>1 DEF OneInv
<1>. QED  BY <1>3, <1>4, <1>6, <1>7, <1>8, <1>9 DEF MatchInv


\* Nothing is to be removed, and nothing is left to visit that is not there.
LEMMA VisitStays ==
    ASSUME removing' = <<>>, todo' \subseteq DOMAIN connections' PROVE VisitInv'
<1>1. Removing' = {}
  <2>1. Len(removing') = 0  OBVIOUS
  <2>. QED  BY <2>1 DEF Removing
<1>. QED  BY <1>1 DEF VisitInv

\* The neighbours of an HTTP server.
LEMMA NeighboursMatch ==
    ASSUME MatchInv, VisitInv, SocketInv, IsServer, kind.name = "HTTPServer", Neighbours,
           UNCHANGED <<ioVars, netVars>>
    PROVE  MatchInv' /\ VisitInv'
<1>1. DataInv /\ RespInv  BY DEF MatchInv, SocketInv
<1>2. /\ UNCHANGED <<connections, ids, pending_responses, todo, removing, answers, pending_requests,
                     response_wait_queue, held, fetched>>
  BY DEF netVars, serverVars, httpVars, ioVars, history
<1>3. UNCHANGED <<kind, phase>>  BY NeighboursCall DEF call
<1>4. VisitInv'  BY <1>2, <1>3 DEF VisitInv, Removing
<1>5. ASSUME Asked' = Asked, Received' = Received,
             outq' \in [OutPorts -> Seq(Triple)], delivered' \in [OutPorts -> Seq(Triple)],
             sent'[1] <= Len(delivered'[1])
      PROVE  MatchInv' /\ VisitInv'
  BY <1>2, <1>4, <1>5, OtherMatches
<1>6. CASE Feed
  <2>1. UNCHANGED <<outq, delivered>>  BY <1>6 DEF Feed
  <2>2. Asked' = Asked  BY <2>1 DEF Asked, OutOf
  <2>3. Received' = Received /\ sent'[1] = sent[1] + 1 /\ sent[1] < Len(delivered[1])
    BY <1>1, <1>6, ResponseFeeds DEF FeedLimit
  <2>4. sent[1] \in Nat /\ Len(delivered[1]) \in Nat  BY <1>1, AskedIs DEF RespInv, InPorts
  <2>5. sent'[1] <= Len(delivered'[1])  BY <2>1, <2>3, <2>4
  <2>. QED  BY <1>1, <1>5, <2>1, <2>2, <2>3, <2>5 DEF DataInv
<1>7. CASE Close \/ Configure \/ TimerFires
  <2>1. UNCHANGED <<outq, delivered, sent, inq>>  BY <1>7 DEF Close, Configure, TimerFires, edges
  <2>2. Asked' = Asked /\ Received' = Received  BY <2>1 DEF Asked, OutOf, Received
  <2>. QED  BY <1>1, <1>5, <2>1, <2>2 DEF DataInv
<1>8. CASE Drain
  <2>1. UNCHANGED <<inq, sent>>  BY <1>8 DEF Drain
  <2>2. /\ Asked' = Asked /\ Len(delivered[1]) <= Len(delivered'[1])
        /\ outq' \in [OutPorts -> Seq(Triple)] /\ delivered' \in [OutPorts -> Seq(Triple)]
    BY <1>1, <1>8, AskedDrain
  <2>3. Received' = Received  BY <2>1 DEF Received
  <2>4. delivered'[1] \in Seq(Triple) /\ Len(delivered[1]) \in Nat /\ sent[1] \in Nat
    BY <1>1, <2>2, AskedIs DEF RespInv, InPorts, OutPorts
  <2>5. Len(delivered'[1]) \in Nat  BY <2>4
  <2>6. sent'[1] <= Len(delivered'[1])  BY <1>1, <2>1, <2>2, <2>4, <2>5 DEF DataInv
  <2>. QED  BY <1>5, <2>2, <2>3, <2>6
<1>. QED  BY <1>6, <1>7, <1>8 DEF Neighbours

\* The steps an HTTP server shares with the others.
LEMMA ServerMatches ==
    ASSUME MatchInv, VisitInv, SocketInv, SocketInv', IsServer, PortInv, kind = HTTPServer, phase \in ServerPhases,
           \/ Activate /\ UNCHANGED <<ioVars, netVars>>
           \/ ServerStep /\ UNCHANGED httpVars
           \/ RequestsSent \/ ResponsesTaken
    PROVE  MatchInv' /\ VisitInv'
<1>1. DataInv /\ RespInv /\ ConnInv  BY DEF MatchInv, SocketInv
<1>2. kind.visit = "serve" /\ ~kind.routed /\ kind.handshake = "reading"  BY ServersAre
<1>3. phase \notin {"read", "respond", "retry"}  BY <1>2 DEF ServerPhases
<1>4. ASSUME UNCHANGED <<inq, sent, outq, delivered, held, fetched, pending_requests, response_wait_queue,
                         pending_responses, answers>>,
             removing' \in {removing, <<>>}, DOMAIN connections \subseteq DOMAIN connections',
             \A y \in DOMAIN connections' :
                 IF y \in DOMAIN connections THEN connections'[y] = connections[y]
                                             ELSE connections'[y].hs = "reading"
      PROVE  MatchInv'
  <2>1. Asked' = Asked /\ Received' = Received  BY <1>4 DEF Asked, OutOf, Received
  <2>. QED  BY <1>1, <1>4, <2>1, OtherMatches DEF DataInv
<1>5. ASSUME UNCHANGED <<inq, sent, outq, delivered, held, fetched, pending_requests, response_wait_queue,
                         pending_responses, answers, connections, todo, removing>>,
             phase \notin {"serve", "parse"}
      PROVE  MatchInv' /\ VisitInv'
  <2>1. MatchInv'  BY <1>4, <1>5
  <2>2. removing' = <<>> /\ todo' \subseteq DOMAIN connections'  BY <1>5 DEF VisitInv
  <2>. QED  BY <2>1, <2>2, VisitStays
<1>6. CASE \/ Activate /\ UNCHANGED <<ioVars, netVars>>
           \/ RequestsSent \/ ResponsesTaken
  <2>1. /\ UNCHANGED <<edges, ioVars, serverVars, httpVars>> /\ phase \in {"idle", "request", "response"}
    BY <1>6 DEF Activate, RequestsSent, ResponsesTaken, netVars
  <2>2. /\ UNCHANGED <<inq, sent, outq, delivered, held, fetched, pending_requests, response_wait_queue,
                       pending_responses, answers, connections, todo, removing>>
        /\ phase \notin {"serve", "parse"}
    BY <2>1 DEF edges, ioVars, history, serverVars, httpVars
  <2>. QED  BY <1>5, <2>2
<1>7. ASSUME UNCHANGED httpVars PROVE UNCHANGED <<pending_requests, response_wait_queue>>
  BY <1>7 DEF httpVars
<1>8. CASE Listen /\ UNCHANGED httpVars
  <2>1. /\ UNCHANGED <<inq, sent, outq, delivered, held, fetched,
                       pending_responses, answers, connections, todo, removing>>
        /\ phase \notin {"serve", "parse"}
    BY <1>8 DEF Listen, serverVars
  <2>. QED  BY <1>5, <1>7, <1>8, <2>1
<1>9. CASE FlushOutbound /\ UNCHANGED httpVars
  <2>1. held = <<>>  BY <1>1 DEF DataInv
  <2>2. /\ UNCHANGED <<inq, sent, outq, delivered, held, fetched,
                       pending_responses, answers, connections, todo, removing>>
        /\ phase \notin {"serve", "parse"}
    BY <1>9, <2>1 DEF FlushOutbound, serverVars
  <2>. QED  BY <1>5, <1>7, <1>9, <2>2
<1>10. CASE Accept /\ UNCHANGED httpVars
  <2>1. /\ UNCHANGED <<inq, sent, outq, delivered, held, fetched, pending_responses, answers, removing, kind>>
        /\ phase = "accept" /\ todo' = DOMAIN connections'
    BY <1>10 DEF Accept, edges
  <2>2. removing' = <<>>  BY <2>1 DEF VisitInv
  <2>3. VisitInv'  BY <2>1, <2>2, VisitStays
  <2>4. CASE UNCHANGED connections  BY <1>4, <1>7, <1>10, <2>1, <2>3, <2>4
  <2>5. CASE /\ ids' = Append(ids, NextClientId)
             /\ connections' = [id \in DOMAIN connections \cup {NextClientId} |->
                    IF id = NextClientId
                    THEN [client |-> Len(ids) + 1, hs |-> kind.handshake, req |-> 0, resp |-> 0]
                    ELSE connections[id]]
    <3>1. /\ DOMAIN connections' = DOMAIN connections \cup {NextClientId}
          /\ NextClientId \notin DOMAIN connections
          /\ connections'[NextClientId].hs = kind.handshake
          /\ \A x \in DOMAIN connections : connections'[x] = connections[x]
      BY <1>1, <2>1, <2>5, Accepted
    <3>2. DOMAIN connections \subseteq DOMAIN connections' /\ \A y \in DOMAIN connections' :
              IF y \in DOMAIN connections THEN connections'[y] = connections[y]
                                          ELSE connections'[y].hs = "reading"
      BY <1>2, <3>1
    <3>. QED  BY <1>4, <1>7, <1>10, <2>1, <2>3, <3>2
  <2>. QED  BY <1>10, <2>4, <2>5 DEF Accept
<1>11. CASE Handshake
  <2>1. \E id \in DOMAIN connections : connections[id].hs = "shaking"  BY <1>11 DEF Handshake
  <2>. QED  BY <1>1, <2>1 DEF DataInv
<1>12. ~(ReadClient \/ ReadDone \/ RouteResponse \/ RetryResponse \/ SendResponse \/ QueueResponse)
  BY <1>3 DEF ReadClient, ReadDone, RouteResponse, RetryResponse, SendResponse, QueueResponse
<1>13. CASE EndServer /\ UNCHANGED httpVars
  <2>1. /\ UNCHANGED <<inq, sent, outq, delivered, pending_responses, answers, todo, ioVars>>
        /\ phase = "end" /\ removing' = <<>>
    BY <1>2, <1>13 DEF EndServer, edges
  <2>2. UNCHANGED <<held, fetched>>  BY <2>1 DEF ioVars, history
  <2>3. connections' = Without(connections, SeqExt!ToSet(removing)) /\ UNCHANGED <<kind, ids>>
    BY <1>13 DEF EndServer
  <2>4. removing = <<>>  BY <2>1 DEF VisitInv
  <2>5. SeqExt!ToSet(removing) = {}  BY <2>4 DEF SeqExt!ToSet
  <2>6. /\ DOMAIN connections' = DOMAIN connections
        /\ \A x \in DOMAIN connections' : connections'[x] = connections[x]
    BY <1>1, <2>3, <2>5, Dropped
  <2>7. VisitInv'
    <3>1. todo' \subseteq DOMAIN connections'  BY <2>1, <2>6 DEF VisitInv
    <3>. QED  BY <2>1, <3>1, VisitStays
  <2>. QED  BY <1>4, <1>7, <1>13, <2>1, <2>2, <2>6, <2>7
<1>. QED  BY <1>6, <1>8, <1>9, <1>10, <1>11, <1>12, <1>13 DEF ServerStep

-----------------------------------------------------------------------------
(* The invariant and the theorem.                                          *)

AnswersInv == SocketInv /\ TornInv /\ HttpInv

\* A server starts without clients, requests or responses.
LEMMA AnswersInit == ASSUME Init PROVE AnswersInv
<1>1. /\ inq = [p \in InPorts |-> <<>>] /\ sent = [p \in InPorts |-> 0] /\ open = kind.inports
      /\ outq = [q \in OutPorts |-> <<>>] /\ delivered = [q \in OutPorts |-> <<>>] /\ kind \in Kinds
      /\ connections = [id \in {} |-> 0] /\ ids = <<>> /\ pending_responses = {} /\ todo = {}
      /\ removing = <<>> /\ answers = <<>> /\ torn = {} /\ pending_requests = <<>> /\ response_wait_queue = <<>>
      /\ held = <<>> /\ fetched = 0
  BY DEF Init, NodeInit, ServerInit, HttpInit, IoInit
<1>2. \A S : <<>> \in Seq(S) /\ Len(<<>>) = 0  OBVIOUS
<1>3. DOMAIN connections = {}  BY <1>1
<1>4. RespInv
  <2>1. SUFFICES ASSUME IsServer PROVE RespInv  BY DEF RespInv
  <2>2. PortInv  BY <1>1, <2>1 DEF PortInv, IsServer
  <2>3. open \subseteq {1}  BY <1>1, <2>1, <2>2, ServersAre
  <2>4. inq[1] = <<>> /\ sent[1] = 0  BY <1>1 DEF InPorts
  <2>5. Numbered(1)  BY <1>2, <2>4 DEF Numbered
  <2>6. inq \in [InPorts -> Seq(Int)] /\ sent \in [InPorts -> Nat]  BY <1>1, <1>2
  <2>. QED  BY <2>3, <2>5, <2>6 DEF RespInv
<1>5. ConnInv
  <2>1. connections \in [DOMAIN connections -> Conn]  BY <1>1
  <2>. QED  BY <1>1, <1>2, <1>3, <2>1 DEF ConnInv
<1>6. AnswerInv /\ RoutedInv  BY <1>1, <1>2 DEF AnswerInv, RoutedInv
<1>7. inq[1] = <<>> /\ sent[1] = 0 /\ delivered[1] = <<>> /\ outq[1] = <<>>
  BY <1>1 DEF InPorts, OutPorts
<1>8. Asked = <<>> /\ Received = 0
  <2>1. Asked = <<>> \o <<>>  BY <1>7 DEF Asked, OutOf
  <2>2. <<>> \o <<>> = <<>>  OBVIOUS
  <2>3. Len(inq[1]) = 0 /\ sent[1] = 0  BY <1>2, <1>7
  <2>4. Received = 0  BY <2>3 DEF Received
  <2>. QED  BY <2>1, <2>2, <2>4
<1>9. DataInv
  <2>1. outq \in [OutPorts -> Seq(Triple)] /\ delivered \in [OutPorts -> Seq(Triple)]  BY <1>1, <1>2
  <2>2. sent[1] <= Len(delivered[1])  BY <1>2, <1>7
  <2>. QED  BY <1>1, <1>2, <1>3, <2>1, <2>2 DEF DataInv
<1>10. QueueInv  BY <1>1, <1>2, <1>8 DEF QueueInv
<1>11. RequestInv  BY <1>1, <1>2, <1>8 DEF RequestInv
<1>12. WaitInv /\ OneInv  BY <1>3 DEF WaitInv, OneInv
<1>13. ResponseInv  BY <1>1 DEF ResponseInv
<1>14. VisitInv  BY <1>1, <1>2 DEF VisitInv, Removing
<1>15. TornInv  BY <1>1 DEF TornInv
<1>. QED
  BY <1>4, <1>5, <1>6, <1>9, <1>10, <1>11, <1>12, <1>13, <1>14, <1>15
  DEF AnswersInv, SocketInv, HttpInv, MatchInv

\* A stutter changes nothing.
LEMMA AnswersStutter == ASSUME AnswersInv, UNCHANGED vars PROVE AnswersInv'
<1>1. UNCHANGED <<kind, phase, inq, sent, open, outq, delivered, connections, ids, pending_responses, todo,
                  removing, answers, torn, pending_requests, response_wait_queue, held, fetched>>
  BY DEF vars, nodeVars, edges, call, ioVars, history, netVars, serverVars, httpVars
<1>2. Asked' = Asked /\ Received' = Received  BY <1>1 DEF Asked, OutOf, Received
<1>3. RespInv' <=> RespInv  BY <1>1 DEF RespInv, Numbered, IsServer
<1>4. ConnInv' <=> ConnInv  BY <1>1 DEF ConnInv, IsServer
<1>5. AnswerInv' <=> AnswerInv  BY <1>1, <1>2 DEF AnswerInv, IsServer
<1>6. RoutedInv' <=> RoutedInv  BY <1>1, <1>2 DEF RoutedInv, Unwritten, IsServer
<1>7. DataInv' <=> DataInv  BY <1>1 DEF DataInv
<1>8. QueueInv' <=> QueueInv  BY <1>1, <1>2 DEF QueueInv
<1>9. \A r : (Refused(r)' <=> Refused(r)) /\ (Settled(r)' <=> Settled(r))
  BY <1>1, <1>2 DEF Refused, Settled
<1>10. RequestInv' <=> RequestInv  BY <1>1, <1>2 DEF RequestInv, Queued, Refused
<1>11. WaitInv' <=> WaitInv
  BY <1>1, <1>2 DEF WaitInv, Waits, Refused, Settled, AskedBy, IsFor, Unwritten
<1>12. ResponseInv' <=> ResponseInv
  BY <1>1, <1>2 DEF ResponseInv, Responds, Refused, Settled, IsFor, Unwritten
<1>13. OneInv' <=> OneInv  BY <1>1 DEF OneInv, Writer
<1>14. VisitInv' <=> VisitInv  BY <1>1 DEF VisitInv, Removing
<1>15. TornInv' <=> TornInv  BY <1>1 DEF TornInv, IsServer
<1>. QED
  BY <1>1, <1>3, <1>4, <1>5, <1>6, <1>7, <1>8, <1>10, <1>11, <1>12, <1>13, <1>14, <1>15
  DEF AnswersInv, SocketInv, HttpInv, MatchInv

\* Nobody else writes a part of a response.
LEMMA TornStep ==
    ASSUME SocketInv, TornInv, PortInv, RestPhases, NoResults, IsServer, Next PROVE TornInv'
<1>1. UNCHANGED kind  BY KindStays
<1>2. kind # FileTailer  BY PollerNames DEF IsServer
<1>3. CASE UNCHANGED torn  BY <1>1, <1>3 DEF TornInv, IsServer
<1>4. CASE RetryResponse
  <2>1. kind.routed  BY <1>4 DEF RetryResponse, RestPhases, ServerPhases
  <2>. QED  BY <1>4, <2>1, TornRetry
<1>5. CASE RouteResponse  BY <1>5, TornRoute
<1>6. CASE \/ (Neighbours \/ Activate) /\ UNCHANGED <<ioVars, netVars>>
           \/ HttpStep
  BY <1>3, <1>6 DEF netVars, serverVars, HttpStep, ServeClient, ServeDone, SendRequest, RequestsSent,
     TakeResponse, ResponsesTaken
<1>7. CASE ServerStep /\ ~RouteResponse /\ ~RetryResponse
  <2>1. UNCHANGED torn
    BY <1>7 DEF ServerStep, Listen, FlushOutbound, Accept, Handshake, ReadClient, ReadDone, SendResponse,
       QueueResponse, EndServer, Write, serverVars
  <2>. QED  BY <1>3, <2>1
<1>. QED  BY <1>2, <1>4, <1>5, <1>6, <1>7, AloneSteps

\* Every step keeps it.
LEMMA AnswersStep ==
    ASSUME AnswersInv, PortInv, RestPhases, NoResults, [Next]_vars PROVE AnswersInv'
<1>1. CASE UNCHANGED vars  BY <1>1, AnswersStutter
<1> SUFFICES ASSUME Next PROVE AnswersInv'  BY <1>1
<1>2. UNCHANGED kind  BY KindStays
<1>3. CASE ~IsServer
  <2>1. kind # HTTPServer
    BY <1>3 DEF IsServer, HTTPServer, TCPServer
  <2>2. ~IsServer'  BY <1>2, <1>3 DEF IsServer
  <2>3. RespInv' /\ ConnInv' /\ AnswerInv' /\ RoutedInv' /\ TornInv'
    BY <2>2 DEF RespInv, ConnInv, AnswerInv, RoutedInv, TornInv
  <2>. QED  BY <1>2, <2>1, <2>3 DEF AnswersInv, SocketInv, HttpInv
<1>4. CASE IsServer
  <2>1. SocketInv /\ TornInv /\ HttpInv /\ phase \in ServerPhases  BY <1>4 DEF AnswersInv, RestPhases
  <2>2. kind.visit = "serve" <=> kind = HTTPServer  BY <1>4, ServersAre
  <2>3. kind = HTTPServer => ~kind.routed /\ kind.name = "HTTPServer"  BY <1>4, <2>2, ServersAre
  <2>4. ASSUME SocketInv', kind = HTTPServer => MatchInv' /\ VisitInv' PROVE AnswersInv'
    <3>1. TornInv'  BY <1>4, <2>1, TornStep
    <3>. QED  BY <1>2, <2>4, <3>1 DEF AnswersInv, HttpInv
  <2>5. CASE Neighbours /\ UNCHANGED <<ioVars, netVars>>
    <3>1. SocketInv'  BY <1>4, <2>1, <2>5, NeighboursSocket DEF netVars
    <3>2. kind = HTTPServer => MatchInv' /\ VisitInv'
      BY <1>4, <2>1, <2>3, <2>5, NeighboursMatch DEF HttpInv
    <3>. QED  BY <2>4, <3>1, <3>2
  <2>6. CASE (Activate /\ UNCHANGED <<ioVars, netVars>>) \/ (ServerStep /\ UNCHANGED httpVars)
    <3>1. SocketInv'
      <4>1. CASE RetryResponse
        <5>1. kind.routed  BY <2>1, <4>1 DEF RetryResponse, ServerPhases
        <5>. QED  BY <2>1, <4>1, <5>1, RetrySocket
      <4>2. CASE RouteResponse  BY <2>1, <4>2, RouteSocket
      <4>3. CASE SendResponse \/ QueueResponse  BY <2>1, <4>3, SendSocket
      <4>4. CASE EndServer  BY <2>1, <4>4, EndSocket
      <4>5. CASE (Activate /\ UNCHANGED serverVars) \/ Listen \/ FlushOutbound \/ Accept \/ Handshake
                 \/ ReadClient \/ ReadDone
        BY <1>4, <2>1, <4>5, ReadsSocket
      <4>. QED  BY <2>6, <4>1, <4>2, <4>3, <4>4, <4>5 DEF ServerStep, netVars
    <3>2. kind = HTTPServer => MatchInv' /\ VisitInv'
      BY <1>4, <2>1, <2>6, <3>1, ServerMatches DEF HttpInv
    <3>. QED  BY <2>4, <3>1, <3>2
  <2>7. CASE HttpStep
    <3>1. kind = HTTPServer
      <4>1. phase \in {"serve", "request", "response"}
        BY <2>7 DEF HttpStep, ServeClient, ServeDone, SendRequest, RequestsSent, TakeResponse, ResponsesTaken
      <4>. QED  BY <2>1, <2>2, <4>1 DEF ServerPhases
    <3>2. MatchInv /\ VisitInv /\ ~kind.routed  BY <2>1, <2>3, <3>1 DEF HttpInv
    <3>3. CASE ServeClient \/ ServeDone \/ SendRequest \/ TakeResponse
      BY <1>4, <2>1, <2>4, <3>2, <3>3, ServeMatches, ServedMatches, SentMatches, TakenMatches
    <3>4. CASE RequestsSent \/ ResponsesTaken
      <4>1. UNCHANGED <<kind, edges, serverVars>>  BY <3>4 DEF RequestsSent, ResponsesTaken
      <4>2. UNCHANGED <<kind, inq, sent, open, connections, ids, pending_responses, answers>>
        BY <4>1 DEF edges, serverVars
      <4>3. SocketInv'  BY <1>4, <2>1, <4>2, ConnStays, SocketStays DEF SocketInv
      <4>. QED  BY <1>4, <2>1, <2>4, <3>1, <3>2, <3>4, <4>3, ServerMatches
    <3>. QED  BY <2>7, <3>3, <3>4 DEF HttpStep
  <2>8. kind # FileTailer  BY <1>4, PollerNames DEF IsServer
  <2>. QED  BY <1>4, <2>5, <2>6, <2>7, <2>8, AloneSteps
<1>. QED  BY <1>3, <1>4

\* The invariant holds.
LEMMA AnswersHold == Spec => []AnswersInv
<1>1. Init => AnswersInv  BY AnswersInit
<1>2. ComponentInv /\ SideInv /\ GoesInv /\ AnswersInv /\ [Next]_vars => AnswersInv'
  <2> SUFFICES ASSUME ComponentInv, SideInv, GoesInv, AnswersInv, [Next]_vars PROVE AnswersInv'
    OBVIOUS
  <2>1. PortInv /\ NoResults /\ RestPhases  BY DEF ComponentInv, SideInv, GoesInv, PollersGo
  <2>. QED  BY <2>1, AnswersStep
<1>. QED  BY <1>1, <1>2, ComponentInvHolds, SideInvHolds, GoesInvHolds, PTL DEF Spec

\* Whatever the order of connects, disconnects, blocked sockets, partial
\* writes and full edges, a server writes a response in full at most once,
\* and it and any part of it only to the client it is for; it keeps for later
\* only what it has not written in full, for clients that are there; and
\* HTTPServer's response_wait_queue holds exactly the requests the
\* graph has still to answer, in their order: the retain() that drops the
\* requests of broken connections never takes one of them out of it
\* (server components' process(), http.rs).
THEOREM ResponsesReachTheirClients == Spec => []AnsweredOnce
<1>1. ASSUME AnswersInv, ComponentInv PROVE AnsweredOnce
  <2> SUFFICES ASSUME IsServer PROVE AnsweredOnce  BY DEF AnsweredOnce
  <2>1. SocketInv /\ HttpInv /\ PortInv  BY <1>1 DEF AnswersInv, ComponentInv
  <2>2. /\ \A i, j \in 1..Len(answers) : answers[i][1] = answers[j][1] => i = j
        /\ \A i \in 1..Len(answers) : answers[i][2] = answers[i][3]
        /\ \A t \in torn : t[2] = t[3]
    BY <1>1, <2>1 DEF SocketInv, AnswerInv, AnswersInv, TornInv
  <2>3. ASSUME kind.routed, NEW e \in pending_responses
        PROVE  /\ \A i \in 1..Len(answers) : answers[i][1] # e[2]
               /\ e[1] \in DOMAIN connections /\ connections[e[1]].client = e[3]
    <3>1. e[1] \in DOMAIN connections /\ e[3] = e[1] + 1 /\ Unwritten(e[2])
      BY <2>1, <2>3 DEF SocketInv, RoutedInv
    <3>2. connections[e[1]].client = e[1] + 1  BY <2>1, <3>1 DEF SocketInv, ConnInv
    <3>. QED  BY <3>1, <3>2 DEF Unwritten
  <2>4. ASSUME kind = HTTPServer
        PROVE  response_wait_queue =
                   [i \in 1..(Len(OutOf(1)) - (sent[1] - Len(inq[1]))) |->
                       OutOf(1)[(sent[1] - Len(inq[1])) + i][2]]
    <3>1. DataInv /\ QueueInv  BY <2>1, <2>4 DEF HttpInv, MatchInv
    <3> DEFINE q == response_wait_queue  n == Len(q)
    <3>2. q \in Seq(Int) /\ n = Len(Asked) - Received /\ \A i \in 1..n : q[i] = Asked[Received + i][2]
      BY <3>1 DEF DataInv, QueueInv
    <3>3. q = [i \in 1..n |-> q[i]]  BY <3>2
    <3> HIDE DEF q, n
    <3>4. q = [i \in 1..n |-> Asked[Received + i][2]]  BY <3>2, <3>3
    <3>5. q = [i \in 1..(Len(Asked) - Received) |-> Asked[Received + i][2]]  BY <3>2, <3>4
    <3>. QED  BY <3>5 DEF q, Asked, Received
  <2>. QED  BY <2>2, <2>3, <2>4 DEF AnsweredOnce
<1>. QED  BY <1>1, AnswersHold, ComponentInvHolds, PTL
=============================================================================
