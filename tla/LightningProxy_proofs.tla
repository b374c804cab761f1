------------------------ MODULE LightningProxy_proofs ------------------------
(***************************************************************************)
(* Proofs about lnd's remote signer: the types of its state, and that the  *)
(* signer never takes a message of rx for its key.                         *)
(***************************************************************************)
EXTENDS LightningProxy, TLAPS

-----------------------------------------------------------------------------
(* The inductive invariant. *)

\* Who received from rx has a message.
GotMessage == \A g \in Goroutines : at[g] = "got" => got[g] \in Frames

\* writePump never sends on rx, and receives only once it is started.
Queues ==
  /\ \A i \in 1 .. Len(sendq) : sendq[i].from.role # "writer"
  /\ \A i \in 1 .. Len(recvq) : \A k \in Conns : recvq[i] = Writer(k) => http[k] = "serving"

\* Nothing is written to a connection before the greeting.
Quiet ==
  \A k \in Conns : http[k] # "serving" =>
     at[Writer(k)] = "idle" /\ toSigner[k] = <<>> /\ signerKey[k] = "unread"

\* Until the signer has read a frame, the first one is the greeting.
GreetingFirst ==
  \A k \in Conns : http[k] = "serving" /\ signerKey[k] = "unread" =>
     toSigner[k] # <<>> /\ Head(toSigner[k]).kind \in {"key", "empty"}

Inv == TypeOK /\ GotMessage /\ Queues /\ Quiet /\ GreetingFirst /\ GreetedFirst

ChanType ==
  /\ sendq \in Seq([from : Goroutines, msg : Frames])
  /\ recvq \in Seq(Goroutines)
  /\ at \in [Goroutines -> {"idle", "sending", "sent", "receiving", "got", "loop", "read"}]
  /\ got \in [Goroutines -> Frames \cup {NoMsg}]

\* A step on rx moves a writer only if its connection is served.
WritersStay == \A k \in Conns : http[k] # "serving" => at'[Writer(k)] = at[Writer(k)]

-----------------------------------------------------------------------------
(* Goroutines, frames and sequences. *)

LEMMA GoroutineTypes ==
  /\ \A c \in Callers : Caller(c) \in Goroutines /\ Caller(c).role = "caller"
  /\ \A k \in Conns : /\ Writer(k) \in Goroutines /\ Writer(k).role = "writer"
                      /\ Reader(k) \in Goroutines /\ Reader(k).role = "reader"
  BY DEF Goroutines, Caller, Writer, Reader

LEMMA WriterInjective == \A j, k \in Conns : Writer(j) = Writer(k) => j = k
  BY DEF Writer

LEMMA FrameTypes ==
  /\ \A n \in Calls : Request(n) \in Frames /\ Answer(n) \in Frames
  /\ \A set \in BOOLEAN : /\ Greeting(set) \in Frames
                          /\ Greeting(set).kind \in {"key", "empty"}
  /\ \A f \in Frames : /\ f.kind \in {"key", "empty", "request", "answer"}
                       /\ f.kind = "request" => f.call \in Calls
  BY DEF Frames, Messages, Request, Answer, Greeting

LEMMA AfterSendType == \A g \in Goroutines : AfterSend(g) \in {"sent", "read"}
  BY DEF AfterSend

LEMMA TailElements ==
  ASSUME NEW S, NEW s \in Seq(S), s # <<>>
  PROVE  /\ Head(s) \in S /\ Head(s) = s[1] /\ 1 \in 1 .. Len(s)
         /\ Tail(s) \in Seq(S)
         /\ \A i \in 1 .. Len(Tail(s)) : i + 1 \in 1 .. Len(s) /\ Tail(s)[i] = s[i + 1]
  OBVIOUS

LEMMA AppendElements ==
  ASSUME NEW S, NEW s \in Seq(S), NEW x \in S
  PROVE  /\ Append(s, x) \in Seq(S)
         /\ Append(s, x) # <<>>
         /\ s # <<>> => Head(Append(s, x)) = Head(s)
         /\ s = <<>> => Head(Append(s, x)) = x
         /\ \A i \in 1 .. Len(Append(s, x)) :
               (i \in 1 .. Len(s) /\ Append(s, x)[i] = s[i]) \/ Append(s, x)[i] = x
  OBVIOUS

-----------------------------------------------------------------------------
(* The channel. *)

LEMMA SendKeeps ==
  ASSUME NEW g \in Goroutines, g.role # "writer", NEW m \in Frames,
         ChanType, GotMessage, Queues, Send(g, m), http' = http
  PROVE  ChanType' /\ GotMessage' /\ Queues' /\ WritersStay
<1> DEFINE E == [from : Goroutines, msg : Frames]
           e == [from |-> g, msg |-> m]
<1>1. e \in E /\ e.from.role # "writer"
  OBVIOUS
<1>2. CASE recvq = <<>>
  <2>1. /\ sendq' = Append(sendq, e)
        /\ at' = [at EXCEPT ![g] = "sending"]
        /\ recvq' = recvq /\ got' = got
    BY <1>2 DEF Send
  <2>2. ChanType'
    BY <1>1, <2>1, AppendElements DEF ChanType
  <2>3. GotMessage'
    BY <2>1 DEF GotMessage, ChanType
  <2>4. Queues'
    <3>1. \A i \in 1 .. Len(sendq') : sendq'[i].from.role # "writer"
      <4> HIDE DEF e, E
      <4>1. sendq \in Seq(E)
        BY DEF ChanType, E
      <4> QED
        BY <1>1, <2>1, <4>1, AppendElements DEF Queues
    <3> QED
      BY <2>1, <3>1 DEF Queues
  <2>5. WritersStay
    BY <2>1, GoroutineTypes DEF WritersStay, ChanType
  <2> QED
    BY <2>2, <2>3, <2>4, <2>5
<1>3. CASE recvq # <<>>
  <2> DEFINE h == Head(recvq)
  <2>1. /\ recvq' = Tail(recvq)
        /\ got' = [got EXCEPT ![h] = m]
        /\ at' = [at EXCEPT ![g] = AfterSend(g), ![h] = "got"]
        /\ sendq' = sendq
    BY <1>3 DEF Send
  <2>2. /\ h \in Goroutines /\ h = recvq[1] /\ 1 \in 1 .. Len(recvq)
        /\ Tail(recvq) \in Seq(Goroutines)
        /\ \A i \in 1 .. Len(Tail(recvq)) :
              i + 1 \in 1 .. Len(recvq) /\ Tail(recvq)[i] = recvq[i + 1]
    BY <1>3, TailElements DEF ChanType
  <2> HIDE DEF h
  <2>3. ChanType'
    BY <2>1, <2>2, AfterSendType DEF ChanType
  <2>4. GotMessage'
    <3> SUFFICES ASSUME NEW x \in Goroutines, at'[x] = "got"
                 PROVE  got'[x] \in Frames
      BY DEF GotMessage
    <3>1. CASE x = h
      BY <2>1, <2>2, <3>1 DEF ChanType
    <3>2. CASE x # h
      BY <2>1, <2>2, <3>2, AfterSendType DEF ChanType, GotMessage
    <3> QED
      BY <3>1, <3>2
  <2>5. Queues'
    BY <2>1, <2>2 DEF Queues
  <2>6. WritersStay
    <3> SUFFICES ASSUME NEW k \in Conns, http[k] # "serving"
                 PROVE  at'[Writer(k)] = at[Writer(k)]
      BY DEF WritersStay
    <3>1. Writer(k) # h /\ Writer(k) # g /\ Writer(k) \in Goroutines
      BY <2>2, GoroutineTypes DEF Queues
    <3> QED
      BY <2>1, <3>1 DEF ChanType
  <2> QED
    BY <2>3, <2>4, <2>5, <2>6
<1> QED
  BY <1>2, <1>3

LEMMA ReceiveKeeps ==
  ASSUME NEW g \in Goroutines, \A k \in Conns : g = Writer(k) => http[k] = "serving",
         ChanType, GotMessage, Queues, Receive(g), http' = http
  PROVE  ChanType' /\ GotMessage' /\ Queues' /\ WritersStay
<1> DEFINE E == [from : Goroutines, msg : Frames]
<1>1. CASE sendq = <<>>
  <2>1. /\ recvq' = Append(recvq, g)
        /\ at' = [at EXCEPT ![g] = "receiving"]
        /\ sendq' = sendq /\ got' = got
    BY <1>1 DEF Receive
  <2>2. ChanType'
    BY <2>1, AppendElements DEF ChanType
  <2>3. GotMessage'
    BY <2>1 DEF GotMessage, ChanType
  <2>4. Queues'
    <3>1. \A i \in 1 .. Len(recvq') :
             (i \in 1 .. Len(recvq) /\ recvq'[i] = recvq[i]) \/ recvq'[i] = g
      BY <2>1, AppendElements DEF ChanType
    <3> QED
      BY <2>1, <3>1 DEF Queues
  <2>5. WritersStay
    BY <2>1, GoroutineTypes DEF WritersStay, ChanType
  <2> QED
    BY <2>2, <2>3, <2>4, <2>5
<1>2. CASE sendq # <<>>
  <2> DEFINE h == Head(sendq)
  <2>1. /\ sendq' = Tail(sendq)
        /\ got' = [got EXCEPT ![g] = h.msg]
        /\ at' = [at EXCEPT ![g] = "got", ![h.from] = AfterSend(h.from)]
        /\ recvq' = recvq
    BY <1>2 DEF Receive
  <2>2. /\ h \in E /\ h = sendq[1] /\ 1 \in 1 .. Len(sendq)
        /\ Tail(sendq) \in Seq(E)
        /\ \A i \in 1 .. Len(Tail(sendq)) :
              i + 1 \in 1 .. Len(sendq) /\ Tail(sendq)[i] = sendq[i + 1]
    <3> HIDE DEF E
    <3>1. sendq \in Seq(E)
      BY DEF ChanType, E
    <3> QED
      BY <1>2, <3>1, TailElements
  <2>3. h.from \in Goroutines /\ h.msg \in Frames /\ h.from.role # "writer"
    BY <2>2 DEF Queues
  <2> HIDE DEF h
  <2>4. ChanType'
    BY <2>1, <2>2, <2>3, AfterSendType DEF ChanType
  <2>5. GotMessage'
    <3> SUFFICES ASSUME NEW x \in Goroutines, at'[x] = "got"
                 PROVE  got'[x] \in Frames
      BY DEF GotMessage
    <3>1. CASE x = g
      BY <2>1, <2>3, <3>1 DEF ChanType
    <3>2. CASE x # g
      BY <2>1, <2>3, <3>2, AfterSendType DEF ChanType, GotMessage
    <3> QED
      BY <3>1, <3>2
  <2>6. Queues'
    BY <2>1, <2>2 DEF Queues
  <2>7. WritersStay
    <3> SUFFICES ASSUME NEW k \in Conns, http[k] # "serving"
                 PROVE  at'[Writer(k)] = at[Writer(k)]
      BY DEF WritersStay
    <3>1. Writer(k) # h.from /\ Writer(k) # g /\ Writer(k) \in Goroutines
      BY <2>3, GoroutineTypes
    <3> QED
      BY <2>1, <3>1 DEF ChanType
  <2> QED
    BY <2>4, <2>5, <2>6, <2>7
<1> QED
  BY <1>1, <1>2

-----------------------------------------------------------------------------
(* Steps that leave the connections alone. *)

\* A step on rx, or one that ends a wait, keeps what is known of a connection.
LEMMA ConnectionsKept ==
  ASSUME Inv, WritersStay, UNCHANGED <<http, toSigner, signerKey>>
  PROVE  Quiet' /\ GreetingFirst' /\ GreetedFirst'
  BY DEF Inv, WritersStay, Quiet, GreetingFirst, GreetedFirst

\* log.Fatal changes nothing but the status.
LEMMA FatalKeeps ==
  ASSUME Inv, NEW why \in {"undecodable", "write error", "read error", "already connected"},
         Fatal(why)
  PROVE  Inv'
  BY DEF Fatal, Inv, TypeOK, GotMessage, Queues, Quiet, GreetingFirst, GreetedFirst,
         connVars, chanVars, callVars, netVars

LEMMA CallerKeeps ==
  ASSUME Inv, NEW c \in Callers, Call(c) \/ CallerStep(c)
  PROVE  Inv'
<1> DEFINE g == Caller(c)
<1>1. g \in Goroutines /\ g.role = "caller" /\ \A k \in Conns : g # Writer(k)
  BY GoroutineTypes
<1> HIDE DEF g
<1>2. ChanType /\ GotMessage /\ Queues
  BY DEF Inv, TypeOK, ChanType
<1>3. CASE Call(c)
  <2> USE <1>3 DEF Call, connVars, netVars
  <2>1. nextCall \in Calls /\ Request(nextCall) \in Frames
    BY FrameTypes
  <2>2. ChanType' /\ GotMessage' /\ Queues' /\ WritersStay
    BY <1>1, <1>2, <2>1, SendKeeps DEF g
  <2>3. TypeOK'
    <3>1. nextCall' \in 1 .. MaxCalls + 1
      BY <2>1, ProxyAssumption DEF Calls
    <3>2. doing' \in [Callers -> 0 .. MaxCalls]
      <4>1. nextCall \in 0 .. MaxCalls
        BY <2>1, ProxyAssumption DEF Calls
      <4>2. doing \in [Callers -> 0 .. MaxCalls] /\ doing' = [doing EXCEPT ![c] = nextCall]
        BY DEF Inv, TypeOK
      <4> QED
        BY ONLY <4>1, <4>2
    <3> QED
      BY <2>2, <3>1, <3>2 DEF Inv, TypeOK, ChanType
  <2>4. Quiet' /\ GreetingFirst' /\ GreetedFirst'
    BY <2>2, ConnectionsKept
  <2> QED
    BY <2>2, <2>3, <2>4 DEF Inv
<1>4. CASE Await(c)
  <2> USE <1>4 DEF Await, connVars, callVars, netVars
  <2>1. ChanType' /\ GotMessage' /\ Queues' /\ WritersStay
    BY <1>1, <1>2, ReceiveKeeps DEF g
  <2>2. TypeOK'
    BY <2>1 DEF Inv, TypeOK, ChanType
  <2>3. Quiet' /\ GreetingFirst' /\ GreetedFirst'
    BY <2>1, ConnectionsKept
  <2> QED
    BY <2>1, <2>2, <2>3 DEF Inv
<1>5. CASE Return(c)
  <2>1. /\ returned' = [returned EXCEPT ![doing[c]] = got[g]]
        /\ doing' = [doing EXCEPT ![c] = 0]
        /\ at' = [at EXCEPT ![g] = "idle"]
        /\ got' = [got EXCEPT ![g] = NoMsg]
        /\ UNCHANGED <<status, connVars, sendq, recvq, nextCall, netVars>>
    BY <1>5 DEF Return, g
  <2>2. ChanType' /\ GotMessage' /\ Queues' /\ WritersStay
    BY <1>1, <1>2, <2>1, GoroutineTypes
    DEF ChanType, GotMessage, Queues, WritersStay, connVars
  <2>3. TypeOK'
    <3>1. returned' \in [Calls -> Frames \cup {NoMsg}]
      BY <1>1, <2>1 DEF Inv, TypeOK
    <3>2. doing' \in [Callers -> 0 .. MaxCalls]
      <4>1. 0 \in 0 .. MaxCalls
        BY ProxyAssumption
      <4>2. doing \in [Callers -> 0 .. MaxCalls] /\ doing' = [doing EXCEPT ![c] = 0]
        BY <2>1 DEF Inv, TypeOK
      <4> QED
        BY ONLY <4>1, <4>2
    <3> QED
      BY <2>1, <2>2, <3>1, <3>2 DEF Inv, TypeOK, ChanType, connVars, netVars
  <2>4. Quiet' /\ GreetingFirst' /\ GreetedFirst'
    BY <2>1, <2>2, ConnectionsKept DEF connVars, netVars
  <2> QED
    BY <2>2, <2>3, <2>4 DEF Inv
<1>6. CASE Undecodable(c)
  BY <1>6, FatalKeeps DEF Undecodable
<1> QED
  BY <1>3, <1>4, <1>5, <1>6 DEF CallerStep

LEMMA WalletKeeps ==
  ASSUME Inv, SetWallet
  PROVE  Inv'
  BY DEF SetWallet, Inv, TypeOK, GotMessage, Queues, Quiet, GreetingFirst, GreetedFirst,
         connVars, chanVars, callVars, netVars

-----------------------------------------------------------------------------
(* The pumps. *)

LEMMA WriterReceiveKeeps ==
  ASSUME Inv, NEW k \in Conns, WriterReceive(k)
  PROVE  Inv'
<1> USE DEF WriterReceive, connVars, callVars, netVars
<1>1. ChanType /\ GotMessage /\ Queues
  BY DEF Inv, TypeOK, ChanType
<1>2. \A j \in Conns : Writer(k) = Writer(j) => http[j] = "serving"
  BY WriterInjective DEF Inv, Quiet
<1>3. ChanType' /\ GotMessage' /\ Queues' /\ WritersStay
  BY <1>1, <1>2, GoroutineTypes, ReceiveKeeps
<1>4. TypeOK'
  BY <1>3 DEF Inv, TypeOK, ChanType
<1>5. Quiet' /\ GreetingFirst' /\ GreetedFirst'
  BY <1>3, ConnectionsKept
<1> QED
  BY <1>3, <1>4, <1>5 DEF Inv

LEMMA WritePumpKeeps ==
  ASSUME Inv, NEW k \in Conns, WritePump(k)
  PROVE  Inv'
<1> DEFINE g == Writer(k)
           f == got[g]
<1>1. /\ at[g] = "got"
      /\ toSigner' = [toSigner EXCEPT ![k] = Append(@, f)]
      /\ at' = [at EXCEPT ![g] = "loop"]
      /\ got' = [got EXCEPT ![g] = NoMsg]
      /\ UNCHANGED <<status, connVars, sendq, recvq, callVars, toLnd, signerKey, closed>>
  BY DEF WritePump
<1>2. g \in Goroutines /\ \A j \in Conns : Writer(j) \in Goroutines /\ (Writer(j) = g => j = k)
  BY GoroutineTypes, WriterInjective
<1>3. f \in Frames /\ toSigner[k] \in Seq(Frames) /\ http[k] = "serving"
  BY <1>1, <1>2 DEF Inv, GotMessage, TypeOK, Quiet
<1> DEFINE a == Append(toSigner[k], f)
<1>4. /\ a \in Seq(Frames) /\ a # <<>>
      /\ toSigner[k] # <<>> => Head(a) = Head(toSigner[k])
  BY <1>3, AppendElements
<1> HIDE DEF g, f, a
<1>5. toSigner' = [toSigner EXCEPT ![k] = a]
  BY <1>1 DEF a
<1>6. TypeOK'
  BY <1>1, <1>2, <1>4, <1>5 DEF Inv, TypeOK, connVars, callVars
<1>7. GotMessage' /\ Queues'
  BY <1>1, <1>2 DEF Inv, TypeOK, GotMessage, Queues, connVars
<1>8. Quiet' /\ GreetingFirst' /\ GreetedFirst'
  <2>1. UNCHANGED <<http, signerKey>>
    BY <1>1 DEF connVars
  <2>2. \A j \in Conns : j # k => toSigner'[j] = toSigner[j] /\ at'[Writer(j)] = at[Writer(j)]
    BY <1>1, <1>2, <1>5 DEF Inv, TypeOK
  <2>3. toSigner'[k] = a
    BY <1>5 DEF Inv, TypeOK
  <2>4. Quiet'
    BY <1>3, <2>1, <2>2 DEF Inv, Quiet
  <2>5. GreetingFirst'
    BY <1>3, <1>4, <2>1, <2>2, <2>3 DEF Inv, GreetingFirst
  <2> QED
    BY <2>1, <2>4, <2>5 DEF Inv, GreetedFirst
<1> QED
  BY <1>6, <1>7, <1>8 DEF Inv

LEMMA ReadPumpKeeps ==
  ASSUME Inv, NEW k \in Conns, ReadPump(k)
  PROVE  Inv'
<1> USE DEF ReadPump, connVars, callVars
<1>1. ChanType /\ GotMessage /\ Queues
  BY DEF Inv, TypeOK, ChanType
<1>2. Head(toLnd[k]) \in Frames /\ Tail(toLnd[k]) \in Seq(Frames)
  BY TailElements DEF Inv, TypeOK
<1>3. ChanType' /\ GotMessage' /\ Queues' /\ WritersStay
  BY <1>1, <1>2, GoroutineTypes, SendKeeps
<1>4. TypeOK'
  BY <1>2, <1>3 DEF Inv, TypeOK, ChanType
<1>5. Quiet' /\ GreetingFirst' /\ GreetedFirst'
  BY <1>3, ConnectionsKept
<1> QED
  BY <1>3, <1>4, <1>5 DEF Inv

LEMMA PumpsKeep ==
  ASSUME Inv, NEW k \in Conns, Pumps(k)
  PROVE  Inv'
<1>1. CASE WriteError(k)
  BY <1>1, FatalKeeps DEF WriteError
<1>2. CASE ReadFails(k)
  BY <1>2, FatalKeeps DEF ReadFails
<1> QED
  BY <1>1, <1>2, WriterReceiveKeeps, WritePumpKeeps, ReadPumpKeeps DEF Pumps

-----------------------------------------------------------------------------
(* The HTTP handler and the signer. *)

\* A handler that is not serving yet goes on to another place before serving.
LEMMA HandlerMoves ==
  ASSUME Inv, NEW k \in Conns, NEW where \in {"checked", "upgrading", "failed"},
         http[k] # "serving", http' = [http EXCEPT ![k] = where],
         connected' \in BOOLEAN,
         UNCHANGED <<status, rootKeyRaw, chanVars, callVars, netVars>>
  PROVE  Inv'
<1> USE DEF chanVars, callVars, netVars
<1>1. \A j \in Conns : (http'[j] = "serving") = (http[j] = "serving")
  BY DEF Inv, TypeOK
<1>2. TypeOK'
  BY DEF Inv, TypeOK
<1>3. GotMessage' /\ Queues'
  BY <1>1 DEF Inv, GotMessage, Queues
<1>4. Quiet' /\ GreetingFirst' /\ GreetedFirst'
  BY <1>1 DEF Inv, Quiet, GreetingFirst, GreetedFirst
<1> QED
  BY <1>2, <1>3, <1>4 DEF Inv

LEMMA GreetKeeps ==
  ASSUME Inv, NEW k \in Conns, Greet(k)
  PROVE  Inv'
<1> DEFINE f == Greeting(rootKeyRaw)
           a == Append(toSigner[k], f)
<1>1. /\ http[k] = "upgrading"
      /\ http' = [http EXCEPT ![k] = "serving"]
      /\ toSigner' = [toSigner EXCEPT ![k] = a]
      /\ at' = [at EXCEPT ![Writer(k)] = "loop", ![Reader(k)] = "read"]
      /\ UNCHANGED <<status, connected, rootKeyRaw, sendq, recvq, got, callVars,
                     toLnd, signerKey, closed>>
  BY DEF Greet
<1>2. f \in Frames /\ f.kind \in {"key", "empty"}
  BY FrameTypes DEF Inv, TypeOK
<1>3. a \in Seq(Frames) /\ a # <<>> /\ Head(a) = f
  <2>1. toSigner[k] = <<>>
    BY <1>1 DEF Inv, Quiet
  <2> HIDE DEF f
  <2> QED
    BY <1>2, <2>1
<1> HIDE DEF f, a
<1>4. \A j \in Conns : /\ Writer(j) \in Goroutines /\ Writer(j) # Reader(k)
                       /\ Reader(j) \in Goroutines
                       /\ (Writer(j) = Writer(k) => j = k)
  BY GoroutineTypes, WriterInjective
<1>5. \A j \in Conns : j # k => /\ http'[j] = http[j] /\ toSigner'[j] = toSigner[j]
                                /\ at'[Writer(j)] = at[Writer(j)]
  BY <1>1, <1>4 DEF Inv, TypeOK
<1>6. http'[k] = "serving" /\ toSigner'[k] = a
  BY <1>1 DEF Inv, TypeOK
<1>7. TypeOK'
  BY <1>1, <1>3, <1>4 DEF Inv, TypeOK, callVars
<1>8. GotMessage'
  BY <1>1, <1>4 DEF Inv, TypeOK, GotMessage
<1>9. Queues'
  BY <1>1, <1>5, <1>6 DEF Inv, Queues
<1>10. Quiet'
  <2>1. signerKey' = signerKey /\ Quiet
    BY <1>1 DEF Inv
  <2> QED
    BY ONLY <1>5, <1>6, <2>1 DEF Quiet
<1>11. GreetingFirst' /\ GreetedFirst'
  BY <1>1, <1>2, <1>3, <1>5, <1>6 DEF Inv, GreetingFirst, GreetedFirst
<1> QED
  BY <1>7, <1>8, <1>9, <1>10, <1>11 DEF Inv

LEMMA HandleKeeps ==
  ASSUME Inv, NEW k \in Conns, Connect(k) \/ Handle(k) \/ GreetFails(k)
  PROVE  Inv'
<1>1. CASE AlreadyConnected(k)
  BY <1>1, FatalKeeps DEF AlreadyConnected
<1>2. CASE CheckConnected(k)
  BY <1>2, HandlerMoves DEF CheckConnected, Inv, TypeOK
<1>3. CASE SetConnected(k)
  BY <1>3, HandlerMoves DEF SetConnected
<1>4. CASE GreetFails(k)
  BY <1>4, HandlerMoves DEF GreetFails, Inv, TypeOK
<1> QED
  BY <1>1, <1>2, <1>3, <1>4, GreetKeeps DEF Connect, Handle

LEMMA SignerKeeps ==
  ASSUME Inv, NEW k \in Conns, Signer(k)
  PROVE  Inv'
<1> DEFINE f == Head(toSigner[k])
<1>1. toSigner[k] # <<>> /\ toSigner[k] \in Seq(Frames) /\ http[k] = "serving"
  BY DEF Signer, ReadKey, Sign, Inv, TypeOK, Quiet
<1>2. f \in Frames /\ Tail(toSigner[k]) \in Seq(Frames)
  BY <1>1, TailElements
<1>3. toSigner' = [toSigner EXCEPT ![k] = Tail(@)]
  BY DEF Signer, ReadKey, Sign
<1>4. UNCHANGED <<status, connVars, chanVars, callVars, closed>>
  BY DEF Signer, ReadKey, Sign
<1>5. GotMessage' /\ Queues'
  BY <1>4 DEF Inv, GotMessage, Queues, chanVars, connVars
<1>6. \A j \in Conns : j # k => toSigner'[j] = toSigner[j]
  BY <1>3 DEF Inv, TypeOK
<1>7. CASE ReadKey(k)
  <2>1. /\ signerKey[k] = "unread" /\ toLnd' = toLnd
        /\ signerKey' = [signerKey EXCEPT ![k] = f.kind]
    BY <1>7 DEF ReadKey
  <2>2. f.kind \in {"key", "empty"}
    BY <1>1, <2>1 DEF Inv, GreetingFirst
  <2> HIDE DEF f
  <2>3. TypeOK'
    BY <1>2, <1>3, <1>4, <2>1, <2>2 DEF Inv, TypeOK, connVars, chanVars, callVars
  <2>4. /\ signerKey'[k] \in {"key", "empty"}
        /\ \A j \in Conns : j # k => signerKey'[j] = signerKey[j]
    BY <2>1, <2>2 DEF Inv, TypeOK
  <2>5. Quiet' /\ GreetingFirst' /\ GreetedFirst'
    BY <1>1, <1>4, <1>6, <2>4
    DEF Inv, Quiet, GreetingFirst, GreetedFirst, connVars, chanVars
  <2> QED
    BY <1>5, <2>3, <2>5 DEF Inv
<1>8. CASE Sign(k)
  <2>1. signerKey[k] # "unread" /\ signerKey' = signerKey
    BY <1>8 DEF Sign
  <2>2. toLnd' \in [Conns -> Seq(Frames)]
    <3>1. CASE f.kind = "request" /\ Op[f.call] \in Implemented
      <4>1. Answer(f.call) \in Frames /\ toLnd[k] \in Seq(Frames)
        BY <1>2, <3>1, FrameTypes DEF Inv, TypeOK
      <4>2. toLnd' = [toLnd EXCEPT ![k] = Append(@, Answer(f.call))]
        BY <1>8, <3>1 DEF Sign
      <4>3. Append(toLnd[k], Answer(f.call)) \in Seq(Frames)
        BY <4>1, AppendElements
      <4> QED
        BY <4>2, <4>3 DEF Inv, TypeOK
    <3>2. CASE ~(f.kind = "request" /\ Op[f.call] \in Implemented)
      BY <1>8, <3>2 DEF Sign, Inv, TypeOK
    <3> QED
      BY <3>1, <3>2
  <2>3. TypeOK'
    BY <1>2, <1>3, <1>4, <2>1, <2>2 DEF Inv, TypeOK, connVars, chanVars, callVars
  <2>4. Quiet' /\ GreetingFirst' /\ GreetedFirst'
    BY <1>1, <1>4, <1>6, <2>1
    DEF Inv, Quiet, GreetingFirst, GreetedFirst, connVars, chanVars
  <2> QED
    BY <1>5, <2>3, <2>4 DEF Inv
<1> QED
  BY <1>7, <1>8 DEF Signer

LEMMA SignerClosesKeeps ==
  ASSUME Inv, NEW k \in Conns, SignerCloses(k)
  PROVE  Inv'
  BY DEF SignerCloses, Inv, TypeOK, GotMessage, Queues, Quiet, GreetingFirst, GreetedFirst,
         connVars, chanVars, callVars

-----------------------------------------------------------------------------
(* The theorems. *)

LEMMA InitInv == Init => Inv
<1> SUFFICES ASSUME Init PROVE Inv
  OBVIOUS
<1>1. TypeOK
  <2>1. nextCall \in 1 .. MaxCalls + 1
    BY ProxyAssumption DEF Init
  <2>2. doing \in [Callers -> 0 .. MaxCalls]
    <3>1. 0 \in 0 .. MaxCalls
      BY ProxyAssumption
    <3> QED
      BY <3>1 DEF Init
  <2>3. /\ status \in {"up", "undecodable", "write error", "read error", "already connected"}
        /\ connected \in BOOLEAN /\ rootKeyRaw \in BOOLEAN
        /\ http \in [Conns -> {"none", "checked", "upgrading", "serving", "failed"}]
        /\ at \in [Goroutines -> {"idle", "sending", "sent", "receiving", "got", "loop", "read"}]
        /\ got \in [Goroutines -> Frames \cup {NoMsg}]
        /\ returned \in [Calls -> Frames \cup {NoMsg}]
        /\ signerKey \in [Conns -> {"unread", "key", "empty", "request", "answer"}]
        /\ closed \subseteq Conns
    BY DEF Init
  <2>4. /\ sendq \in Seq([from : Goroutines, msg : Frames])
        /\ recvq \in Seq(Goroutines)
    BY DEF Init
  <2>5. toSigner \in [Conns -> Seq(Frames)] /\ toLnd \in [Conns -> Seq(Frames)]
    <3>1. <<>> \in Seq(Frames)
      OBVIOUS
    <3> QED
      BY <3>1 DEF Init
  <2> QED
    BY <2>1, <2>2, <2>3, <2>4, <2>5 DEF TypeOK
<1>2. GotMessage /\ Queues
  BY DEF Init, GotMessage, Queues
<1>3. Quiet /\ GreetingFirst /\ GreetedFirst
  BY GoroutineTypes DEF Init, Quiet, GreetingFirst, GreetedFirst
<1> QED
  BY <1>1, <1>2, <1>3 DEF Inv

LEMMA NextInv == Inv /\ [Next]_vars => Inv'
<1> SUFFICES ASSUME Inv, [Next]_vars PROVE Inv'
  OBVIOUS
<1>1. CASE UNCHANGED vars
  BY <1>1 DEF vars, Inv, TypeOK, GotMessage, Queues, Quiet, GreetingFirst, GreetedFirst,
              connVars, chanVars, callVars, netVars
<1>2. CASE Next
  BY <1>2, WalletKeeps, CallerKeeps, PumpsKeep, HandleKeeps, SignerKeeps, SignerClosesKeeps
  DEF Next
<1> QED
  BY <1>1, <1>2

LEMMA Invariance == Spec => []Inv
<1> QED
  BY InitInv, NextInv, PTL DEF Spec

\* The state of the proxy, the wait queues of rx and the frames on every
\* connection keep their types, for any callers, calls and connections: whoever
\* has received from rx holds a message, so writePump writes one.
THEOREM SignerTypeCorrect == Spec => []TypeOK
<1>1. Inv => TypeOK
  BY DEF Inv
<1> QED
  BY <1>1, Invariance, PTL

\* However the callers and pumps of several connections share rx, what the signer
\* takes for its key is the greeting that loop writes before it starts the pumps.
THEOREM KeyIsGreeting == Spec => []GreetedFirst
<1>1. Inv => GreetedFirst
  BY DEF Inv
<1> QED
  BY <1>1, Invariance, PTL

=============================================================================
