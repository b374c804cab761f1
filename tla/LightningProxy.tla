---------------------------- MODULE LightningProxy ----------------------------
(***************************************************************************)
(* lnd's remote signer: SignOutputRaw and ComputeInputScript send a        *)
(* request over a websocket to the wallet that holds the key and return    *)
(* the message that comes back. Callers, writePump and readPump all use    *)
(* one unbuffered channel, rx, in both directions.                         *)
(*                                                                         *)
(* Sources: electrum-lnd/lightning-proxy/proxy.go, the other end of the    *)
(* websocket is on_message of electrum.patch (lib/lightning.py). An action *)
(* is what a goroutine does up to its next operation on rx, on connected   *)
(* or on the network.                                                      *)
(***************************************************************************)
EXTENDS Naturals, Sequences, FiniteSets

CONSTANTS
  MaxCalls,     \* bound: calls of the signer
  Callers,      \* goroutines of lnd that use the signer
  Op,           \* Op[n]: the method of call n
  Conns,        \* websocket connections that may be made to lnd
  Steady,       \* those that are made for sure, by a signer that reads
  Implemented,  \* methods that the remote signer answers
  CanFail,      \* may an upgrade fail, or a connection be closed?
  NoMsg         \* no message

Calls == 1 .. MaxCalls
Ops   == {"SignOutputRaw", "ComputeInputScript"}

ASSUME ProxyAssumption ==
  /\ MaxCalls \in Nat
  /\ Op \in [Calls -> Ops]
  /\ Steady \subseteq Conns
  /\ Implemented \subseteq Ops
  /\ CanFail \in BOOLEAN
  /\ NoMsg \notin [kind : {"request", "answer"}, call : Calls]

Request(n) == [kind |-> "request", call |-> n]
Answer(n)  == [kind |-> "answer", call |-> n]
Messages   == [kind : {"request", "answer"}, call : Calls]

\* The first frame of a connection: the root key, empty until the wallet is set.
Greeting(set) == [kind |-> IF set THEN "key" ELSE "empty", call |-> 0]
Frames == Messages \cup {Greeting(set) : set \in BOOLEAN}

Caller(c) == [role |-> "caller", of |-> c]
Writer(k) == [role |-> "writer", of |-> k]
Reader(k) == [role |-> "reader", of |-> k]
Goroutines == {Caller(c) : c \in Callers} \cup {Writer(k) : k \in Conns}
                \cup {Reader(k) : k \in Conns}

VARIABLES
  status,      \* "up", or why log.Fatal ended the process
  connected,   \* LightningProxy.connected
  rootKeyRaw,  \* is LightningProxy.rootKeyRaw set?
  http,        \* http[k]: where the HTTP handler of connection k is
  sendq,       \* goroutines blocked in rx <- msg, oldest first, with their msg
  recvq,       \* goroutines blocked in <-rx, oldest first
  at,          \* at[g]: where goroutine g is
  got,         \* got[g]: the message g received from rx and has not dealt with
  nextCall,    \* number of the next call
  doing,       \* doing[c]: the call that caller c is in
  returned,    \* returned[n]: the message that call n returned
  toSigner,    \* frames on connection k to the remote signer
  toLnd,       \* frames on connection k to lnd
  signerKey,   \* what the signer at k took for its key
  closed       \* connections closed by the signer

chanVars == <<sendq, recvq, at, got>>
callVars == <<nextCall, doing, returned>>
netVars  == <<toSigner, toLnd, signerKey, closed>>
connVars == <<connected, rootKeyRaw, http>>
vars == <<status, connVars, chanVars, callVars, netVars>>

Init ==
  /\ status = "up"
  /\ connected = FALSE
  /\ rootKeyRaw = FALSE
  /\ http = [k \in Conns |-> "none"]
  /\ sendq = <<>>
  /\ recvq = <<>>
  /\ at = [g \in Goroutines |-> "idle"]
  /\ got = [g \in Goroutines |-> NoMsg]
  /\ nextCall = 1
  /\ doing = [c \in Callers |-> 0]
  /\ returned = [n \in Calls |-> NoMsg]
  /\ toSigner = [k \in Conns |-> <<>>]
  /\ toLnd = [k \in Conns |-> <<>>]
  /\ signerKey = [k \in Conns |-> "unread"]
  /\ closed = {}

Up == status = "up"

\* log.Fatal: the process exits, whatever its goroutines are doing.
Fatal(why) ==
  /\ status' = why
  /\ UNCHANGED <<connVars, chanVars, callVars, netVars>>

-----------------------------------------------------------------------------
(* The unbuffered channel rx: whoever comes second serves the oldest waiter. *)

\* Where a goroutine goes on when its send is done.
AfterSend(g) == IF g.role = "caller" THEN "sent" ELSE "read"

\* Goroutine g executes rx <- m.
Send(g, m) ==
  \/ /\ recvq = <<>>
     /\ sendq' = Append(sendq, [from |-> g, msg |-> m])
     /\ at' = [at EXCEPT ![g] = "sending"]
     /\ UNCHANGED <<recvq, got>>
  \/ /\ recvq # <<>>
     /\ recvq' = Tail(recvq)
     /\ got' = [got EXCEPT ![Head(recvq)] = m]
     /\ at' = [at EXCEPT ![g] = AfterSend(g), ![Head(recvq)] = "got"]
     /\ UNCHANGED sendq

\* Goroutine g executes <-rx.
Receive(g) ==
  \/ /\ sendq = <<>>
     /\ recvq' = Append(recvq, g)
     /\ at' = [at EXCEPT ![g] = "receiving"]
     /\ UNCHANGED <<sendq, got>>
  \/ /\ sendq # <<>>
     /\ sendq' = Tail(sendq)
     /\ got' = [got EXCEPT ![g] = Head(sendq).msg]
     /\ at' = [at EXCEPT ![g] = "got", ![Head(sendq).from] = AfterSend(Head(sendq).from)]
     /\ UNCHANGED recvq

-----------------------------------------------------------------------------
(* The callers: SignOutputRaw and ComputeInputScript. *)

\* SetWallet, once the wallet of lnd has started.
SetWallet ==
  /\ Up
  /\ ~rootKeyRaw
  /\ rootKeyRaw' = TRUE
  /\ UNCHANGED <<status, connected, http, chanVars, callVars, netVars>>

\* A caller sends its request. lnd signs only after SetWallet (patch, chainregistry).
Call(c) ==
  /\ Up
  /\ rootKeyRaw
  /\ at[Caller(c)] = "idle"
  /\ nextCall \in Calls
  /\ nextCall' = nextCall + 1
  /\ doing' = [doing EXCEPT ![c] = nextCall]
  /\ Send(Caller(c), Request(nextCall))
  /\ UNCHANGED <<status, connVars, returned, netVars>>

\* The request has been taken: the caller waits for a message.
Await(c) ==
  /\ Up
  /\ at[Caller(c)] = "sent"
  /\ Receive(Caller(c))
  /\ UNCHANGED <<status, connVars, callVars, netVars>>

\* ComputeInputScript can take only the answer to a ComputeInputScript apart; the
\* bytes of anything else run out while it reads witness items.
Decodes(m) == m.kind = "answer" /\ Op[m.call] = "ComputeInputScript"

\* The call returns the message it received.
Return(c) ==
  LET m == got[Caller(c)] IN
  /\ Up
  /\ at[Caller(c)] = "got"
  /\ Op[doing[c]] = "SignOutputRaw" \/ Decodes(m)
  /\ returned' = [returned EXCEPT ![doing[c]] = m]
  /\ doing' = [doing EXCEPT ![c] = 0]
  /\ at' = [at EXCEPT ![Caller(c)] = "idle"]
  /\ got' = [got EXCEPT ![Caller(c)] = NoMsg]
  /\ UNCHANGED <<status, connVars, sendq, recvq, nextCall, netVars>>

\* ComputeInputScript calls log.Fatal on the message it received.
Undecodable(c) ==
  /\ Up
  /\ at[Caller(c)] = "got"
  /\ Op[doing[c]] = "ComputeInputScript"
  /\ ~Decodes(got[Caller(c)])
  /\ Fatal("undecodable")

-----------------------------------------------------------------------------
(* One goroutine each way per connection: writePump and readPump. *)

\* writePump waits for a message, whatever its kind.
WriterReceive(k) ==
  /\ Up
  /\ at[Writer(k)] = "loop"
  /\ Receive(Writer(k))
  /\ UNCHANGED <<status, connVars, callVars, netVars>>

\* Fault: a write is repeated.
WritePumpTwice(k) ==
  /\ Up
  /\ at[Writer(k)] = "got"
  /\ toSigner' = [toSigner EXCEPT ![k] = @ \o <<got[Writer(k)], got[Writer(k)]>>]
  /\ at' = [at EXCEPT ![Writer(k)] = "loop"]
  /\ got' = [got EXCEPT ![Writer(k)] = NoMsg]
  /\ UNCHANGED <<status, connVars, sendq, recvq, callVars, toLnd, signerKey, closed>>

\* Fault: writePump ends after its first message.
WritePumpOnce(k) ==
  /\ Up
  /\ at[Writer(k)] = "got"
  /\ toSigner' = [toSigner EXCEPT ![k] = Append(@, got[Writer(k)])]
  /\ at' = [at EXCEPT ![Writer(k)] = "idle"]
  /\ got' = [got EXCEPT ![Writer(k)] = NoMsg]
  /\ UNCHANGED <<status, connVars, sendq, recvq, callVars, toLnd, signerKey, closed>>

\* Fault: the buffer is cleared before it is written.
WritePumpCleared(k) ==
  /\ Up
  /\ at[Writer(k)] = "got"
  /\ toSigner' = [toSigner EXCEPT ![k] = Append(@, NoMsg)]
  /\ at' = [at EXCEPT ![Writer(k)] = "loop"]
  /\ got' = [got EXCEPT ![Writer(k)] = NoMsg]
  /\ UNCHANGED <<status, connVars, sendq, recvq, callVars, toLnd, signerKey, closed>>

\* It writes the message to the signer; the first write after the signer closed
\* the connection may still seem to succeed.
WritePump(k) ==
  /\ Up
  /\ at[Writer(k)] = "got"
  /\ toSigner' = [toSigner EXCEPT ![k] = Append(@, got[Writer(k)])]
  /\ at' = [at EXCEPT ![Writer(k)] = "loop"]
  /\ got' = [got EXCEPT ![Writer(k)] = NoMsg]
  /\ UNCHANGED <<status, connVars, sendq, recvq, callVars, toLnd, signerKey, closed>>

WriteError(k) ==
  /\ Up
  /\ at[Writer(k)] = "got"
  /\ k \in closed
  /\ Fatal("write error")

\* readPump sends a message of the signer to whoever receives from rx.
ReadPump(k) ==
  /\ Up
  /\ at[Reader(k)] = "read"
  /\ toLnd[k] # <<>>
  /\ toLnd' = [toLnd EXCEPT ![k] = Tail(@)]
  /\ Send(Reader(k), Head(toLnd[k]))
  /\ UNCHANGED <<status, connVars, callVars, toSigner, signerKey, closed>>

ReadFails(k) ==
  /\ Up
  /\ at[Reader(k)] = "read"
  /\ toLnd[k] = <<>>
  /\ k \in closed
  /\ Fatal("read error")

-----------------------------------------------------------------------------
(* The HTTP handler of a connection: loop. *)

\* The handler finds connected set.
AlreadyConnected(k) ==
  /\ Up
  /\ http[k] = "none"
  /\ connected
  /\ Fatal("already connected")

\* The handler finds connected unset ...
CheckConnected(k) ==
  /\ Up
  /\ http[k] = "none"
  /\ ~connected
  /\ http' = [http EXCEPT ![k] = "checked"]
  /\ UNCHANGED <<status, connected, rootKeyRaw, chanVars, callVars, netVars>>

\* Fault: the pumps are started before the key is written.
SetConnectedAndPump(k) ==
  /\ Up
  /\ http[k] = "checked"
  /\ http' = [http EXCEPT ![k] = "upgrading"]
  /\ connected' = TRUE
  /\ at' = [at EXCEPT ![Writer(k)] = "loop", ![Reader(k)] = "read"]
  /\ UNCHANGED <<status, rootKeyRaw, sendq, recvq, got, callVars, netVars>>

\* ... and sets it. Requests are served by goroutines of their own.
SetConnected(k) ==
  /\ Up
  /\ http[k] = "checked"
  /\ http' = [http EXCEPT ![k] = "upgrading"]
  /\ connected' = TRUE
  /\ UNCHANGED <<status, rootKeyRaw, chanVars, callVars, netVars>>

\* The connection is upgraded, the root key written, the pumps are started.
Greet(k) ==
  /\ Up
  /\ http[k] = "upgrading"
  /\ http' = [http EXCEPT ![k] = "serving"]
  /\ toSigner' = [toSigner EXCEPT ![k] = Append(@, Greeting(rootKeyRaw))]
  /\ at' = [at EXCEPT ![Writer(k)] = "loop", ![Reader(k)] = "read"]
  /\ UNCHANGED <<status, connected, rootKeyRaw, sendq, recvq, got, callVars,
                 toLnd, signerKey, closed>>

\* The upgrade or the write of the key fails; the handler returns.
GreetFails(k) ==
  /\ Up
  /\ CanFail
  /\ http[k] = "upgrading"
  /\ http' = [http EXCEPT ![k] = "failed"]
  /\ UNCHANGED <<status, connected, rootKeyRaw, chanVars, callVars, netVars>>

-----------------------------------------------------------------------------
(* The remote signer: on_message. *)

\* The first frame is taken for the key.
ReadKey(k) ==
  /\ Up
  /\ k \notin closed
  /\ toSigner[k] # <<>>
  /\ signerKey[k] = "unread"
  /\ signerKey' = [signerKey EXCEPT ![k] = Head(toSigner[k]).kind]
  /\ toSigner' = [toSigner EXCEPT ![k] = Tail(@)]
  /\ UNCHANGED <<status, connVars, chanVars, callVars, toLnd, closed>>

\* A request of an implemented method is answered; anything else fails an
\* assertion, which the websocket library logs.
Sign(k) ==
  LET f == Head(toSigner[k]) IN
  /\ Up
  /\ k \notin closed
  /\ toSigner[k] # <<>>
  /\ signerKey[k] # "unread"
  /\ toSigner' = [toSigner EXCEPT ![k] = Tail(@)]
  /\ toLnd' = IF f.kind = "request" /\ Op[f.call] \in Implemented
                 THEN [toLnd EXCEPT ![k] = Append(@, Answer(f.call))]
                 ELSE toLnd
  /\ UNCHANGED <<status, connVars, chanVars, callVars, signerKey, closed>>

\* The signer goes away.
SignerCloses(k) ==
  /\ Up
  /\ CanFail
  /\ http[k] = "serving"
  /\ k \notin closed
  /\ closed' = closed \cup {k}
  /\ UNCHANGED <<status, connVars, chanVars, callVars, toSigner, toLnd, signerKey>>

-----------------------------------------------------------------------------
CallerStep(c) == Await(c) \/ Return(c) \/ Undecodable(c)

Pumps(k) == WriterReceive(k) \/ WritePump(k) \/ WriteError(k) \/ ReadPump(k) \/ ReadFails(k)

\* A signer connects: its handler looks at connected ...
Connect(k) == AlreadyConnected(k) \/ CheckConnected(k)

\* ... and goes on.
Handle(k) == SetConnected(k) \/ Greet(k)

Signer(k) == ReadKey(k) \/ Sign(k)

Next ==
  \/ SetWallet
  \/ \E c \in Callers : Call(c) \/ CallerStep(c)
  \/ \E k \in Conns : \/ Pumps(k)
                      \/ Connect(k)
                      \/ Handle(k)
                      \/ GreetFails(k)
                      \/ Signer(k)
                      \/ SignerCloses(k)

\* lnd's goroutines are scheduled, a steady signer connects and reads what it is
\* sent. Nothing makes lnd call the signer, or another signer connect.
Fairness ==
  /\ \A c \in Callers : WF_vars(CallerStep(c))
  /\ \A k \in Conns :
       /\ WF_vars(WriterReceive(k) \/ WritePump(k))
       /\ WF_vars(ReadPump(k))
       /\ WF_vars(Handle(k))
  /\ \A k \in Steady : WF_vars(Connect(k)) /\ WF_vars(Signer(k))

Spec == Init /\ [][Next]_vars /\ Fairness

-----------------------------------------------------------------------------
(* Properties. *)

\* Every variable holds values of its kind: the fields of LightningProxy, the
\* wait queues of rx, the goroutines and the frames on the connections.
TypeOK ==
  /\ status \in {"up", "undecodable", "write error", "read error", "already connected"}
  /\ connected \in BOOLEAN
  /\ rootKeyRaw \in BOOLEAN
  /\ http \in [Conns -> {"none", "checked", "upgrading", "serving", "failed"}]
  /\ sendq \in Seq([from : Goroutines, msg : Frames])
  /\ recvq \in Seq(Goroutines)
  /\ at \in [Goroutines -> {"idle", "sending", "sent", "receiving", "got", "loop", "read"}]
  /\ got \in [Goroutines -> Frames \cup {NoMsg}]
  /\ nextCall \in 1 .. MaxCalls + 1
  /\ doing \in [Callers -> 0 .. MaxCalls]
  /\ returned \in [Calls -> Frames \cup {NoMsg}]
  /\ toSigner \in [Conns -> Seq(Frames)]
  /\ toLnd \in [Conns -> Seq(Frames)]
  /\ signerKey \in [Conns -> {"unread", "key", "empty", "request", "answer"}]
  /\ closed \subseteq Conns

\* The messages of call n: on rx, in a goroutine, on a connection, or returned.
OnRx(n)       == {i \in 1 .. Len(sendq) : sendq[i].msg.call = n}
Held(n)       == {g \in Goroutines : got[g] # NoMsg /\ got[g].call = n}
OnWire(n)     == UNION {{<<k, i>> : i \in {j \in 1 .. Len(toSigner[k] \o toLnd[k]) :
                                          (toSigner[k] \o toLnd[k])[j].call = n}} : k \in Conns}
ReturnedBy(n) == {m \in Calls : returned[m] # NoMsg /\ returned[m].call = n}

\* However messages go astray on rx, they are not multiplied: a call has at most
\* one message, its request or the answer to it, so no input is signed twice for
\* one call and no answer is returned to two.
OneMessagePerCall ==
  \A n \in Calls : Cardinality(OnRx(n)) + Cardinality(Held(n))
                    + Cardinality(OnWire(n)) + Cardinality(ReturnedBy(n)) <= 1

\* The signer takes its first frame for the key (on_message: "read key"): no
\* message of rx may come before the greeting, though that may be empty.
GreetedFirst == \A k \in Conns : signerKey[k] \in {"unread", "key", "empty"}

\* A caller does not stay blocked on rx with its request: with one signer that
\* connects and stays, somebody takes it, unless another makes lnd exit
\* (writePump goes on receiving after it has written).
RequestTaken ==
  \A c \in Callers : at[Caller(c)] = "sending" ~> at[Caller(c)] # "sending" \/ status # "up"

\* A call of a method that the signer implements returns.
Returns ==
  \A n \in Calls : n < nextCall ~> returned[n] # NoMsg \/ status # "up"

\* The proxy is a remote procedure call: what a call returns is its own answer.
Rpc == INSTANCE ReverseRpc WITH
         asked    <- 1 .. nextCall - 1,
         NoReply  <- NoMsg,
         response <- [n \in Calls |-> IF returned[n] = NoMsg THEN NoMsg
                                     ELSE IF returned[n].kind = "answer"
                                            THEN returned[n].call
                                            ELSE 0]
RefinesReverseRpc == Rpc!Safety
=============================================================================
