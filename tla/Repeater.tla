------------------------------ MODULE Repeater ------------------------------
(***************************************************************************)
(* One wallet's bridge in the lightning hub: lnd makes gRPC calls to       *)
(* H2Protocol, each call becomes a JSON request on a queue, a SOCKS        *)
(* handler per Electrum connection sends the requests to the wallet and    *)
(* puts the replies on a second queue, from which the calls are answered.  *)
(* Invoice updates of lnd travel on the same request queue.                *)
(*                                                                         *)
(* Sources: electrum-lightning-hub/repeater_and_rpc.py (H2Protocol,        *)
(* Queues, receiveStreamingUpdates) and socksserver.py (make_handler).     *)
(* Everything runs on one asyncio event loop: an action is what runs       *)
(* between two suspensions of a task.                                      *)
(***************************************************************************)
EXTENDS Integers, Sequences, FiniteSets, Functions

CONSTANTS
  MaxCalls,        \* bound: gRPC calls lnd makes
  MaxOutstanding,  \* calls lnd keeps open at the same time
  Method,          \* Method[c]: the method of call c
  Invoices,        \* invoice updates streamed by lnd
  Conns,           \* SOCKS connections opened by Electrum
  Steady,          \* the connections Electrum does not close
  Frags,           \* pieces a reply arrives in
  MaxTimeouts,     \* bound: read timeouts that race a request or a reply
  CanReset,        \* may the network reset a connection?
  NoItem,          \* no request in hand
  NoReply,         \* the call has no response yet
  Empty            \* the response {} sent when a reply cannot be parsed

Calls == 1 .. MaxCalls

ASSUME RepeaterAssumption ==
  /\ MaxCalls \in Nat
  /\ MaxOutstanding \in Nat
  /\ MaxTimeouts \in Nat
  /\ Frags \in Nat \ {0}
  /\ Steady \subseteq Conns
  /\ CanReset \in BOOLEAN
  /\ NoReply \notin Calls
  /\ Empty \notin Calls
  /\ NoReply # Empty

Request(c) == [kind |-> "call", id |-> c]
Update(i)  == [kind |-> "invoice", id |-> i]
Requests   == {Request(c) : c \in Calls}
Updates    == {Update(i) : i \in Invoices}
Items      == Requests \cup Updates

ASSUME NoItemAssumption == NoItem \notin Items

\* A reply of the wallet, as the pieces it arrives in.
Chunks   == [reply : Calls, part : 1 .. Frags]
Whole(c) == [p \in 1 .. Frags |-> [reply |-> c, part |-> p]]

VARIABLES
  serialNumber,  \* H2Protocol.serialNumber, the id of the next request
  response,      \* response[c]: the reply with which call c was answered
  writeQueue,    \* requests for the wallet
  readQueue,     \* replies of the wallet
  getters,       \* calls blocked in readQueue.get(), oldest first
  ready,         \* readQueue.get() tasks the event loop has to run, oldest first
  killQueue,     \* number of entries of killQueue
  unsent,        \* invoice updates lnd has not streamed yet
  handler,       \* handler[h]: where the SOCKS handler of h is
  hand,          \* hand[h]: its local variable req
  data,          \* data[h]: its local variable data
  peer,          \* peer[h]: what the hub's kernel knows of the other end of h
  outbound,      \* items the hub has written to h, not yet read by Electrum
  inbound,       \* pieces Electrum has written to h, not yet read by the hub
  timeouts       \* read timeouts so far that raced a request or a reply

callVars == <<serialNumber, response, killQueue>>
waitVars == <<getters, ready>>
connVars == <<handler, hand, data, peer, outbound, inbound>>
vars == <<serialNumber, response, writeQueue, readQueue, getters, ready,
          killQueue, unsent, handler, hand, data, peer, outbound, inbound,
          timeouts>>

Waiting == {c \in Calls : c < serialNumber /\ response[c] = NoReply}

Init ==
  /\ serialNumber = 1
  /\ response = [c \in Calls |-> NoReply]
  /\ writeQueue = <<>>
  /\ readQueue = <<>>
  /\ getters = <<>>
  /\ ready = <<>>
  /\ killQueue = 0
  /\ unsent = Invoices
  /\ handler = [h \in Conns |-> "none"]
  /\ hand = [h \in Conns |-> NoItem]
  /\ data = [h \in Conns |-> <<>>]
  /\ peer = [h \in Conns |-> "open"]
  /\ outbound = [h \in Conns |-> <<>>]
  /\ inbound = [h \in Conns |-> <<>>]
  /\ timeouts = 0

-----------------------------------------------------------------------------
(* The gRPC side: H2Protocol. *)

\* Fault: the get() is scheduled when the request is put and when the put is done.
StreamCompleteTwoGets ==
  /\ serialNumber \in Calls
  /\ Cardinality(Waiting) < MaxOutstanding
  /\ serialNumber' = serialNumber + 1
  /\ writeQueue' = Append(writeQueue, Request(serialNumber))
  /\ ready' = ready \o <<serialNumber, serialNumber>>
  /\ UNCHANGED <<response, killQueue, readQueue, getters, unsent, connVars, timeouts>>

\* stream_complete: the request gets the next serial number and is put on the
\* write queue; when the put is done a readQueue.get() task is scheduled.
StreamComplete ==
  /\ serialNumber \in Calls
  /\ Cardinality(Waiting) < MaxOutstanding
  /\ serialNumber' = serialNumber + 1
  /\ writeQueue' = Append(writeQueue, Request(serialNumber))
  /\ ready' = Append(ready, serialNumber)
  /\ UNCHANGED <<response, killQueue, readQueue, getters, unsent, connVars, timeouts>>

\* json_format.Parse of the reply r into the response message of call c.
Parse(r, c) == IF Method[r] = Method[c] THEN r ELSE Empty

\* The oldest scheduled get() finds a reply: done2 answers the call with it.
Respond ==
  /\ ready # <<>>
  /\ readQueue # <<>>
  /\ response' = [response EXCEPT ![Head(ready)] = Parse(Head(readQueue), Head(ready))]
  /\ ready' = Tail(ready)
  /\ readQueue' = Tail(readQueue)
  /\ killQueue' = killQueue + 1
  /\ UNCHANGED <<serialNumber, writeQueue, getters, unsent, connVars, timeouts>>

\* The oldest scheduled get() finds the queue empty and blocks, behind the
\* getters that are blocked already.
Block ==
  /\ ready # <<>>
  /\ readQueue = <<>>
  /\ ready' = Tail(ready)
  /\ getters' = Append(getters, Head(ready))
  /\ UNCHANGED <<callVars, writeQueue, readQueue, unsent, connVars, timeouts>>

\* readQueue.put(r): the oldest blocked getter is scheduled again. It holds no
\* claim on r: a get() that runs before it takes r.
PutReply(r) ==
  /\ readQueue' = Append(readQueue, r)
  /\ IF getters = <<>>
       THEN UNCHANGED waitVars
       ELSE /\ ready' = Append(ready, Head(getters))
            /\ getters' = Tail(getters)

\* receiveStreamingUpdates puts an update on the same queue as the requests.
StreamInvoice(i) ==
  /\ i \in unsent
  /\ unsent' = unsent \ {i}
  /\ writeQueue' = Append(writeQueue, Update(i))
  /\ UNCHANGED <<callVars, readQueue, waitVars, connVars, timeouts>>

-----------------------------------------------------------------------------
(* The SOCKS handler of connection h: socksserver.make_handler. *)

\* Electrum connects; the handler has read MAGIC and the key and has its queues.
Connect(h) ==
  /\ handler[h] = "none"
  /\ handler' = [handler EXCEPT ![h] = "get"]
  /\ UNCHANGED <<callVars, writeQueue, readQueue, waitVars, unsent, hand, data,
                 peer, outbound, inbound, timeouts>>

\* writer.drain() raises once the connection is known to be broken.
Broken(h) == peer[h] \in {"gone", "reset"}

\* The handler takes the next item off the write queue.
Taking(h) == handler[h] = "get" /\ writeQueue # <<>>

\* The bytes reach Electrum only if it still reads the connection.
Written(h) == outbound' = IF peer[h] = "open"
                            THEN [outbound EXCEPT ![h] = Append(@, Head(writeQueue))]
                            ELSE outbound

\* A request is written, its reply is to be read next.
SendRequest(h) ==
  /\ Taking(h)
  /\ ~Broken(h)
  /\ Head(writeQueue) \in Requests
  /\ Written(h)
  /\ writeQueue' = Tail(writeQueue)
  /\ hand' = [hand EXCEPT ![h] = Head(writeQueue)]
  /\ data' = [data EXCEPT ![h] = <<>>]
  /\ handler' = [handler EXCEPT ![h] = "read"]
  /\ UNCHANGED <<callVars, readQueue, waitVars, unsent, peer, inbound, timeouts>>

\* An item without an id is written and no reply is awaited.
SendUpdate(h) ==
  /\ Taking(h)
  /\ ~Broken(h)
  /\ Head(writeQueue) \in Updates
  /\ Written(h)
  /\ writeQueue' = Tail(writeQueue)
  /\ UNCHANGED <<callVars, readQueue, waitVars, unsent, handler, hand, data,
                 peer, inbound, timeouts>>

\* Fault: the item put back is the one of the previous round.
DrainErrorPrevious(h) ==
  /\ Taking(h)
  /\ Broken(h)
  /\ writeQueue' = Append(Tail(writeQueue), hand[h])
  /\ handler' = [handler EXCEPT ![h] = "returned"]
  /\ UNCHANGED <<callVars, readQueue, waitVars, unsent, hand, data, peer,
                 outbound, inbound, timeouts>>

\* Fault: the handler puts the item back and goes on to read a reply.
DrainErrorGoesOn(h) ==
  /\ Taking(h)
  /\ Broken(h)
  /\ writeQueue' = Append(Tail(writeQueue), Head(writeQueue))
  /\ hand' = [hand EXCEPT ![h] = Head(writeQueue)]
  /\ handler' = [handler EXCEPT ![h] = "read"]
  /\ UNCHANGED <<callVars, readQueue, waitVars, unsent, data, peer,
                 outbound, inbound, timeouts>>

\* Fault: the handler returns without putting the item back.
DrainErrorDrops(h) ==
  /\ Taking(h)
  /\ Broken(h)
  /\ writeQueue' = Tail(writeQueue)
  /\ handler' = [handler EXCEPT ![h] = "returned"]
  /\ UNCHANGED <<callVars, readQueue, waitVars, unsent, hand, data, peer,
                 outbound, inbound, timeouts>>

\* The write fails: the item goes back, to the end of the queue, and the
\* handler returns.
DrainError(h) ==
  /\ Taking(h)
  /\ Broken(h)
  /\ writeQueue' = Append(Tail(writeQueue), Head(writeQueue))
  /\ handler' = [handler EXCEPT ![h] = "returned"]
  /\ UNCHANGED <<callVars, readQueue, waitVars, unsent, hand, data, peer,
                 outbound, inbound, timeouts>>

\* reader.read returns the first n pieces that have arrived.
Reading(h, n) == /\ handler[h] = "read"
                 /\ peer[h] # "reset"
                 /\ n \in 1 .. Len(inbound[h])
Received(h, n) == data[h] \o SubSeq(inbound[h], 1, n)
Consumed(h, n) == inbound' = [inbound EXCEPT ![h] = SubSeq(@, n + 1, Len(@))]

\* Fault: the handler does not note that the request was answered.
ReadReplyNotNoted(h, n) ==
  /\ Reading(h, n)
  /\ \E r \in Calls : Received(h, n) = Whole(r) /\ PutReply(r)
  /\ Consumed(h, n)
  /\ writeQueue' = Append(writeQueue, hand[h])
  /\ hand' = [hand EXCEPT ![h] = NoItem]
  /\ data' = [data EXCEPT ![h] = <<>>]
  /\ handler' = [handler EXCEPT ![h] = "get"]
  /\ UNCHANGED <<callVars, unsent, peer, outbound, timeouts>>

\* What has been read is one JSON object: it is put on the read queue.
ReadReply(h, n) ==
  /\ Reading(h, n)
  /\ \E r \in Calls : Received(h, n) = Whole(r) /\ PutReply(r)
  /\ Consumed(h, n)
  /\ hand' = [hand EXCEPT ![h] = NoItem]
  /\ data' = [data EXCEPT ![h] = <<>>]
  /\ handler' = [handler EXCEPT ![h] = "get"]
  /\ UNCHANGED <<callVars, writeQueue, unsent, peer, outbound, timeouts>>

\* What has been read does not parse: the handler reads on.
ReadMore(h, n) ==
  /\ Reading(h, n)
  /\ \A r \in Calls : Received(h, n) # Whole(r)
  /\ Consumed(h, n)
  /\ data' = [data EXCEPT ![h] = Received(h, n)]
  /\ UNCHANGED <<callVars, writeQueue, readQueue, waitVars, unsent, handler,
                 hand, peer, outbound, timeouts>>

\* Fault: the request is not put back.
PutBackDrops(h) ==
  /\ hand' = [hand EXCEPT ![h] = NoItem]
  /\ data' = [data EXCEPT ![h] = <<>>]
  /\ handler' = [handler EXCEPT ![h] = "get"]
  /\ UNCHANGED <<callVars, writeQueue, readQueue, waitVars, unsent, peer, outbound, inbound>>

\* The request was not answered: it goes to the end of the write queue, what was
\* read of the reply is dropped.
PutBack(h) ==
  /\ writeQueue' = Append(writeQueue, hand[h])
  /\ hand' = [hand EXCEPT ![h] = NoItem]
  /\ data' = [data EXCEPT ![h] = <<>>]
  /\ handler' = [handler EXCEPT ![h] = "get"]
  /\ UNCHANGED <<callVars, readQueue, waitVars, unsent, peer, outbound, inbound>>

\* reader.at_eof()
AtEof(h) ==
  /\ handler[h] = "read"
  /\ peer[h] \in {"eof", "gone"}
  /\ inbound[h] = <<>>
  /\ PutBack(h)
  /\ UNCHANGED timeouts

\* Nothing is under way on h, in either direction.
Silent(h) == outbound[h] = <<>> /\ inbound[h] = <<>>

\* Five seconds without a piece. MaxTimeouts bounds the expiries that come while
\* a request or a reply is still under way; on a silent connection there is
\* nothing else to happen and the timer always expires.
ReadTimeout(h) ==
  /\ handler[h] = "read"
  /\ peer[h] = "open"
  /\ \/ Silent(h) /\ UNCHANGED timeouts
     \/ ~Silent(h) /\ timeouts < MaxTimeouts /\ timeouts' = timeouts + 1
  /\ PutBack(h)

\* reader.read raises ConnectionResetError, which no clause of the handler
\* catches: the task ends and its local variables with it.
ReadError(h) ==
  /\ handler[h] = "read"
  /\ peer[h] = "reset"
  /\ handler' = [handler EXCEPT ![h] = "crashed"]
  /\ hand' = [hand EXCEPT ![h] = NoItem]
  /\ data' = [data EXCEPT ![h] = <<>>]
  /\ UNCHANGED <<callVars, writeQueue, readQueue, waitVars, unsent, peer,
                 outbound, inbound, timeouts>>

-----------------------------------------------------------------------------
(* Electrum and the network: the other end of h. *)

\* Electrum reads the next item; it answers a request with a result and its id.
Electrum(h) ==
  /\ handler[h] # "none"
  /\ peer[h] = "open"
  /\ outbound[h] # <<>>
  /\ outbound' = [outbound EXCEPT ![h] = Tail(@)]
  /\ inbound' = IF Head(outbound[h]) \in Requests
                  THEN [inbound EXCEPT ![h] = @ \o Whole(Head(outbound[h]).id)]
                  ELSE inbound
  /\ UNCHANGED <<callVars, writeQueue, readQueue, waitVars, unsent, handler,
                 hand, data, peer, timeouts>>

\* Electrum closes the connection; the hub sees the end of the stream.
Close(h) ==
  /\ h \notin Steady
  /\ handler[h] # "none"
  /\ peer[h] = "open"
  /\ peer' = [peer EXCEPT ![h] = "eof"]
  /\ UNCHANGED <<callVars, writeQueue, readQueue, waitVars, unsent, handler,
                 hand, data, outbound, inbound, timeouts>>

\* The reset that answers a write to a closed connection, or a close that left
\* data unread, has arrived; the hub notices at its next write.
WriteRefused(h) ==
  /\ peer[h] = "eof"
  /\ peer' = [peer EXCEPT ![h] = "gone"]
  /\ UNCHANGED <<callVars, writeQueue, readQueue, waitVars, unsent, handler,
                 hand, data, outbound, inbound, timeouts>>

\* The network resets an open connection.
Reset(h) ==
  /\ CanReset
  /\ h \notin Steady
  /\ handler[h] # "none"
  /\ peer[h] = "open"
  /\ peer' = [peer EXCEPT ![h] = "reset"]
  /\ UNCHANGED <<callVars, writeQueue, readQueue, waitVars, unsent, handler,
                 hand, data, outbound, inbound, timeouts>>

-----------------------------------------------------------------------------
Read(h) == \E n \in 1 .. Len(inbound[h]) : ReadReply(h, n) \/ ReadMore(h, n)

Handler(h) == \/ SendRequest(h) \/ SendUpdate(h) \/ DrainError(h)
              \/ Read(h) \/ AtEof(h) \/ ReadError(h)

Next ==
  \/ StreamComplete
  \/ Respond
  \/ Block
  \/ \E i \in Invoices : StreamInvoice(i)
  \/ \E h \in Conns : \/ Connect(h)
                      \/ Handler(h)
                      \/ ReadTimeout(h)
                      \/ Electrum(h)
                      \/ Close(h)
                      \/ WriteRefused(h)
                      \/ Reset(h)

\* The event loop runs every task that is ready and every timer that expires,
\* Electrum answers what it reads, a steady connection is opened, and a write to
\* a closed one is refused.
Fairness ==
  /\ WF_vars(Respond)
  /\ WF_vars(Block)
  /\ \A h \in Conns : /\ WF_vars(Handler(h))
                      /\ WF_vars(Silent(h) /\ ReadTimeout(h))
                      /\ WF_vars(Electrum(h))
                      /\ WF_vars(WriteRefused(h))
  /\ \A h \in Steady : WF_vars(Connect(h))

Spec == Init /\ [][Next]_vars /\ Fairness

-----------------------------------------------------------------------------
(* Properties. *)

\* Every variable holds values of its kind: the queues of Queues, the local
\* variables of the handler, the two directions of a connection.
TypeOK ==
  /\ serialNumber \in 1 .. MaxCalls + 1
  /\ response \in [Calls -> Calls \cup {NoReply, Empty}]
  /\ writeQueue \in Seq(Items)
  /\ readQueue \in Seq(Calls)
  /\ getters \in Seq(Calls)
  /\ ready \in Seq(Calls)
  /\ killQueue \in Nat
  /\ unsent \subseteq Invoices
  /\ handler \in [Conns -> {"none", "get", "read", "returned", "crashed"}]
  /\ hand \in [Conns -> Items \cup {NoItem}]
  /\ data \in [Conns -> Seq(Chunks)]
  /\ peer \in [Conns -> {"open", "eof", "gone", "reset"}]
  /\ outbound \in [Conns -> Seq(Items)]
  /\ inbound \in [Conns -> Seq(Chunks)]
  /\ timeouts \in 0 .. MaxTimeouts

\* However often requests are put back, the hub keeps at most one copy of an
\* item: twice on the write queue, on the queue and in a handler's hand, or in
\* two hands would have the wallet carry out one call twice by the hub's doing.
SingleCopy ==
  /\ IsInjective(writeQueue)
  /\ \A h \in Conns : hand[h] \notin Range(writeQueue)
  /\ \A g, h \in Conns : g # h /\ hand[g] # NoItem => hand[g] # hand[h]

\* Every call without a response has exactly one readQueue.get() under way: with
\* none it would never be answered, with two it would take another call's reply.
OneTicket ==
  /\ IsInjective(getters)
  /\ IsInjective(ready)
  /\ Range(getters) \cap Range(ready) = {}
  /\ Range(getters) \cup Range(ready) = Waiting

\* Requests inside the hub: on the write queue or in a handler's hand.
InHub == Requests \cap (Range(writeQueue) \cup Range(hand))

\* Requests lost with the local variables of a handler that crashed.
Lost == {h \in Conns : handler[h] = "crashed"}

\* The hub's books balance: calls without a response match the requests it has
\* yet to get a reply for, the replies not yet taken, and one request per crashed
\* handler. A request dropped elsewhere, or a reply put twice, breaks the sum.
Balanced ==
  Cardinality(Waiting) = Cardinality(InHub) + Len(readQueue) + Cardinality(Lost)

\* A call is answered with the reply to its own request.
OwnReply == \A c \in Calls : response[c] \in {NoReply, c}

\* A response, once sent, is final: the stream is closed and no second reply is
\* written to it.
ResponseFinal ==
  [][\A c \in Calls : response[c] # NoReply => response'[c] = response[c]]_vars

\* Every call lnd makes is answered, whatever connections close and timeouts race a
\* reply, as long as no handler has crashed on a reset connection.
Answered == \A c \in Calls : c \in Waiting ~> response[c] # NoReply \/ Lost # {}

\* The bridge is a remote procedure call: a call is answered once, by its own reply.
Rpc == INSTANCE ReverseRpc WITH asked <- 1 .. serialNumber - 1
RefinesReverseRpc == Rpc!Spec
=============================================================================
