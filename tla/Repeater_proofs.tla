--------------------------- MODULE Repeater_proofs ---------------------------
(***************************************************************************)
(* Proofs about the bridge of one wallet, for every value of its constants *)
(* (any number of calls, connections, invoices and timeouts): what its     *)
(* queues hold; that the hub's books balance whatever connections do; and  *)
(* that each call is answered with its own reply, as long as lnd makes one *)
(* call at a time and no timer expires before the wallet has answered.     *)
(***************************************************************************)
EXTENDS Repeater, SequenceTheorems, FiniteSetTheorems, TLAPS

-----------------------------------------------------------------------------
(* Queues: what put and get do to the items a queue holds. *)

\* Appending an element that a queue does not hold yet keeps its items distinct.
LEMMA PutDistinct ==
  ASSUME NEW S, NEW s \in Seq(S), NEW e \in S
  PROVE  /\ Append(s, e) \in Seq(S)
         /\ Range(Append(s, e)) = Range(s) \cup {e}
         /\ IsInjective(s) /\ e \notin Range(s) => IsInjective(Append(s, e))
<1> DEFINE t == Append(s, e)
<1>1. /\ t \in Seq(S)
      /\ DOMAIN s = 1 .. Len(s)
      /\ DOMAIN t = 1 .. Len(s) + 1
      /\ \A i \in 1 .. Len(s) : t[i] = s[i]
      /\ t[Len(s) + 1] = e
      /\ Len(s) \in Nat
  OBVIOUS
<1> HIDE DEF t
<1>2. Range(t) = Range(s) \cup {e}
  BY <1>1 DEF Range
<1>3. ASSUME IsInjective(s), e \notin Range(s)
      PROVE  IsInjective(t)
  BY <1>1, <1>3 DEF IsInjective, Range
<1> QED
  BY <1>1, <1>2, <1>3 DEF t

\* Taking the head off a queue of distinct items removes just that item.
LEMMA GetDistinct ==
  ASSUME NEW S, NEW s \in Seq(S), s # <<>>
  PROVE  /\ Tail(s) \in Seq(S)
         /\ Head(s) \in S
         /\ Head(s) \in Range(s)
         /\ Range(Tail(s)) \subseteq Range(s)
         /\ IsInjective(s) => /\ IsInjective(Tail(s))
                              /\ Range(Tail(s)) = Range(s) \ {Head(s)}
<1> DEFINE t == Tail(s)
<1>1. /\ t \in Seq(S)
      /\ Head(s) = s[1]
      /\ Len(s) \in Nat \ {0}
      /\ DOMAIN s = 1 .. Len(s)
      /\ DOMAIN t = 1 .. Len(s) - 1
      /\ \A i \in 1 .. Len(s) - 1 : t[i] = s[i + 1]
      /\ Head(s) \in S
  BY EmptySeq, HeadTailProperties
<1> HIDE DEF t
<1>2. Head(s) \in Range(s) /\ Range(t) \subseteq Range(s)
  BY <1>1, SMTT(40) DEF Range
<1>3. ASSUME IsInjective(s)
      PROVE  IsInjective(t) /\ Range(t) = Range(s) \ {Head(s)}
  <2>1. IsInjective(t)
    <3>1. SUFFICES ASSUME NEW a \in DOMAIN t, NEW b \in DOMAIN t, t[a] = t[b]
                   PROVE  a = b
      BY DEF IsInjective
    <3>2. a \in Int /\ b \in Int /\ a + 1 \in DOMAIN s /\ b + 1 \in DOMAIN s
      BY <1>1
    <3>3. s[a + 1] = s[b + 1]
      BY <1>1, <3>1
    <3>4. a + 1 = b + 1
      BY <1>3, <3>2, <3>3 DEF IsInjective
    <3> QED
      BY <3>2, <3>4
  <2>2. Head(s) \notin Range(t)
    BY <1>1, <1>3 DEF IsInjective, Range
  <2>3. ASSUME NEW x \in Range(s), x # Head(s)
        PROVE  x \in Range(t)
    <3>1. PICK i \in 1 .. Len(s) : x = s[i]
      BY <1>1 DEF Range
    <3>2. i - 1 \in 1 .. Len(s) - 1 /\ t[i - 1] = x
      BY <1>1, <2>3, <3>1
    <3> QED
      BY <1>1, <3>2 DEF Range
  <2> QED
    BY <1>2, <2>1, <2>2, <2>3
<1> QED
  BY <1>1, <1>2, <1>3 DEF t

\* Taking the head off a queue and putting it back at the end keeps the items.
LEMMA RotateDistinct ==
  ASSUME NEW S, NEW s \in Seq(S), s # <<>>, IsInjective(s)
  PROVE  /\ IsInjective(Append(Tail(s), Head(s)))
         /\ Range(Append(Tail(s), Head(s))) = Range(s)
<1> DEFINE t == Tail(s)
           x == Head(s)
<1>1. t \in Seq(S) /\ IsInjective(t) /\ x \in S /\ x \in Range(s)
  BY GetDistinct
<1>2. Range(t) = Range(s) \ {x}
  BY GetDistinct
<1> HIDE DEF t, x
<1>3. IsInjective(Append(t, x)) /\ Range(Append(t, x)) = Range(t) \cup {x}
  BY <1>1, <1>2, PutDistinct
<1> QED
  BY <1>1, <1>2, <1>3 DEF t, x

\* Requests are told apart by their call, updates by their invoice, and a request
\* is not an update.
LEMMA ItemsDiffer ==
  /\ \A c, d : Request(c) = Request(d) => c = d
  /\ \A i, j : Update(i) = Update(j) => i = j
  /\ \A c, i : Request(c) # Update(i)
BY DEF Request, Update
-----------------------------------------------------------------------------
(* Type correctness. *)

\* A handler that reads a reply holds the request it reads it for; without this
\* the item put back on the queue could be anything.
ReadingHoldsRequest == \A h \in Conns : handler[h] = "read" => hand[h] \in Requests

Typing == TypeOK /\ ReadingHoldsRequest

LEMMA InitTyping == Init => Typing
BY RepeaterAssumption DEF Init, Typing, TypeOK, ReadingHoldsRequest, Calls

\* put on the read queue, which may wake a getter, keeps the types.
LEMMA PutReplyTyping ==
  ASSUME TypeOK, NEW r \in Calls, PutReply(r)
  PROVE  readQueue' \in Seq(Calls) /\ getters' \in Seq(Calls) /\ ready' \in Seq(Calls)
<1>1. readQueue' \in Seq(Calls)
  BY DEF TypeOK, PutReply
<1>2. CASE getters = <<>>
  BY <1>1, <1>2 DEF TypeOK, PutReply, waitVars
<1>3. CASE getters # <<>>
  <2>1. Head(getters) \in Calls /\ Tail(getters) \in Seq(Calls)
    BY <1>3, HeadTailProperties DEF TypeOK
  <2>2. ready' = Append(ready, Head(getters)) /\ getters' = Tail(getters)
    BY <1>3 DEF PutReply
  <2>3. ready \in Seq(Calls)
    BY DEF TypeOK
  <2>4. ready' \in Seq(Calls)
    BY <2>1, <2>2, <2>3, PutDistinct
  <2> QED
    BY <1>1, <2>1, <2>2, <2>4
<1> QED
  BY <1>2, <1>3

\* So does putting the request in a handler's hand back.
LEMMA PutBackTyping ==
  ASSUME Typing, NEW h \in Conns, handler[h] = "read", PutBack(h),
         timeouts' \in 0 .. MaxTimeouts
  PROVE  Typing'
<1>1. hand[h] \in Items
  BY DEF Typing, ReadingHoldsRequest, Items
<1>2. writeQueue' \in Seq(Items)
  BY <1>1 DEF Typing, TypeOK, PutBack
<1>3. TypeOK'
  BY <1>2 DEF Typing, TypeOK, PutBack, callVars, waitVars
<1>4. ReadingHoldsRequest'
  BY DEF Typing, TypeOK, ReadingHoldsRequest, PutBack
<1> QED
  BY <1>3, <1>4 DEF Typing

\* The pieces read off a connection, and those left on it, are pieces.
LEMMA PiecesTyping ==
  ASSUME TypeOK, NEW h \in Conns, NEW n \in 1 .. Len(inbound[h])
  PROVE  /\ Received(h, n) \in Seq(Chunks)
         /\ Consumed(h, n) => inbound' \in [Conns -> Seq(Chunks)]
<1>1. /\ inbound[h] \in Seq(Chunks)
      /\ data[h] \in Seq(Chunks)
      /\ Len(inbound[h]) \in Nat
  BY DEF TypeOK
<1>2. \A i \in 1 .. Len(inbound[h]) : inbound[h][i] \in Chunks
  BY <1>1, ElementOfSeq
<1>3. SubSeq(inbound[h], 1, n) \in Seq(Chunks)
  BY <1>1, <1>2, SubSeqProperties
<1>4. SubSeq(inbound[h], n + 1, Len(inbound[h])) \in Seq(Chunks)
  BY <1>1, <1>2, SubSeqProperties
<1>5. Received(h, n) \in Seq(Chunks)
  BY <1>1, <1>3, ConcatProperties DEF Received
<1> QED
  BY <1>4, <1>5 DEF TypeOK, Consumed

\* A reply arrives in pieces of its own.
LEMMA WholeTyping == \A c \in Calls : Whole(c) \in Seq(Chunks)
<1> SUFFICES ASSUME NEW c \in Calls
             PROVE  Whole(c) \in Seq(Chunks)
  OBVIOUS
<1>1. Whole(c) \in [1 .. Frags -> Chunks]
  BY DEF Whole, Chunks
<1> QED
  BY <1>1, RepeaterAssumption

\* Every step keeps the types.
LEMMA StepTyping == Typing /\ [Next]_vars => Typing'
<1> SUFFICES ASSUME Typing, [Next]_vars
             PROVE  Typing'
  OBVIOUS
<1> USE DEF Typing, TypeOK, ReadingHoldsRequest
<1>1. CASE StreamComplete
  <2>1. serialNumber + 1 \in 1 .. MaxCalls + 1
    BY <1>1, RepeaterAssumption DEF StreamComplete, Calls
  <2>2. Request(serialNumber) \in Items
    BY <1>1 DEF StreamComplete, Items, Requests
  <2>3. writeQueue' \in Seq(Items) /\ ready' \in Seq(Calls)
    BY <1>1, <2>2 DEF StreamComplete
  <2> QED
    BY <1>1, <2>1, <2>3 DEF StreamComplete, connVars
<1>2. CASE Respond
  <2>1. /\ Head(ready) \in Calls /\ Tail(ready) \in Seq(Calls)
        /\ Head(readQueue) \in Calls /\ Tail(readQueue) \in Seq(Calls)
    BY <1>2, HeadTailProperties DEF Respond
  <2>2. Parse(Head(readQueue), Head(ready)) \in Calls \cup {Empty}
    BY <2>1 DEF Parse
  <2> QED
    BY <1>2, <2>1, <2>2 DEF Respond, connVars
<1>3. CASE Block
  <2>1. Head(ready) \in Calls /\ Tail(ready) \in Seq(Calls)
    BY <1>3, HeadTailProperties DEF Block
  <2>2. getters' \in Seq(Calls)
    BY <1>3, <2>1 DEF Block
  <2> QED
    BY <1>3, <2>1, <2>2 DEF Block, callVars, connVars
<1>4. CASE \E i \in Invoices : StreamInvoice(i)
  <2>1. PICK i \in Invoices : StreamInvoice(i)
    BY <1>4
  <2>2. Update(i) \in Items
    BY DEF Items, Updates
  <2>3. writeQueue' \in Seq(Items)
    BY <2>1, <2>2 DEF StreamInvoice
  <2> QED
    BY <2>1, <2>3 DEF StreamInvoice, callVars, waitVars, connVars
<1>5. ASSUME NEW h \in Conns, Connect(h)
      PROVE  Typing'
  BY <1>5 DEF Connect, callVars, waitVars
<1>6. ASSUME NEW h \in Conns, Taking(h)
      PROVE  /\ Head(writeQueue) \in Items /\ Tail(writeQueue) \in Seq(Items)
             /\ Written(h) => outbound' \in [Conns -> Seq(Items)]
  <2>1. Head(writeQueue) \in Items /\ Tail(writeQueue) \in Seq(Items)
    BY <1>6, HeadTailProperties DEF Taking
  <2>2. Append(outbound[h], Head(writeQueue)) \in Seq(Items)
    BY <2>1
  <2>3. ASSUME Written(h)
        PROVE  outbound' \in [Conns -> Seq(Items)]
    BY <2>2, <2>3 DEF Written
  <2> QED
    BY <2>1, <2>3
<1>7. ASSUME NEW h \in Conns, SendRequest(h)
      PROVE  Typing'
  <2>1. writeQueue' \in Seq(Items) /\ outbound' \in [Conns -> Seq(Items)]
    BY <1>6, <1>7 DEF SendRequest
  <2>2. hand' \in [Conns -> Items \cup {NoItem}] /\ data' \in [Conns -> Seq(Chunks)]
    BY <1>6, <1>7, EmptySeq DEF SendRequest
  <2>3. ReadingHoldsRequest'
    BY <1>7 DEF SendRequest
  <2> QED
    BY <1>7, <2>1, <2>2, <2>3 DEF SendRequest, callVars, waitVars
<1>8. ASSUME NEW h \in Conns, SendUpdate(h)
      PROVE  Typing'
  <2>1. writeQueue' \in Seq(Items) /\ outbound' \in [Conns -> Seq(Items)]
    BY <1>6, <1>8 DEF SendUpdate
  <2> QED
    BY <1>8, <2>1 DEF SendUpdate, callVars, waitVars
<1>9. ASSUME NEW h \in Conns, DrainError(h)
      PROVE  Typing'
  <2>1. writeQueue' \in Seq(Items)
    BY <1>6, <1>9, PutDistinct DEF DrainError
  <2> QED
    BY <1>9, <2>1 DEF DrainError, callVars, waitVars
<1>10. ASSUME NEW h \in Conns, Read(h)
       PROVE  Typing'
  <2>1. PICK n \in 1 .. Len(inbound[h]) : ReadReply(h, n) \/ ReadMore(h, n)
    BY <1>10 DEF Read
  <2>2. CASE ReadReply(h, n)
    <3>1. inbound' \in [Conns -> Seq(Chunks)]
      BY <2>2, PiecesTyping DEF ReadReply
    <3>2. readQueue' \in Seq(Calls) /\ getters' \in Seq(Calls) /\ ready' \in Seq(Calls)
      BY <2>2, PutReplyTyping DEF ReadReply
    <3>3. ReadingHoldsRequest'
      BY <2>2 DEF ReadReply, TypeOK, Typing, ReadingHoldsRequest
    <3>4. /\ hand' \in [Conns -> Items \cup {NoItem}]
          /\ data' \in [Conns -> Seq(Chunks)]
          /\ handler' \in [Conns -> {"none", "get", "read", "returned", "crashed"}]
      <4>1. <<>> \in Seq(Chunks)
        OBVIOUS
      <4> QED
        BY <2>2, <4>1 DEF ReadReply, TypeOK, Typing
    <3> QED
      BY <2>2, <3>1, <3>2, <3>3, <3>4 DEF ReadReply, callVars
  <2>3. CASE ReadMore(h, n)
    BY <2>3, PiecesTyping DEF ReadMore, callVars, waitVars
  <2> QED
    BY <2>1, <2>2, <2>3
<1>11. ASSUME NEW h \in Conns, AtEof(h)
       PROVE  Typing'
  BY <1>11, PutBackTyping DEF AtEof
<1>12. ASSUME NEW h \in Conns, ReadTimeout(h)
       PROVE  Typing'
  <2>1. timeouts' \in 0 .. MaxTimeouts
    BY <1>12, RepeaterAssumption DEF ReadTimeout
  <2> QED
    BY <1>12, <2>1, PutBackTyping DEF ReadTimeout
<1>13. ASSUME NEW h \in Conns, ReadError(h)
       PROVE  Typing'
  <2>1. data' \in [Conns -> Seq(Chunks)]
    BY <1>13, EmptySeq DEF ReadError
  <2> QED
    BY <1>13, <2>1 DEF ReadError, callVars, waitVars
<1>14. ASSUME NEW h \in Conns, Electrum(h)
       PROVE  Typing'
  <2>1. outbound' \in [Conns -> Seq(Items)]
    BY <1>14, HeadTailProperties DEF Electrum
  <2>2. inbound' \in [Conns -> Seq(Chunks)]
    <3>1. CASE Head(outbound[h]) \in Requests
      <4>1. PICK c \in Calls : Head(outbound[h]) = Request(c)
        BY <3>1 DEF Requests
      <4>2. Whole(Head(outbound[h]).id) \in Seq(Chunks)
        BY <4>1, WholeTyping DEF Request
      <4>3. inbound[h] \o Whole(Head(outbound[h]).id) \in Seq(Chunks)
        BY <4>2, ConcatProperties
      <4> QED
        BY <1>14, <3>1, <4>3 DEF Electrum
    <3>2. CASE Head(outbound[h]) \notin Requests
      BY <1>14, <3>2 DEF Electrum
    <3> QED
      BY <3>1, <3>2
  <2> QED
    BY <1>14, <2>1, <2>2 DEF Electrum, callVars, waitVars
<1>15. ASSUME NEW h \in Conns, Close(h) \/ WriteRefused(h) \/ Reset(h)
       PROVE  Typing'
  BY <1>15 DEF Close, WriteRefused, Reset, callVars, waitVars
<1>16. CASE UNCHANGED vars
  BY <1>16 DEF vars
<1> QED
  BY <1>1, <1>2, <1>3, <1>4, <1>5, <1>7, <1>8, <1>9, <1>10, <1>11, <1>12, <1>13,
     <1>14, <1>15, <1>16 DEF Next, Handler

\* The bridge's variables keep their types, whatever the number of calls,
\* connections, invoices and timeouts.
THEOREM TypeCorrect == Spec => []TypeOK
<1>1. Typing => TypeOK
  BY DEF Typing
<1> QED
  BY <1>1, InitTyping, StepTyping, PTL DEF Spec

LEMMA TypingHolds == Spec => []Typing
BY InitTyping, StepTyping, PTL DEF Spec

-----------------------------------------------------------------------------
(* No item is copied. *)

\* Items that will still be put on the write queue for the first time.
Unissued == {Request(c) : c \in {d \in Calls : d >= serialNumber}}
              \cup {Update(i) : i \in unsent}

\* SingleCopy says nothing of an item that is nowhere; when lnd makes the call it
\* must be known to be nowhere still.
UnissuedNotHeld ==
  \A x \in Unissued : x \notin Range(writeQueue) /\ \A h \in Conns : hand[h] # x

CopyInv == SingleCopy /\ UnissuedNotHeld

copyVars == <<writeQueue, hand, serialNumber, unsent>>

LEMMA InitCopy == Init => CopyInv
<1> SUFFICES ASSUME Init
             PROVE  CopyInv
  OBVIOUS
<1>1. IsInjective(writeQueue) /\ Range(writeQueue) = {}
  BY DEF Init, IsInjective, Range
<1>2. NoItem \notin Unissued
  BY NoItemAssumption DEF Unissued, Items, Requests, Updates, Init
<1> QED
  BY <1>1, <1>2 DEF CopyInv, SingleCopy, UnissuedNotHeld, Init

\* An item no one holds is put on the write queue for the first time.
LEMMA PutNewCopy ==
  ASSUME Typing, CopyInv, NEW x \in Unissued,
         writeQueue' = Append(writeQueue, x), UNCHANGED hand,
         Unissued' \subseteq Unissued \ {x}
  PROVE  CopyInv'
<1>1. x \in Items /\ writeQueue \in Seq(Items)
  BY DEF Typing, TypeOK, Unissued, Items, Requests, Updates
<1>2. x \notin Range(writeQueue) /\ \A h \in Conns : hand[h] # x
  BY DEF CopyInv, UnissuedNotHeld
<1>3. IsInjective(writeQueue') /\ Range(writeQueue') = Range(writeQueue) \cup {x}
  BY <1>1, <1>2, PutDistinct DEF CopyInv, SingleCopy
<1>4. SingleCopy'
  BY <1>2, <1>3 DEF CopyInv, SingleCopy
<1>5. UnissuedNotHeld'
  BY <1>3 DEF CopyInv, UnissuedNotHeld
<1> QED
  BY <1>4, <1>5 DEF CopyInv

\* A handler takes the head of the write queue, into its hand or for good.
LEMMA TakeCopy ==
  ASSUME Typing, CopyInv, writeQueue # <<>>, writeQueue' = Tail(writeQueue),
         \/ UNCHANGED hand
         \/ \E h \in Conns : hand' = [hand EXCEPT ![h] = Head(writeQueue)],
         UNCHANGED <<serialNumber, unsent>>
  PROVE  CopyInv'
<1>1. writeQueue \in Seq(Items) /\ hand \in [Conns -> Items \cup {NoItem}]
  BY DEF Typing, TypeOK
<1>2. /\ Head(writeQueue) \in Range(writeQueue)
      /\ IsInjective(writeQueue')
      /\ Range(writeQueue') = Range(writeQueue) \ {Head(writeQueue)}
  BY <1>1, GetDistinct DEF CopyInv, SingleCopy
<1>3. \A h \in Conns : hand'[h] \in {hand[h], Head(writeQueue)}
  BY <1>1
<1>4. \A g, h \in Conns : g # h => hand'[g] = hand[g] \/ hand'[h] = hand[h]
  BY <1>1
<1>5. \A h \in Conns : hand'[h] \notin Range(writeQueue')
  BY <1>2, <1>3 DEF CopyInv, SingleCopy
<1>6. \A g, h \in Conns : g # h /\ hand'[g] # NoItem => hand'[g] # hand'[h]
  BY <1>2, <1>3, <1>4 DEF CopyInv, SingleCopy
<1>7. UnissuedNotHeld'
  BY <1>2, <1>3 DEF CopyInv, UnissuedNotHeld, Unissued
<1> QED
  BY <1>2, <1>5, <1>6, <1>7 DEF CopyInv, SingleCopy

\* A handler puts the request in its hand back, or is done with it.
LEMMA ReleaseCopy ==
  ASSUME Typing, CopyInv, NEW h \in Conns, hand' = [hand EXCEPT ![h] = NoItem],
         \/ UNCHANGED writeQueue
         \/ handler[h] = "read" /\ writeQueue' = Append(writeQueue, hand[h]),
         UNCHANGED <<serialNumber, unsent>>
  PROVE  CopyInv'
<1>1. writeQueue \in Seq(Items) /\ hand \in [Conns -> Items \cup {NoItem}]
  BY DEF Typing, TypeOK
<1>2. handler[h] = "read" => hand[h] \in Items
  BY DEF Typing, ReadingHoldsRequest, Items
<1>3. NoItem \notin Range(writeQueue)
  BY <1>1, NoItemAssumption DEF Range
<1>4. hand[h] \notin Range(writeQueue)
  BY DEF CopyInv, SingleCopy
<1>5. /\ IsInjective(writeQueue')
      /\ \/ Range(writeQueue') = Range(writeQueue)
         \/ Range(writeQueue') = Range(writeQueue) \cup {hand[h]} /\ hand[h] \in Items
  <2>1. IsInjective(writeQueue)
    BY DEF CopyInv, SingleCopy
  <2>2. CASE UNCHANGED writeQueue
    BY <2>1, <2>2
  <2>3. CASE handler[h] = "read" /\ writeQueue' = Append(writeQueue, hand[h])
    BY <1>1, <1>2, <1>4, <2>1, <2>3, PutDistinct
  <2> QED
    BY <2>2, <2>3
<1>6. \A g \in Conns : hand'[g] = IF g = h THEN NoItem ELSE hand[g]
  BY <1>1
<1>7. \A g \in Conns : hand'[g] \notin Range(writeQueue')
  BY <1>3, <1>5, <1>6, NoItemAssumption DEF CopyInv, SingleCopy
<1>8. \A f, g \in Conns : f # g /\ hand'[f] # NoItem => hand'[f] # hand'[g]
  BY <1>6 DEF CopyInv, SingleCopy
<1>9. NoItem \notin Unissued
  BY NoItemAssumption DEF Unissued, Items, Requests, Updates, Typing, TypeOK
<1>10. UnissuedNotHeld'
  <2>1. Unissued' = Unissued
    BY DEF Unissued
  <2>2. ASSUME NEW x \in Unissued
        PROVE  x \notin Range(writeQueue') /\ \A g \in Conns : hand'[g] # x
    BY <1>5, <1>6, <1>9 DEF CopyInv, UnissuedNotHeld
  <2> QED
    BY <2>1, <2>2 DEF UnissuedNotHeld
<1> QED
  BY <1>5, <1>7, <1>8, <1>10 DEF CopyInv, SingleCopy

\* Every step of the bridge keeps the items single.
LEMMA StepCopy == Typing /\ CopyInv /\ [Next]_vars => CopyInv'
<1> SUFFICES ASSUME Typing, CopyInv, [Next]_vars
             PROVE  CopyInv'
  OBVIOUS
<1>1. CASE UNCHANGED copyVars
  BY <1>1 DEF copyVars, CopyInv, SingleCopy, UnissuedNotHeld, Unissued
<1>2. CASE StreamComplete
  <2>1. Request(serialNumber) \in Unissued
    BY <1>2 DEF StreamComplete, Unissued, Calls
  <2>2. Unissued' \subseteq Unissued \ {Request(serialNumber)}
    BY <1>2, ItemsDiffer DEF StreamComplete, Unissued, Calls
  <2> QED
    BY <1>2, <2>1, <2>2, PutNewCopy DEF StreamComplete, connVars
<1>3. CASE \E i \in Invoices : StreamInvoice(i)
  <2>1. PICK i \in Invoices : StreamInvoice(i)
    BY <1>3
  <2>2. Update(i) \in Unissued
    BY <2>1 DEF StreamInvoice, Unissued
  <2>3. Unissued' \subseteq Unissued \ {Update(i)}
    BY <2>1, ItemsDiffer DEF StreamInvoice, Unissued, callVars
  <2> QED
    BY <2>1, <2>2, <2>3, PutNewCopy DEF StreamInvoice, connVars
<1>4. CASE Respond \/ Block
  BY <1>1, <1>4 DEF Respond, Block, copyVars, callVars, connVars
<1>5. ASSUME NEW h \in Conns, SendRequest(h) \/ SendUpdate(h)
      PROVE  CopyInv'
  BY <1>5, TakeCopy DEF SendRequest, SendUpdate, Taking, callVars
<1>6. ASSUME NEW h \in Conns, DrainError(h)
      PROVE  CopyInv'
  <2>1. writeQueue \in Seq(Items) /\ writeQueue # <<>> /\ IsInjective(writeQueue)
    BY <1>6 DEF DrainError, Taking, Typing, TypeOK, CopyInv, SingleCopy
  <2>2. IsInjective(writeQueue') /\ Range(writeQueue') = Range(writeQueue)
    BY <1>6, <2>1, RotateDistinct DEF DrainError
  <2> QED
    BY <1>6, <2>2 DEF DrainError, callVars, CopyInv, SingleCopy, UnissuedNotHeld, Unissued
<1>7. ASSUME NEW h \in Conns, Read(h)
      PROVE  CopyInv'
  <2>1. PICK n \in 1 .. Len(inbound[h]) : ReadReply(h, n) \/ ReadMore(h, n)
    BY <1>7 DEF Read
  <2>2. CASE ReadReply(h, n)
    BY <2>2, ReleaseCopy DEF ReadReply, callVars
  <2>3. CASE ReadMore(h, n)
    BY <1>1, <2>3 DEF ReadMore, copyVars, callVars
  <2> QED
    BY <2>1, <2>2, <2>3
<1>8. ASSUME NEW h \in Conns, AtEof(h) \/ ReadTimeout(h)
      PROVE  CopyInv'
  BY <1>8, ReleaseCopy DEF AtEof, ReadTimeout, PutBack, callVars
<1>9. ASSUME NEW h \in Conns, ReadError(h)
      PROVE  CopyInv'
  BY <1>9, ReleaseCopy DEF ReadError, callVars
<1>10. ASSUME NEW h \in Conns,
              Connect(h) \/ Electrum(h) \/ Close(h) \/ WriteRefused(h) \/ Reset(h)
       PROVE  CopyInv'
  BY <1>1, <1>10 DEF Connect, Electrum, Close, WriteRefused, Reset, copyVars, callVars
<1>11. CASE UNCHANGED vars
  BY <1>1, <1>11 DEF vars, copyVars
<1> QED
  BY <1>2, <1>3, <1>4, <1>5, <1>6, <1>7, <1>8, <1>9, <1>10, <1>11 DEF Next, Handler

\* The hub never holds two copies of a request or of an update, however often
\* connections fail and requests are put back.
THEOREM NoItemCopied == Spec => []SingleCopy
<1>1. CopyInv => SingleCopy
  BY DEF CopyInv
<1> QED
  BY <1>1, InitTyping, InitCopy, StepTyping, StepCopy, PTL DEF Spec

-----------------------------------------------------------------------------
(* Calls and their get()s. *)

\* A call that lnd has not made yet has no response.
UnaskedUnanswered == \A c \in Calls : c >= serialNumber => response[c] = NoReply

TicketInv == OneTicket /\ UnaskedUnanswered

ticketVars == <<serialNumber, response, getters, ready>>

LEMMA InitTicket == Init => TicketInv
<1> SUFFICES ASSUME Init
             PROVE  TicketInv
  OBVIOUS
<1>1. /\ IsInjective(getters) /\ Range(getters) = {}
      /\ IsInjective(ready) /\ Range(ready) = {}
  BY DEF Init, IsInjective, Range
<1>2. Waiting = {}
  BY DEF Waiting, Init, Calls
<1> QED
  BY <1>1, <1>2 DEF TicketInv, OneTicket, UnaskedUnanswered, Init

\* Getting a ticket from one queue to the other: the head of s goes to the end of t.
LEMMA MoveTicket ==
  ASSUME NEW S, NEW s \in Seq(S), NEW t \in Seq(S), s # <<>>,
         IsInjective(s), IsInjective(t), Range(s) \cap Range(t) = {}
  PROVE  /\ IsInjective(Tail(s))
         /\ IsInjective(Append(t, Head(s)))
         /\ Range(Tail(s)) \cap Range(Append(t, Head(s))) = {}
         /\ Range(Tail(s)) \cup Range(Append(t, Head(s))) = Range(s) \cup Range(t)
<1>1. /\ IsInjective(Tail(s))
      /\ Head(s) \in S
      /\ Head(s) \in Range(s)
      /\ Range(Tail(s)) = Range(s) \ {Head(s)}
  BY GetDistinct
<1>2. Head(s) \notin Range(t)
  BY <1>1
<1>3. /\ IsInjective(Append(t, Head(s)))
      /\ Range(Append(t, Head(s))) = Range(t) \cup {Head(s)}
  BY <1>1, <1>2, PutDistinct
<1> QED
  BY <1>1, <1>2, <1>3

\* Answering a call: the call was waiting, and waits no longer.
LEMMA RespondTicket ==
  ASSUME Typing, TicketInv, Respond
  PROVE  /\ Head(ready) \in Waiting
         /\ \A c \in Calls : c # Head(ready) => response'[c] = response[c]
         /\ response'[Head(ready)] # NoReply
         /\ Waiting' = Waiting \ {Head(ready)}
<1>1. /\ ready \in Seq(Calls) /\ ready # <<>>
      /\ readQueue \in Seq(Calls) /\ readQueue # <<>>
      /\ response \in [Calls -> Calls \cup {NoReply, Empty}]
  BY DEF Typing, TypeOK, Respond
<1>2. Head(ready) \in Range(ready) /\ Head(ready) \in Calls /\ Head(readQueue) \in Calls
  BY <1>1, GetDistinct
<1>3. Head(ready) \in Waiting
  BY <1>2 DEF TicketInv, OneTicket
<1>4. Parse(Head(readQueue), Head(ready)) # NoReply
  BY <1>2, RepeaterAssumption DEF Parse
<1>5. /\ \A c \in Calls : c # Head(ready) => response'[c] = response[c]
      /\ response'[Head(ready)] # NoReply
  BY <1>1, <1>2, <1>4 DEF Respond
<1>6. Waiting' = Waiting \ {Head(ready)}
  BY <1>2, <1>3, <1>5 DEF Waiting, Respond
<1> QED
  BY <1>3, <1>5, <1>6

\* Every step keeps one get() per waiting call.
LEMMA StepTicket == Typing /\ TicketInv /\ [Next]_vars => TicketInv'
<1> SUFFICES ASSUME Typing, TicketInv, [Next]_vars
             PROVE  TicketInv'
  OBVIOUS
<1>1. getters \in Seq(Calls) /\ ready \in Seq(Calls)
  BY DEF Typing, TypeOK
<1>2. /\ IsInjective(getters) /\ IsInjective(ready)
      /\ Range(getters) \cap Range(ready) = {}
      /\ Range(getters) \cup Range(ready) = Waiting
  BY DEF TicketInv, OneTicket
<1>3. CASE UNCHANGED ticketVars
  BY <1>3 DEF ticketVars, TicketInv, OneTicket, UnaskedUnanswered, Waiting
<1>4. CASE StreamComplete
  <2>1. serialNumber \in Calls /\ serialNumber \in Nat /\ Calls \subseteq Nat
    BY <1>4, RepeaterAssumption DEF StreamComplete, Calls
  <2>2. serialNumber \notin Waiting /\ response[serialNumber] = NoReply
    BY <2>1 DEF Waiting, TicketInv, UnaskedUnanswered
  <2>3. Waiting' = Waiting \cup {serialNumber}
    <3>1. response' = response /\ serialNumber' = serialNumber + 1
      BY <1>4 DEF StreamComplete
    <3>2. \A c \in Calls : c < serialNumber + 1 <=> c < serialNumber \/ c = serialNumber
      BY <2>1
    <3> QED
      BY <2>1, <2>2, <3>1, <3>2 DEF Waiting
  <2>4. /\ IsInjective(ready')
        /\ Range(ready') = Range(ready) \cup {serialNumber}
    BY <1>1, <1>2, <1>4, <2>1, <2>2, PutDistinct DEF StreamComplete
  <2>5. OneTicket'
    BY <1>2, <1>4, <2>2, <2>3, <2>4 DEF OneTicket, StreamComplete
  <2>6. UnaskedUnanswered'
    BY <1>4, <2>1 DEF StreamComplete, TicketInv, UnaskedUnanswered
  <2> QED
    BY <2>5, <2>6 DEF TicketInv
<1>5. CASE Respond
  <2>1. /\ IsInjective(ready')
        /\ Range(ready') = Range(ready) \ {Head(ready)}
        /\ Head(ready) \in Range(ready)
    BY <1>1, <1>2, <1>5, GetDistinct DEF Respond
  <2>2. OneTicket'
    BY <1>2, <1>5, <2>1, RespondTicket DEF OneTicket, Respond
  <2>3. Head(ready) < serialNumber
    BY <1>5, RespondTicket DEF Waiting
  <2>4. UnaskedUnanswered'
    <3>1. \A c \in Calls : c >= serialNumber => c # Head(ready)
      BY <2>3, RepeaterAssumption DEF Calls, Typing, TypeOK
    <3> QED
      BY <1>5, <3>1, RespondTicket DEF Respond, TicketInv, UnaskedUnanswered
  <2> QED
    BY <2>2, <2>4 DEF TicketInv
<1>6. CASE Block
  <2>1. OneTicket'
    BY <1>1, <1>2, <1>6, MoveTicket DEF Block, OneTicket, Waiting, callVars
  <2> QED
    BY <1>6, <2>1 DEF Block, callVars, TicketInv, UnaskedUnanswered
<1>7. ASSUME NEW h \in Conns, NEW n, ReadReply(h, n)
      PROVE  TicketInv'
  <2>1. PICK r \in Calls : PutReply(r)
    BY <1>7 DEF ReadReply
  <2>2. UNCHANGED <<serialNumber, response>>
    BY <1>7 DEF ReadReply, callVars
  <2>3. CASE getters = <<>>
    BY <1>3, <2>1, <2>2, <2>3 DEF PutReply, waitVars, ticketVars
  <2>4. CASE getters # <<>>
    <3>1. OneTicket'
      <4>1. ready' = Append(ready, Head(getters)) /\ getters' = Tail(getters)
        BY <2>1, <2>4 DEF PutReply
      <4>2. Waiting' = Waiting
        BY <2>2 DEF Waiting
      <4>3. /\ IsInjective(getters') /\ IsInjective(ready')
            /\ Range(getters') \cap Range(ready') = {}
            /\ Range(getters') \cup Range(ready') = Range(getters) \cup Range(ready)
        BY <1>1, <1>2, <2>4, <4>1, MoveTicket
      <4> QED
        BY <1>2, <4>2, <4>3 DEF OneTicket
    <3> QED
      BY <2>2, <3>1 DEF TicketInv, UnaskedUnanswered
  <2> QED
    BY <2>3, <2>4
<1>8. CASE \E i \in Invoices : StreamInvoice(i)
  BY <1>3, <1>8 DEF StreamInvoice, ticketVars, callVars, waitVars
<1>9. ASSUME NEW h \in Conns, NEW n, ReadMore(h, n)
      PROVE  TicketInv'
  BY <1>3, <1>9 DEF ReadMore, ticketVars, callVars, waitVars
<1>10. ASSUME NEW h \in Conns,
              \/ Connect(h) \/ SendRequest(h) \/ SendUpdate(h) \/ DrainError(h)
              \/ AtEof(h) \/ ReadTimeout(h) \/ ReadError(h)
              \/ Electrum(h) \/ Close(h) \/ WriteRefused(h) \/ Reset(h)
       PROVE  TicketInv'
  BY <1>3, <1>10 DEF Connect, SendRequest, SendUpdate, DrainError, AtEof, ReadTimeout,
     PutBack, ReadError, Electrum, Close, WriteRefused, Reset, ticketVars, callVars, waitVars
<1>11. CASE UNCHANGED vars
  BY <1>3, <1>11 DEF vars, ticketVars
<1> QED
  BY <1>4, <1>5, <1>6, <1>7, <1>8, <1>9, <1>10, <1>11 DEF Next, Handler, Read

\* Every call that waits has exactly one readQueue.get() under way: none is
\* forgotten, and none can be answered by two.
THEOREM OneGetPerCall == Spec => []OneTicket
<1>1. TicketInv => OneTicket
  BY DEF TicketInv
<1> QED
  BY <1>1, InitTyping, InitTicket, StepTyping, StepTicket, PTL DEF Spec

\* A response sent to lnd is final: no step of the bridge answers a call again.
THEOREM ResponsesFinal == Spec => ResponseFinal
<1> DEFINE Final == \A c \in Calls : response[c] # NoReply => response'[c] = response[c]
<1>1. Typing /\ TicketInv /\ [Next]_vars => [Final]_vars
  <2> SUFFICES ASSUME Typing, TicketInv, [Next]_vars
               PROVE  Final \/ UNCHANGED vars
    OBVIOUS
  <2>1. CASE Respond
    BY <2>1, RespondTicket DEF Waiting
  <2>2. CASE UNCHANGED response
    BY <2>2
  <2>3. CASE Next /\ ~Respond
    <3>1. UNCHANGED response
      BY <2>3 DEF Next, Handler, Read, StreamComplete, Block, StreamInvoice, Connect,
         SendRequest, SendUpdate, DrainError, ReadReply, ReadMore, AtEof, ReadTimeout,
         PutBack, ReadError, Electrum, Close, WriteRefused, Reset, callVars
    <3> QED
      BY <3>1, <2>2
  <2> QED
    BY <2>1, <2>3
<1> QED
  BY <1>1, InitTyping, InitTicket, StepTyping, StepTicket, PTL DEF Spec, ResponseFinal

-----------------------------------------------------------------------------
(* Where the requests of one wallet are.                                   *)

-----------------------------------------------------------------------------
(* The inductive invariants. *)

\* Only a handler that reads a reply holds a request.
OthersHoldNothing == \A h \in Conns : handler[h] # "read" => hand[h] = NoItem

BooksInv ==
  /\ Typing
  /\ CopyInv
  /\ TicketInv
  /\ OthersHoldNothing
  /\ IsFiniteSet(Lost)
  /\ Balanced

\* What is under way to the wallet holds no request, or the one of call c only.
NoAsks(s) == \A i \in 1 .. Len(s) : s[i] \notin Requests
OnlyAsks(s, c) ==
  \E i \in 1 .. Len(s) :
     s[i] = Request(c) /\ \A j \in 1 .. Len(s) : j # i => s[j] \notin Requests

\* The request of call c is under way, its reply is, or Electrum closed the
\* connection before it answered.
Asked(h, c) ==
  /\ peer[h] = "open"
  /\ OnlyAsks(outbound[h], c)
  /\ data[h] = <<>>
  /\ inbound[h] = <<>>
Replying(h, c) ==
  /\ peer[h] = "open" => NoAsks(outbound[h])
  /\ data[h] \o inbound[h] = Whole(c)
  /\ inbound[h] # <<>>
Closed(h) ==
  /\ peer[h] \in {"eof", "gone"}
  /\ data[h] = <<>>
  /\ inbound[h] = <<>>

\* Between two requests nothing of the last one is left on a connection; after one,
\* nothing but it and its reply.
Wire(h) ==
  peer[h] # "reset" =>
     /\ handler[h] \in {"none", "get"} =>
           /\ data[h] = <<>>
           /\ inbound[h] = <<>>
           /\ peer[h] = "open" => NoAsks(outbound[h])
     /\ handler[h] = "read" =>
           \A c \in Calls : hand[h] = Request(c) =>
              Asked(h, c) \/ Replying(h, c) \/ Closed(h)

WireInv == \A h \in Conns : Wire(h)

\* Requests in the hub, and replies, are those of the one call that waits.
ReplyInv ==
  /\ \A c, d \in Waiting : c = d
  /\ \A c \in Calls : Request(c) \in InHub => c \in Waiting
  /\ Range(readQueue) \subseteq Waiting
  /\ OwnReply

-----------------------------------------------------------------------------
(* Sets that are counted. *)

LEMMA CountedFinite ==
  /\ IsFiniteSet(Waiting) /\ Cardinality(Waiting) \in Nat
  /\ IsFiniteSet(InHub) /\ Cardinality(InHub) \in Nat
<1>1. IsFiniteSet(Calls)
  BY RepeaterAssumption, FS_Interval DEF Calls
<1>2. IsFiniteSet(Requests)
  <2> DEFINE f == [c \in Calls |-> Request(c)]
  <2>1. f \in Surjection(Calls, Requests)
    BY DEF Surjection, Requests
  <2> QED
    BY <1>1, <2>1, FS_Surjection
<1>3. Waiting \in SUBSET Calls /\ InHub \in SUBSET Requests
  BY DEF Waiting, InHub
<1>4. IsFiniteSet(Waiting) /\ IsFiniteSet(InHub)
  BY <1>1, <1>2, <1>3, FS_Subset
<1> QED
  BY <1>4, FS_CardinalityType

LEMMA Added ==
  ASSUME NEW S, IsFiniteSet(S), NEW x, x \notin S
  PROVE  /\ IsFiniteSet(S \cup {x}) /\ Cardinality(S) \in Nat
         /\ Cardinality(S \cup {x}) = Cardinality(S) + 1
  BY FS_AddElement, FS_CardinalityType

LEMMA Removed ==
  ASSUME NEW S, IsFiniteSet(S), NEW x \in S
  PROVE  /\ IsFiniteSet(S \ {x}) /\ Cardinality(S) \in Nat
         /\ Cardinality(S) = Cardinality(S \ {x}) + 1
<1>1. IsFiniteSet(S \ {x}) /\ (S \ {x}) \cup {x} = S /\ x \notin S \ {x}
  BY FS_RemoveElement
<1>2. Cardinality((S \ {x}) \cup {x}) = Cardinality(S \ {x}) + 1
  BY <1>1, Added
<1> QED
  BY <1>1, <1>2, FS_CardinalityType

\* A request in the hub is on the write queue or in some hand.
LEMMA HubHolds ==
  ASSUME Typing
  PROVE  \A x : x \in InHub <=> /\ x \in Requests
                                /\ x \in Range(writeQueue) \/ \E h \in Conns : hand[h] = x
<1>1. DOMAIN hand = Conns
  BY DEF Typing, TypeOK
<1> QED
  BY <1>1 DEF InHub, Range

LEMMA UpdateIsNoRequest == \A i : Update(i) \notin Requests
  BY ItemsDiffer DEF Requests

LEMMA NoItemIsNoRequest == NoItem \notin Requests
  BY NoItemAssumption DEF Items

-----------------------------------------------------------------------------
(* The books balance. *)

\* What a step does to the books.
SameHub  == InHub' = InHub
SameLost == Lost' = Lost
SameCalls == UNCHANGED <<serialNumber, response>>

LEMMA BooksKept ==
  ASSUME BooksInv, SameHub, SameLost, SameCalls, UNCHANGED readQueue
  PROVE  IsFiniteSet(Lost)' /\ Balanced'
<1>1. Waiting' = Waiting
  BY DEF SameCalls, Waiting
<1> QED
  BY <1>1 DEF BooksInv, SameHub, SameLost, Balanced

LEMMA HandlersStay ==
  ASSUME Typing, NEW h \in Conns, NEW w, handler' = [handler EXCEPT ![h] = w]
  PROVE  /\ w # "crashed" /\ handler[h] # "crashed" => Lost' = Lost
         /\ w = "crashed" => Lost' = Lost \cup {h}
         /\ \A g \in Conns \ {h} : handler'[g] = handler[g]
         /\ handler'[h] = w
<1>1. /\ handler'[h] = w
      /\ \A g \in Conns \ {h} : handler'[g] = handler[g]
  BY DEF Typing, TypeOK
<1> QED
  BY <1>1 DEF Lost

LEMMA BooksOfCalls ==
  ASSUME BooksInv, StreamComplete \/ Respond \/ Block \/ \E i \in Invoices : StreamInvoice(i)
  PROVE  OthersHoldNothing' /\ IsFiniteSet(Lost)' /\ Balanced'
<1>1. UNCHANGED <<handler, hand>>
  BY DEF StreamComplete, Respond, Block, StreamInvoice, connVars
<1>2. OthersHoldNothing'
  BY <1>1 DEF BooksInv, OthersHoldNothing
<1>3. SameLost
  BY <1>1 DEF SameLost, Lost
<1>4. Typing /\ TicketInv /\ CopyInv /\ Typing'
  BY StepTyping DEF BooksInv, Next
<1>5. CASE StreamComplete
  <2>1. /\ serialNumber \in Calls /\ serialNumber' = serialNumber + 1
        /\ writeQueue' = Append(writeQueue, Request(serialNumber))
        /\ UNCHANGED <<response, readQueue>>
    BY <1>5 DEF StreamComplete
  <2>2. Calls \subseteq Nat
    BY RepeaterAssumption DEF Calls
  <2>3. response[serialNumber] = NoReply
    BY <1>4, <2>1, <2>2 DEF TicketInv, UnaskedUnanswered
  <2>4. serialNumber \notin Waiting /\ Waiting' = Waiting \cup {serialNumber}
    <3>1. \A c \in Calls : c < serialNumber + 1 <=> c < serialNumber \/ c = serialNumber
      BY <2>1, <2>2
    <3>2. ~(serialNumber < serialNumber)
      BY <2>1, <2>2
    <3> QED
      BY <2>1, <2>3, <3>1, <3>2 DEF Waiting
  <2>5. Request(serialNumber) \in Unissued /\ Request(serialNumber) \in Requests
    <3>1. serialNumber \in {d \in Calls : d >= serialNumber}
      BY <2>1, <2>2
    <3> QED
      BY <2>1, <3>1 DEF Unissued, Requests
  <2>6. Request(serialNumber) \notin InHub
    BY <1>4, <2>5, HubHolds DEF CopyInv, UnissuedNotHeld
  <2>7. InHub' = InHub \cup {Request(serialNumber)}
    <3>1. Range(writeQueue') = Range(writeQueue) \cup {Request(serialNumber)}
      <4>1. writeQueue \in Seq(Items) /\ Request(serialNumber) \in Items
        BY <1>4, <2>5 DEF Typing, TypeOK, Items
      <4> QED
        BY <2>1, <4>1, PutDistinct
    <3> QED
      BY <1>1, <2>5, <3>1 DEF InHub
  <2>8. /\ Cardinality(Waiting') = Cardinality(Waiting) + 1
        /\ Cardinality(InHub') = Cardinality(InHub) + 1
    BY <2>4, <2>6, <2>7, CountedFinite, Added
  <2>9. Len(readQueue) \in Nat /\ Cardinality(Lost) \in Nat
    BY <1>4, FS_CardinalityType DEF BooksInv, Typing, TypeOK
  <2>10. Balanced'
    BY <1>3, <2>1, <2>8, <2>9, CountedFinite DEF BooksInv, Balanced, SameLost
  <2> QED
    BY <1>2, <1>3, <2>10 DEF BooksInv, SameLost
<1>6. CASE Respond
  <2>1. Head(ready) \in Waiting /\ Waiting' = Waiting \ {Head(ready)}
    BY <1>4, <1>6, RespondTicket
  <2>2. Cardinality(Waiting) = Cardinality(Waiting') + 1 /\ Cardinality(Waiting') \in Nat
    <3>1. IsFiniteSet(Waiting \ {Head(ready)})
      BY <2>1, CountedFinite, Removed
    <3> QED
      BY <2>1, <3>1, CountedFinite, Removed, FS_CardinalityType
  <2>3. readQueue \in Seq(Calls) /\ readQueue # <<>> /\ readQueue' = Tail(readQueue)
    BY <1>4, <1>6 DEF Typing, TypeOK, Respond
  <2>4. Len(readQueue) = Len(readQueue') + 1 /\ Len(readQueue') \in Nat
    BY <2>3, EmptySeq, HeadTailProperties
  <2>5. InHub' = InHub
    BY <1>6 DEF Respond, InHub, connVars
  <2>6. Cardinality(Lost) \in Nat
    BY FS_CardinalityType DEF BooksInv
  <2>7. Balanced'
    BY <1>3, <2>2, <2>4, <2>5, <2>6, CountedFinite DEF BooksInv, Balanced, SameLost
  <2> QED
    BY <1>2, <1>3, <2>7 DEF BooksInv, SameLost
<1>7. CASE Block
  <2>1. SameHub /\ SameCalls /\ UNCHANGED readQueue
    BY <1>7 DEF Block, SameHub, SameCalls, InHub, connVars, callVars
  <2> QED
    BY <1>2, <1>3, <2>1, BooksKept
<1>8. ASSUME NEW i \in Invoices, StreamInvoice(i)
      PROVE  OthersHoldNothing' /\ IsFiniteSet(Lost)' /\ Balanced'
  <2>1. writeQueue' = Append(writeQueue, Update(i)) /\ SameCalls /\ UNCHANGED readQueue
    BY <1>8 DEF StreamInvoice, SameCalls, callVars
  <2>2. Range(writeQueue') = Range(writeQueue) \cup {Update(i)}
    <3>1. writeQueue \in Seq(Items) /\ Update(i) \in Items
      BY <1>4 DEF Typing, TypeOK, Items, Updates
    <3> QED
      BY <2>1, <3>1, PutDistinct
  <2>3. SameHub
    BY <1>1, <2>2, UpdateIsNoRequest DEF SameHub, InHub
  <2> QED
    BY <1>2, <1>3, <2>1, <2>3, BooksKept
<1> QED
  BY <1>5, <1>6, <1>7, <1>8

\* The handler takes the head of the write queue: a request into its hand, or an
\* update, or it puts it back.
LEMMA BooksOfTaking ==
  ASSUME BooksInv, NEW h \in Conns, SendRequest(h) \/ SendUpdate(h) \/ DrainError(h)
  PROVE  OthersHoldNothing' /\ IsFiniteSet(Lost)' /\ Balanced'
<1> DEFINE x == Head(writeQueue)
<1>1. /\ Typing /\ writeQueue \in Seq(Items) /\ writeQueue # <<>> /\ IsInjective(writeQueue)
      /\ handler[h] = "get" /\ hand \in [Conns -> Items \cup {NoItem}]
  BY DEF BooksInv, SendRequest, SendUpdate, DrainError, Taking, Typing, TypeOK, CopyInv, SingleCopy
<1>2. hand[h] = NoItem /\ handler[h] # "crashed"
  BY <1>1 DEF BooksInv, OthersHoldNothing
<1>3. /\ x \in Range(writeQueue) /\ Range(Tail(writeQueue)) = Range(writeQueue) \ {x}
      /\ Range(Append(Tail(writeQueue), x)) = Range(writeQueue)
  BY <1>1, GetDistinct, RotateDistinct
<1>4. SameCalls /\ UNCHANGED readQueue
  BY DEF SendRequest, SendUpdate, DrainError, SameCalls, callVars
<1>5. Range(hand) = {hand[g] : g \in Conns}
  BY <1>1 DEF Range
<1> HIDE DEF x
<1>6. CASE SendRequest(h)
  <2>1. /\ x \in Requests /\ writeQueue' = Tail(writeQueue) /\ hand' = [hand EXCEPT ![h] = x]
        /\ handler' = [handler EXCEPT ![h] = "read"]
    BY <1>6 DEF SendRequest, x
  <2>2. /\ hand'[h] = x /\ \A g \in Conns \ {h} : hand'[g] = hand[g]
        /\ Range(hand') = {hand'[g] : g \in Conns}
    BY <1>1, <2>1 DEF Range
  <2>3. Range(hand') \cup {NoItem} = Range(hand) \cup {x, NoItem}
    BY <1>2, <1>5, <2>2
  <2>4. SameHub
    BY <1>3, <2>1, <2>3, NoItemIsNoRequest DEF SameHub, InHub
  <2>5. SameLost /\ OthersHoldNothing'
    BY <1>1, <1>2, <2>1, <2>2, HandlersStay DEF SameLost, BooksInv, OthersHoldNothing
  <2> QED
    BY <1>4, <2>4, <2>5, BooksKept
<1>7. CASE SendUpdate(h)
  <2>1. /\ x \in Updates /\ writeQueue' = Tail(writeQueue) /\ UNCHANGED <<hand, handler>>
    BY <1>7 DEF SendUpdate, x
  <2>2. x \notin Requests
    BY <2>1, UpdateIsNoRequest DEF Updates
  <2>3. SameHub
    BY <1>3, <2>1, <2>2 DEF SameHub, InHub
  <2> QED
    BY <1>4, <2>1, <2>3, BooksKept DEF SameLost, Lost, OthersHoldNothing, BooksInv
<1>8. CASE DrainError(h)
  <2>1. /\ writeQueue' = Append(Tail(writeQueue), x) /\ UNCHANGED hand
        /\ handler' = [handler EXCEPT ![h] = "returned"]
    BY <1>8 DEF DrainError, x
  <2>2. SameHub
    BY <1>3, <2>1 DEF SameHub, InHub
  <2>3. SameLost /\ OthersHoldNothing'
    BY <1>1, <1>2, <2>1, HandlersStay DEF SameLost, BooksInv, OthersHoldNothing
  <2> QED
    BY <1>4, <2>2, <2>3, BooksKept
<1> QED
  BY <1>6, <1>7, <1>8

\* The handler's hand becomes empty; the request may have gone to the write queue.
LEMMA HandEmptied ==
  ASSUME BooksInv, NEW h \in Conns, handler[h] = "read", hand' = [hand EXCEPT ![h] = NoItem],
         NEW w \in {"get", "crashed"}, handler' = [handler EXCEPT ![h] = w]
  PROVE  /\ OthersHoldNothing'
         /\ hand[h] \in InHub
         /\ UNCHANGED writeQueue => InHub' = InHub \ {hand[h]}
         /\ writeQueue' = Append(writeQueue, hand[h]) => InHub' = InHub
<1>1. /\ Typing /\ writeQueue \in Seq(Items) /\ hand \in [Conns -> Items \cup {NoItem}]
      /\ hand[h] \in Requests /\ hand[h] \in Items
  BY DEF BooksInv, Typing, TypeOK, ReadingHoldsRequest, Items
<1>2. hand'[h] = NoItem /\ \A g \in Conns \ {h} : hand'[g] = hand[g]
  BY <1>1
<1>3. OthersHoldNothing'
  BY <1>1, <1>2, HandlersStay DEF BooksInv, OthersHoldNothing
<1>4. hand[h] \in InHub
  BY <1>1, HubHolds
<1>5. hand[h] # NoItem
  BY <1>1, NoItemIsNoRequest
<1>6. hand[h] \notin Range(writeQueue) /\ \A g \in Conns \ {h} : hand[g] # hand[h]
  BY <1>5 DEF BooksInv, CopyInv, SingleCopy
<1>7. Range(hand') \cup {hand[h], NoItem} = Range(hand) \cup {NoItem} /\ hand[h] \notin Range(hand')
  <2>1. Range(hand) = {hand[g] : g \in Conns} /\ Range(hand') = {hand'[g] : g \in Conns}
    BY <1>1 DEF Range
  <2> QED
    BY <1>2, <1>5, <1>6, <2>1, ZenonT(60)
<1>8. ASSUME UNCHANGED writeQueue PROVE InHub' = InHub \ {hand[h]}
  BY <1>6, <1>7, <1>8, NoItemIsNoRequest DEF InHub
<1>9. ASSUME writeQueue' = Append(writeQueue, hand[h]) PROVE InHub' = InHub
  <2>1. Range(writeQueue') = Range(writeQueue) \cup {hand[h]}
    BY <1>1, <1>9, PutDistinct
  <2> QED
    BY <1>7, <2>1, NoItemIsNoRequest DEF InHub
<1> QED
  BY <1>3, <1>4, <1>8, <1>9

LEMMA BooksOfReading ==
  ASSUME BooksInv, NEW h \in Conns,
         Read(h) \/ AtEof(h) \/ ReadTimeout(h) \/ ReadError(h)
  PROVE  OthersHoldNothing' /\ IsFiniteSet(Lost)' /\ Balanced'
<1>1. Typing /\ handler[h] = "read"
  BY DEF BooksInv, Read, ReadReply, ReadMore, Reading, AtEof, ReadTimeout, ReadError
<1>2. SameCalls
  BY DEF Read, ReadReply, ReadMore, AtEof, ReadTimeout, PutBack, ReadError, SameCalls, callVars
<1>3. Waiting' = Waiting
  BY <1>2 DEF SameCalls, Waiting
<1>4. Len(readQueue) \in Nat /\ IsFiniteSet(Lost) /\ Cardinality(Lost) \in Nat
  BY FS_CardinalityType DEF BooksInv, Typing, TypeOK
<1>5. ASSUME NEW n, ReadReply(h, n)
      PROVE  OthersHoldNothing' /\ IsFiniteSet(Lost)' /\ Balanced'
  <2>1. /\ hand' = [hand EXCEPT ![h] = NoItem] /\ handler' = [handler EXCEPT ![h] = "get"]
        /\ UNCHANGED writeQueue /\ \E r \in Calls : PutReply(r)
    BY <1>5 DEF ReadReply
  <2>2. OthersHoldNothing' /\ hand[h] \in InHub /\ InHub' = InHub \ {hand[h]}
    BY <1>1, <2>1, HandEmptied
  <2>3. Cardinality(InHub) = Cardinality(InHub') + 1 /\ Cardinality(InHub') \in Nat
    <3>1. IsFiniteSet(InHub \ {hand[h]})
      BY <2>2, CountedFinite, Removed
    <3> QED
      BY <2>2, <3>1, CountedFinite, Removed, FS_CardinalityType
  <2>4. Len(readQueue') = Len(readQueue) + 1
    BY <1>1, <2>1 DEF PutReply, Typing, TypeOK
  <2>5. Lost' = Lost
    BY <1>1, <2>1, HandlersStay
  <2>6. Balanced'
    BY <1>3, <1>4, <2>3, <2>4, <2>5, CountedFinite DEF BooksInv, Balanced
  <2> QED
    BY <1>4, <2>2, <2>5, <2>6
<1>6. ASSUME NEW n, ReadMore(h, n)
      PROVE  OthersHoldNothing' /\ IsFiniteSet(Lost)' /\ Balanced'
  <2>1. UNCHANGED <<writeQueue, readQueue, handler, hand>>
    BY <1>6 DEF ReadMore
  <2> QED
    BY <1>2, <2>1, BooksKept DEF SameHub, SameLost, InHub, Lost, BooksInv, OthersHoldNothing
<1>7. CASE AtEof(h) \/ ReadTimeout(h)
  <2>1. /\ hand' = [hand EXCEPT ![h] = NoItem] /\ handler' = [handler EXCEPT ![h] = "get"]
        /\ writeQueue' = Append(writeQueue, hand[h]) /\ UNCHANGED readQueue
    BY <1>7 DEF AtEof, ReadTimeout, PutBack
  <2>2. OthersHoldNothing' /\ SameHub
    BY <1>1, <2>1, HandEmptied DEF SameHub
  <2>3. SameLost
    BY <1>1, <2>1, HandlersStay DEF SameLost
  <2> QED
    BY <1>2, <2>1, <2>2, <2>3, BooksKept
<1>8. CASE ReadError(h)
  <2>1. /\ hand' = [hand EXCEPT ![h] = NoItem] /\ handler' = [handler EXCEPT ![h] = "crashed"]
        /\ UNCHANGED <<writeQueue, readQueue>>
    BY <1>8 DEF ReadError
  <2>2. OthersHoldNothing' /\ hand[h] \in InHub /\ InHub' = InHub \ {hand[h]}
    BY <1>1, <2>1, HandEmptied
  <2>3. Cardinality(InHub) = Cardinality(InHub') + 1 /\ Cardinality(InHub') \in Nat
    <3>1. IsFiniteSet(InHub \ {hand[h]})
      BY <2>2, CountedFinite, Removed
    <3> QED
      BY <2>2, <3>1, CountedFinite, Removed, FS_CardinalityType
  <2>4. h \notin Lost /\ Lost' = Lost \cup {h}
    BY <1>1, <2>1, HandlersStay DEF Lost
  <2>5. IsFiniteSet(Lost') /\ Cardinality(Lost') = Cardinality(Lost) + 1
    BY <1>4, <2>4, Added
  <2>6. Balanced'
    BY <1>3, <1>4, <2>1, <2>3, <2>5, CountedFinite DEF BooksInv, Balanced
  <2> QED
    BY <2>2, <2>5, <2>6
<1> QED
  BY <1>5, <1>6, <1>7, <1>8 DEF Read

LEMMA BooksOfPeer ==
  ASSUME BooksInv, NEW h \in Conns,
         Connect(h) \/ Electrum(h) \/ Close(h) \/ WriteRefused(h) \/ Reset(h)
  PROVE  OthersHoldNothing' /\ IsFiniteSet(Lost)' /\ Balanced'
<1>1. SameCalls /\ UNCHANGED <<writeQueue, readQueue, hand>>
  BY DEF Connect, Electrum, Close, WriteRefused, Reset, SameCalls, callVars
<1>2. SameHub
  BY <1>1 DEF SameHub, InHub
<1>3. SameLost /\ OthersHoldNothing'
  <2>1. CASE Connect(h)
    <3>1. handler[h] = "none" /\ handler' = [handler EXCEPT ![h] = "get"]
      BY <2>1 DEF Connect
    <3> QED
      BY <1>1, <3>1, HandlersStay DEF SameLost, BooksInv, OthersHoldNothing
  <2>2. CASE Electrum(h) \/ Close(h) \/ WriteRefused(h) \/ Reset(h)
    BY <1>1, <2>2
    DEF Electrum, Close, WriteRefused, Reset, SameLost, Lost, BooksInv, OthersHoldNothing
  <2> QED
    BY <2>1, <2>2
<1> QED
  BY <1>1, <1>2, <1>3, BooksKept

LEMMA StepBooks == BooksInv /\ [Next]_vars => BooksInv'
<1> SUFFICES ASSUME BooksInv, [Next]_vars PROVE BooksInv'
  OBVIOUS
<1>1. Typing' /\ CopyInv' /\ TicketInv'
  BY StepTyping, StepCopy, StepTicket DEF BooksInv
<1>2. CASE UNCHANGED vars
  BY <1>1, <1>2, BooksKept DEF vars, BooksInv, SameHub, SameLost, SameCalls, InHub, Lost,
     OthersHoldNothing
<1>3. CASE Next
  <2>1. OthersHoldNothing' /\ IsFiniteSet(Lost)' /\ Balanced'
    BY <1>3, BooksOfCalls, BooksOfTaking, BooksOfReading, BooksOfPeer DEF Next, Handler
  <2> QED
    BY <1>1, <2>1 DEF BooksInv
<1> QED
  BY <1>2, <1>3

LEMMA InitBooks == Init => BooksInv
<1> SUFFICES ASSUME Init PROVE BooksInv
  OBVIOUS
<1>1. Waiting = {} /\ Lost = {} /\ Len(readQueue) = 0 /\ OthersHoldNothing
  BY DEF Init, Waiting, Lost, Calls, OthersHoldNothing
<1>2. InHub = {}
  BY NoItemIsNoRequest DEF Init, InHub, Range
<1> QED
  BY <1>1, <1>2, InitTyping, InitCopy, InitTicket, FS_EmptySet DEF BooksInv, Balanced

LEMMA BooksHold == Spec => []BooksInv
  BY InitBooks, StepBooks, PTL DEF Spec

\* No request is dropped and no reply put twice, but for one request with each
\* handler that ends on a reset connection: for any number of calls, connections,
\* closes, refused writes and timeouts.
THEOREM BooksBalance == Spec => []Balanced
<1>1. BooksInv => Balanced
  BY DEF BooksInv
<1> QED
  BY <1>1, BooksHold, PTL

-----------------------------------------------------------------------------
(* What is on a connection. *)

LEMMA PutAsks ==
  ASSUME NEW s \in Seq(Items), NEW x \in Items, NoAsks(s)
  PROVE  /\ \A c \in Calls : x = Request(c) => OnlyAsks(Append(s, x), c)
         /\ x \notin Requests => NoAsks(Append(s, x))
<1> DEFINE t == Append(s, x)
<1>1. /\ Len(s) \in Nat /\ Len(t) = Len(s) + 1 /\ t[Len(s) + 1] = x
      /\ \A i \in 1 .. Len(s) : t[i] = s[i] /\ t[i] \notin Requests
  BY DEF NoAsks
<1> HIDE DEF t
<1>2. \A i \in 1 .. Len(t) : i \in 1 .. Len(s) \/ i = Len(s) + 1
  BY <1>1
<1>3. Len(s) + 1 \in 1 .. Len(t)
  BY <1>1
<1>4. x \notin Requests => NoAsks(t)
  BY <1>1, <1>2 DEF NoAsks
<1>5. ASSUME NEW c \in Calls, x = Request(c) PROVE OnlyAsks(t, c)
  BY <1>1, <1>2, <1>3, <1>5 DEF OnlyAsks
<1> QED
  BY <1>4, <1>5 DEF t

LEMMA TakeAsks ==
  ASSUME NEW s \in Seq(Items), s # <<>>
  PROVE  /\ NoAsks(s) => Head(s) \notin Requests /\ NoAsks(Tail(s))
         /\ \A c \in Calls : OnlyAsks(s, c) =>
               \/ Head(s) = Request(c) /\ NoAsks(Tail(s))
               \/ Head(s) \notin Requests /\ OnlyAsks(Tail(s), c)
<1> DEFINE t == Tail(s)
<1>1. /\ Len(s) \in Nat \ {0} /\ Head(s) = s[1] /\ Len(t) = Len(s) - 1
      /\ \A i \in 1 .. Len(t) : t[i] = s[i + 1]
  BY EmptySeq, HeadTailProperties
<1> HIDE DEF t
<1>2. \A i \in 1 .. Len(t) : i + 1 \in 1 .. Len(s) /\ i + 1 # 1 /\ i \in Nat
  BY <1>1
<1>3. NoAsks(s) => Head(s) \notin Requests /\ NoAsks(t)
  BY <1>1, <1>2 DEF NoAsks
<1>4. ASSUME NEW c \in Calls, OnlyAsks(s, c)
      PROVE  \/ Head(s) = Request(c) /\ NoAsks(t)
             \/ Head(s) \notin Requests /\ OnlyAsks(t, c)
  <2>1. PICK i \in 1 .. Len(s) :
           s[i] = Request(c) /\ \A j \in 1 .. Len(s) : j # i => s[j] \notin Requests
    BY <1>4 DEF OnlyAsks
  <2>2. CASE i = 1
    BY <1>1, <1>2, <2>1, <2>2 DEF NoAsks
  <2>3. CASE i # 1
    <3>1. i - 1 \in 1 .. Len(t) /\ t[i - 1] = Request(c) /\ Head(s) \notin Requests
      BY <1>1, <2>1, <2>3
    <3>2. \A j \in 1 .. Len(t) : j # i - 1 => t[j] \notin Requests
      BY <1>1, <1>2, <2>1
    <3> QED
      BY <3>1, <3>2 DEF OnlyAsks
  <2> QED
    BY <2>2, <2>3
<1> QED
  BY <1>3, <1>4 DEF t

\* The pieces read so far and those left on the connection are all that came.
LEMMA PiecesSplit ==
  ASSUME Typing, NEW h \in Conns, NEW n \in 1 .. Len(inbound[h])
  PROVE  LET rest == SubSeq(inbound[h], n + 1, Len(inbound[h]))
         IN  /\ rest \in Seq(Chunks) /\ Received(h, n) \in Seq(Chunks)
             /\ Received(h, n) \o rest = data[h] \o inbound[h]
<1> DEFINE d == data[h]
           s == inbound[h]
           first == SubSeq(s, 1, n)
           rest == SubSeq(s, n + 1, Len(s))
<1>1. d \in Seq(Chunks) /\ s \in Seq(Chunks) /\ Len(s) \in Nat
  BY DEF Typing, TypeOK
<1>2. \A i \in 1 .. Len(s) : s[i] \in Chunks
  BY <1>1, ElementOfSeq
<1>3. first \in Seq(Chunks) /\ rest \in Seq(Chunks)
  BY <1>1, <1>2, SubSeqProperties
<1>4. first \o rest = SubSeq(s, 1, Len(s))
  BY <1>1, ConcatAdjacentSubSeq
<1>5. SubSeq(s, 1, Len(s)) = s
  BY <1>1, SubSeqFull
<1>6. d \o first \in Seq(Chunks)
  BY <1>1, <1>3, ConcatProperties
<1> HIDE DEF d, s, first, rest
<1>7. (d \o first) \o rest = d \o (first \o rest)
  BY <1>1, <1>3, ConcatAssociative, SMTT(40)
<1> QED
  BY <1>3, <1>4, <1>5, <1>6, <1>7 DEF Received, d, s, first, rest

\* A reply that begins with a whole reply is that reply.
LEMMA WholeAlone ==
  ASSUME NEW a \in Seq(Chunks), NEW b \in Seq(Chunks), NEW r \in Calls, NEW c \in Calls,
         a = Whole(r), a \o b = Whole(c)
  PROVE  r = c /\ b = <<>>
<1>1. Whole(r) \in Seq(Chunks) /\ Whole(c) \in Seq(Chunks)
  BY WholeTyping
<1>2. /\ Frags \in Nat \ {0} /\ DOMAIN Whole(r) = 1 .. Frags /\ DOMAIN Whole(c) = 1 .. Frags
      /\ Whole(r)[1].reply = r /\ Whole(c)[1].reply = c
  BY RepeaterAssumption DEF Whole
<1>3. Len(Whole(r)) = Frags /\ Len(Whole(c)) = Frags
  BY <1>1, <1>2, LenProperties
<1>4. Len(a \o b) = Len(a) + Len(b) /\ Len(b) \in Nat /\ Len(a) = Frags /\ (a \o b)[1] = a[1]
  <2>1. Len(a) = Frags /\ Len(b) \in Nat
    BY <1>3
  <2>2. 1 \in 1 .. Len(a) + Len(b) /\ 1 <= Len(a)
    BY <1>2, <2>1
  <2> QED
    BY <2>1, <2>2, ConcatProperties
<1>5. Len(b) = 0
  BY <1>2, <1>3, <1>4
<1>6. b = <<>>
  BY <1>5, EmptySeq
<1> QED
  BY <1>2, <1>4, <1>6

LEMMA WholeNotEmpty == \A c \in Calls : Whole(c) # <<>>
<1> SUFFICES ASSUME NEW c \in Calls PROVE Whole(c) # <<>>
  OBVIOUS
<1>1. DOMAIN Whole(c) = 1 .. Frags /\ 1 \in 1 .. Frags
  BY RepeaterAssumption DEF Whole
<1>2. DOMAIN <<>> = {}
  OBVIOUS
<1> QED
  BY <1>1, <1>2

\* The handler reads a whole reply: it is the one to its own request, and nothing
\* is left of it.
LEMMA OwnPieces ==
  ASSUME Typing, NEW h \in Conns, Wire(h), NEW n \in 1 .. Len(inbound[h]), Reading(h, n)
  PROVE  \E c \in Calls :
            /\ hand[h] = Request(c)
            /\ peer[h] = "open" => NoAsks(outbound[h])
            /\ Received(h, n) \in Seq(Chunks)
            /\ SubSeq(inbound[h], n + 1, Len(inbound[h])) \in Seq(Chunks)
            /\ Received(h, n) \o SubSeq(inbound[h], n + 1, Len(inbound[h])) = Whole(c)
            /\ \A r \in Calls : Received(h, n) = Whole(r) =>
                  /\ r = c
                  /\ SubSeq(inbound[h], n + 1, Len(inbound[h])) = <<>>
<1>1. handler[h] = "read" /\ peer[h] # "reset"
  BY DEF Reading
<1>2. PICK c \in Calls : hand[h] = Request(c)
  BY <1>1 DEF Typing, ReadingHoldsRequest, Requests
<1>3. inbound[h] # <<>>
  <2>1. Len(inbound[h]) # 0
    BY DEF Typing, TypeOK
  <2> QED
    BY <2>1, EmptySeq
<1>4. Replying(h, c)
  BY <1>1, <1>2, <1>3 DEF Wire, Asked, Closed
<1> DEFINE rest == SubSeq(inbound[h], n + 1, Len(inbound[h]))
<1>5. /\ rest \in Seq(Chunks) /\ Received(h, n) \in Seq(Chunks)
      /\ Received(h, n) \o rest = Whole(c)
  BY <1>4, PiecesSplit DEF Replying
<1>6. \A r \in Calls : Received(h, n) = Whole(r) => r = c /\ rest = <<>>
  BY <1>5, WholeAlone
<1> QED
  BY <1>2, <1>4, <1>5, <1>6 DEF Replying

\* A connection on which a step does nothing.
Untouched(g) ==
  /\ handler'[g] = handler[g] /\ hand'[g] = hand[g] /\ data'[g] = data[g]
  /\ peer'[g] = peer[g] /\ outbound'[g] = outbound[g] /\ inbound'[g] = inbound[g]

LEMMA WireUntouched ==
  ASSUME NEW g \in Conns, Wire(g), Untouched(g)
  PROVE  Wire(g)'
  BY DEF Wire, Untouched, Asked, Replying, Closed

ConnType ==
  /\ handler \in [Conns -> {"none", "get", "read", "returned", "crashed"}]
  /\ hand \in [Conns -> Items \cup {NoItem}]
  /\ data \in [Conns -> Seq(Chunks)]
  /\ peer \in [Conns -> {"open", "eof", "gone", "reset"}]
  /\ outbound \in [Conns -> Seq(Items)]
  /\ inbound \in [Conns -> Seq(Chunks)]

LEMMA TakingWire ==
  ASSUME Typing, NEW h \in Conns, Wire(h), SendRequest(h) \/ SendUpdate(h) \/ DrainError(h)
  PROVE  Wire(h)' /\ \A g \in Conns \ {h} : Untouched(g)
<1> DEFINE x == Head(writeQueue)
<1>1. ConnType /\ handler[h] = "get" /\ x \in Items
  <2>1. writeQueue \in Seq(Items) /\ writeQueue # <<>> /\ handler[h] = "get"
    BY DEF SendRequest, SendUpdate, DrainError, Taking, Typing, TypeOK
  <2> QED
    BY <2>1, HeadTailProperties DEF Typing, TypeOK, ConnType
<1>2. outbound[h] \in Seq(Items)
  BY <1>1 DEF ConnType
<1> HIDE DEF x
<1>3. ASSUME Written(h)
      PROVE  /\ \A g \in Conns \ {h} : outbound'[g] = outbound[g]
             /\ outbound'[h] = IF peer[h] = "open" THEN Append(outbound[h], x) ELSE outbound[h]
  BY <1>1, <1>3 DEF Written, ConnType, x
<1>4. CASE SendRequest(h)
  <2>1. /\ peer[h] \in {"open", "eof"} /\ x \in Requests /\ Written(h)
        /\ hand' = [hand EXCEPT ![h] = x] /\ data' = [data EXCEPT ![h] = <<>>]
        /\ handler' = [handler EXCEPT ![h] = "read"] /\ UNCHANGED <<peer, inbound>>
    BY <1>1, <1>4 DEF SendRequest, Broken, ConnType, x
  <2>2. \A g \in Conns \ {h} : Untouched(g)
    BY <1>1, <1>3, <2>1 DEF Untouched, ConnType
  <2>3. hand'[h] = x /\ data'[h] = <<>> /\ handler'[h] = "read"
    BY <1>1, <2>1 DEF ConnType
  <2>4. data[h] = <<>> /\ inbound[h] = <<>> /\ (peer[h] = "open" => NoAsks(outbound[h]))
    BY <1>1, <2>1 DEF Wire
  <2>5. ASSUME NEW c \in Calls, x = Request(c) PROVE Asked(h, c)' \/ Closed(h)'
    <3>1. CASE peer[h] = "open"
      <4>1. OnlyAsks(outbound'[h], c)
        BY <1>1, <1>2, <1>3, <2>1, <2>4, <2>5, <3>1, PutAsks
      <4> QED
        BY <2>1, <2>3, <2>4, <3>1, <4>1 DEF Asked
    <3>2. CASE peer[h] = "eof"
      BY <2>1, <2>3, <2>4, <3>2 DEF Closed
    <3> QED
      BY <2>1, <3>1, <3>2
  <2>6. Wire(h)'
    BY <2>3, <2>5 DEF Wire
  <2> QED
    BY <2>2, <2>6
<1>5. CASE SendUpdate(h)
  <2>1. /\ peer[h] \in {"open", "eof"} /\ x \in Updates /\ Written(h)
        /\ UNCHANGED <<hand, data, handler, peer, inbound>>
    BY <1>1, <1>5 DEF SendUpdate, Broken, ConnType, x
  <2>2. \A g \in Conns \ {h} : Untouched(g)
    BY <1>3, <2>1 DEF Untouched
  <2>3. x \notin Requests
    BY <2>1, UpdateIsNoRequest DEF Updates
  <2>4. data[h] = <<>> /\ inbound[h] = <<>> /\ (peer[h] = "open" => NoAsks(outbound[h]))
    BY <1>1, <2>1 DEF Wire
  <2>5. peer[h] = "open" => NoAsks(outbound'[h])
    BY <1>1, <1>2, <1>3, <2>1, <2>3, <2>4, PutAsks
  <2>6. Wire(h)'
    BY <1>1, <2>1, <2>4, <2>5 DEF Wire
  <2> QED
    BY <2>2, <2>6
<1>6. CASE DrainError(h)
  <2>1. /\ handler' = [handler EXCEPT ![h] = "returned"]
        /\ UNCHANGED <<hand, data, peer, outbound, inbound>>
    BY <1>6 DEF DrainError
  <2>2. handler'[h] = "returned" /\ \A g \in Conns \ {h} : Untouched(g)
    BY <1>1, <2>1 DEF Untouched, ConnType
  <2> QED
    BY <2>2 DEF Wire
<1> QED
  BY <1>4, <1>5, <1>6

\* Without an expiry that races a request or a reply, none comes at all.
LEMMA NoTimeout ==
  ASSUME MaxTimeouts = 0, Typing, NEW h \in Conns, Wire(h)
  PROVE  ~ReadTimeout(h)
<1> SUFFICES ASSUME ReadTimeout(h) PROVE FALSE
  OBVIOUS
<1>1. ~(timeouts < MaxTimeouts)
  BY DEF Typing, TypeOK
<1>2. handler[h] = "read" /\ peer[h] = "open" /\ Silent(h)
  BY <1>1 DEF ReadTimeout
<1>3. PICK c \in Calls : hand[h] = Request(c)
  BY <1>2 DEF Typing, ReadingHoldsRequest, Requests
<1>4. Asked(h, c)
  BY <1>2, <1>3 DEF Wire, Silent, Replying, Closed
<1>5. OnlyAsks(<<>>, c)
  BY <1>2, <1>4 DEF Asked, Silent
<1> QED
  BY <1>5, EmptySeq DEF OnlyAsks

LEMMA ReadingWire ==
  ASSUME Typing, NEW h \in Conns, Wire(h), Read(h) \/ AtEof(h) \/ ReadError(h)
  PROVE  Wire(h)' /\ \A g \in Conns \ {h} : Untouched(g)
<1>1. ConnType
  BY DEF Typing, TypeOK, ConnType
<1>2. ASSUME NEW n \in 1 .. Len(inbound[h]), ReadReply(h, n)
      PROVE  Wire(h)' /\ \A g \in Conns \ {h} : Untouched(g)
  <2> DEFINE rest == SubSeq(inbound[h], n + 1, Len(inbound[h]))
  <2>1. /\ Reading(h, n) /\ inbound' = [inbound EXCEPT ![h] = rest]
        /\ \E r \in Calls : Received(h, n) = Whole(r)
        /\ hand' = [hand EXCEPT ![h] = NoItem] /\ data' = [data EXCEPT ![h] = <<>>]
        /\ handler' = [handler EXCEPT ![h] = "get"] /\ UNCHANGED <<peer, outbound>>
    BY <1>2 DEF ReadReply, Consumed
  <2>2. rest = <<>> /\ (peer[h] = "open" => NoAsks(outbound[h]))
    BY <2>1, OwnPieces
  <2> HIDE DEF rest
  <2>3. \A g \in Conns \ {h} : Untouched(g)
    BY <1>1, <2>1 DEF Untouched, ConnType
  <2>4. data'[h] = <<>> /\ handler'[h] = "get" /\ inbound'[h] = <<>>
    BY <1>1, <2>1, <2>2 DEF ConnType
  <2>5. Wire(h)'
    BY <2>1, <2>2, <2>4 DEF Wire
  <2> QED
    BY <2>3, <2>5
<1>3. ASSUME NEW n \in 1 .. Len(inbound[h]), ReadMore(h, n)
      PROVE  Wire(h)' /\ \A g \in Conns \ {h} : Untouched(g)
  <2> DEFINE rest == SubSeq(inbound[h], n + 1, Len(inbound[h]))
             got == Received(h, n)
  <2>1. /\ Reading(h, n) /\ inbound' = [inbound EXCEPT ![h] = rest]
        /\ \A r \in Calls : got # Whole(r)
        /\ data' = [data EXCEPT ![h] = got]
        /\ UNCHANGED <<handler, hand, peer, outbound>>
    BY <1>3 DEF ReadMore, Consumed
  <2>2. PICK c \in Calls :
           /\ hand[h] = Request(c) /\ (peer[h] = "open" => NoAsks(outbound[h]))
           /\ got \in Seq(Chunks) /\ rest \in Seq(Chunks) /\ got \o rest = Whole(c)
    BY <2>1, OwnPieces
  <2> HIDE DEF rest, got
  <2>3. rest # <<>>
    BY <2>1, <2>2, ConcatEmptySeq
  <2>4. \A g \in Conns \ {h} : Untouched(g)
    BY <1>1, <2>1 DEF Untouched, ConnType
  <2>5. data'[h] = got /\ inbound'[h] = rest
    BY <1>1, <2>1 DEF ConnType
  <2>6. Replying(h, c)'
    BY <2>1, <2>2, <2>3, <2>5 DEF Replying
  <2>7. handler'[h] = "read" /\ \A d \in Calls : hand'[h] = Request(d) => d = c
    BY <2>1, <2>2, ItemsDiffer DEF Reading
  <2>8. Wire(h)'
    BY <2>6, <2>7 DEF Wire
  <2> QED
    BY <2>4, <2>8
<1>4. CASE AtEof(h)
  <2>1. /\ handler[h] = "read" /\ peer[h] \in {"eof", "gone"} /\ inbound[h] = <<>>
        /\ hand' = [hand EXCEPT ![h] = NoItem] /\ data' = [data EXCEPT ![h] = <<>>]
        /\ handler' = [handler EXCEPT ![h] = "get"] /\ UNCHANGED <<peer, outbound, inbound>>
    BY <1>4 DEF AtEof, PutBack
  <2>2. \A g \in Conns \ {h} : Untouched(g)
    BY <1>1, <2>1 DEF Untouched, ConnType
  <2>3. data'[h] = <<>> /\ handler'[h] = "get"
    BY <1>1, <2>1 DEF ConnType
  <2>4. Wire(h)'
    BY <2>1, <2>3 DEF Wire
  <2> QED
    BY <2>2, <2>4
<1>5. CASE ReadError(h)
  <2>1. /\ hand' = [hand EXCEPT ![h] = NoItem] /\ data' = [data EXCEPT ![h] = <<>>]
        /\ handler' = [handler EXCEPT ![h] = "crashed"] /\ UNCHANGED <<peer, outbound, inbound>>
    BY <1>5 DEF ReadError
  <2>2. handler'[h] = "crashed" /\ \A g \in Conns \ {h} : Untouched(g)
    BY <1>1, <2>1 DEF Untouched, ConnType
  <2> QED
    BY <2>2 DEF Wire
<1> QED
  BY <1>2, <1>3, <1>4, <1>5 DEF Read

LEMMA PeerWire ==
  ASSUME Typing, NEW h \in Conns, Wire(h),
         Connect(h) \/ Electrum(h) \/ Close(h) \/ WriteRefused(h) \/ Reset(h)
  PROVE  Wire(h)' /\ \A g \in Conns \ {h} : Untouched(g)
<1>1. ConnType /\ outbound[h] \in Seq(Items)
  BY DEF Typing, TypeOK, ConnType
<1>2. CASE Connect(h)
  <2>1. /\ handler[h] = "none" /\ handler' = [handler EXCEPT ![h] = "get"]
        /\ UNCHANGED <<hand, data, peer, outbound, inbound>>
    BY <1>2 DEF Connect
  <2>2. handler'[h] = "get" /\ \A g \in Conns \ {h} : Untouched(g)
    BY <1>1, <2>1 DEF Untouched, ConnType
  <2> QED
    BY <2>1, <2>2 DEF Wire
<1>3. ASSUME NEW w \in {"eof", "gone"}, peer[h] \in {"open", "eof"},
             peer' = [peer EXCEPT ![h] = w], UNCHANGED <<handler, hand, data, outbound, inbound>>
      PROVE  Wire(h)' /\ \A g \in Conns \ {h} : Untouched(g)
  <2>1. peer'[h] = w /\ \A g \in Conns \ {h} : Untouched(g)
    BY <1>1, <1>3 DEF Untouched, ConnType
  <2> QED
    BY <1>3, <2>1 DEF Wire, Asked, Replying, Closed
<1>4. CASE Close(h) \/ WriteRefused(h)
  BY <1>3, <1>4 DEF Close, WriteRefused
<1>5. CASE Reset(h)
  <2>1. peer' = [peer EXCEPT ![h] = "reset"] /\ UNCHANGED <<handler, hand, data, outbound, inbound>>
    BY <1>5 DEF Reset
  <2>2. peer'[h] = "reset" /\ \A g \in Conns \ {h} : Untouched(g)
    BY <1>1, <2>1 DEF Untouched, ConnType
  <2> QED
    BY <2>2 DEF Wire
<1>6. CASE Electrum(h)
  <2> DEFINE x == Head(outbound[h])
  <2>1. /\ handler[h] # "none" /\ peer[h] = "open" /\ outbound[h] # <<>>
        /\ outbound' = [outbound EXCEPT ![h] = Tail(outbound[h])]
        /\ inbound' = IF x \in Requests
                        THEN [inbound EXCEPT ![h] = inbound[h] \o Whole(x.id)] ELSE inbound
        /\ UNCHANGED <<handler, hand, data, peer>>
    BY <1>6 DEF Electrum
  <2>2. \A g \in Conns \ {h} : Untouched(g)
    BY <1>1, <2>1 DEF Untouched, ConnType
  <2>3. outbound'[h] = Tail(outbound[h])
    BY <1>1, <2>1 DEF ConnType
  <2>4. /\ NoAsks(outbound[h]) => x \notin Requests /\ NoAsks(outbound'[h])
        /\ \A c \in Calls : OnlyAsks(outbound[h], c) =>
              \/ x = Request(c) /\ NoAsks(outbound'[h])
              \/ x \notin Requests /\ OnlyAsks(outbound'[h], c)
    BY <1>1, <2>1, <2>3, TakeAsks
  <2> HIDE DEF x
  <2>5. /\ x \notin Requests => inbound'[h] = inbound[h]
        /\ x \in Requests => inbound'[h] = inbound[h] \o Whole(x.id)
    BY <1>1, <2>1 DEF ConnType
  <2>6. ASSUME NEW c \in Calls, Asked(h, c) PROVE Asked(h, c)' \/ Replying(h, c)'
    <3>1. CASE x = Request(c) /\ NoAsks(outbound'[h])
      <4>1. x \in Requests /\ x.id = c
        BY <3>1 DEF Requests, Request
      <4>2. Whole(c) \in Seq(Chunks) /\ Whole(c) # <<>>
        BY WholeTyping, WholeNotEmpty
      <4>3. inbound'[h] = Whole(c) /\ data'[h] = <<>>
        BY <2>1, <2>5, <2>6, <4>1, <4>2, ConcatEmptySeq DEF Asked
      <4>4. data'[h] \o inbound'[h] = Whole(c)
        BY <4>2, <4>3, ConcatEmptySeq
      <4> QED
        BY <3>1, <4>2, <4>3, <4>4 DEF Replying
    <3>2. CASE x \notin Requests /\ OnlyAsks(outbound'[h], c)
      BY <2>1, <2>5, <2>6, <3>2 DEF Asked
    <3> QED
      BY <2>4, <2>6, <3>1, <3>2 DEF Asked
  <2>7. ASSUME NEW c \in Calls, Replying(h, c) PROVE Replying(h, c)'
    BY <2>1, <2>4, <2>5, <2>7 DEF Replying
  <2>8. Wire(h)'
    BY <2>1, <2>4, <2>5, <2>6, <2>7 DEF Wire, Closed
  <2> QED
    BY <2>2, <2>8
<1> QED
  BY <1>2, <1>4, <1>5, <1>6

LEMMA StepWire ==
  ASSUME MaxTimeouts = 0, Typing, WireInv, [Next]_vars
  PROVE  WireInv'
<1>1. ASSUME NEW h \in Conns, Wire(h)', \A g \in Conns \ {h} : Untouched(g)
      PROVE  WireInv'
  BY <1>1, WireUntouched DEF WireInv
<1>2. ASSUME UNCHANGED connVars PROVE WireInv'
  <2>1. \A g \in Conns : Untouched(g)
    BY <1>2 DEF connVars, Untouched
  <2> QED
    BY <2>1, WireUntouched DEF WireInv
<1>3. CASE UNCHANGED vars
  BY <1>2, <1>3 DEF vars, connVars
<1>4. CASE StreamComplete \/ Respond \/ Block \/ \E i \in Invoices : StreamInvoice(i)
  BY <1>2, <1>4 DEF StreamComplete, Respond, Block, StreamInvoice
<1>5. ASSUME NEW h \in Conns,
             Connect(h) \/ Handler(h) \/ ReadTimeout(h) \/ Electrum(h) \/ Close(h)
                \/ WriteRefused(h) \/ Reset(h)
      PROVE  WireInv'
  <2>1. Wire(h)
    BY DEF WireInv
  <2> QED
    BY <1>1, <1>5, <2>1, TakingWire, ReadingWire, PeerWire, NoTimeout DEF Handler
<1> QED
  BY <1>3, <1>4, <1>5 DEF Next

-----------------------------------------------------------------------------
(* One call at a time. *)

\* The step leaves calls and replies alone and brings no request into the hub.
LEMMA ReplyKept ==
  ASSUME ReplyInv, UNCHANGED <<serialNumber, response, readQueue>>, InHub' \subseteq InHub
  PROVE  ReplyInv'
  BY DEF ReplyInv, Waiting, OwnReply

\* The request of a handler that reads is the one of the call that waits.
LEMMA ReplyTaken ==
  ASSUME BooksInv, ReplyInv, NEW h \in Conns, NEW r \in Calls, handler[h] = "read",
         hand[h] = Request(r), PutReply(r), UNCHANGED <<serialNumber, response>>,
         InHub' \subseteq InHub
  PROVE  ReplyInv'
<1>1. Request(r) \in InHub
  BY HubHolds DEF BooksInv, Typing, ReadingHoldsRequest
<1>2. r \in Waiting /\ Waiting' = Waiting
  BY <1>1 DEF ReplyInv, Waiting
<1>3. Range(readQueue') = Range(readQueue) \cup {r}
  <2>1. readQueue \in Seq(Calls) /\ readQueue' = Append(readQueue, r)
    BY DEF BooksInv, Typing, TypeOK, PutReply
  <2> QED
    BY <2>1, PutDistinct
<1> QED
  BY <1>2, <1>3 DEF ReplyInv, OwnReply

LEMMA AskReply ==
  ASSUME MaxOutstanding <= 1, BooksInv, BooksInv', ReplyInv, StreamComplete
  PROVE  ReplyInv'
<1>1. /\ serialNumber \in Calls /\ Cardinality(Waiting) < MaxOutstanding
      /\ UNCHANGED <<response, readQueue>> /\ serialNumber' = serialNumber + 1
      /\ hand' = hand /\ writeQueue' = Append(writeQueue, Request(serialNumber))
  BY DEF StreamComplete, connVars
<1>2. Waiting = {}
  <2>1. Cardinality(Waiting) = 0
    BY <1>1, CountedFinite, RepeaterAssumption
  <2> QED
    BY <2>1, CountedFinite, FS_EmptySet
<1>3. Calls \subseteq Nat
  BY RepeaterAssumption DEF Calls
<1>4. Waiting' = {serialNumber}
  <2>1. response[serialNumber] = NoReply
    BY <1>1, <1>3 DEF BooksInv, TicketInv, UnaskedUnanswered
  <2>2. \A c \in Calls : c < serialNumber + 1 <=> c < serialNumber \/ c = serialNumber
    BY <1>1, <1>3
  <2> QED
    BY <1>1, <1>2, <2>1, <2>2 DEF Waiting
<1>5. InHub' \subseteq InHub \cup {Request(serialNumber)}
  <2>1. writeQueue \in Seq(Items) /\ Request(serialNumber) \in Items
    BY <1>1 DEF BooksInv, Typing, TypeOK, Items, Requests
  <2>2. Range(writeQueue') = Range(writeQueue) \cup {Request(serialNumber)}
    BY <1>1, <2>1, PutDistinct
  <2> QED
    BY <1>1, <2>2 DEF InHub
<1>6. \A c \in Calls : Request(c) \in InHub' => c = serialNumber
  BY <1>2, <1>5, ItemsDiffer DEF ReplyInv
<1> QED
  BY <1>1, <1>2, <1>4, <1>6 DEF ReplyInv, OwnReply

\* The one call that waits is answered: neither a request nor a reply is left.
LEMMA RespondReply ==
  ASSUME BooksInv, BooksInv', ReplyInv, Respond
  PROVE  /\ ReplyInv'
         /\ Head(ready) \in Waiting
         /\ response' = [response EXCEPT ![Head(ready)] = Head(ready)]
<1> DEFINE c == Head(ready)
           r == Head(readQueue)
<1>1. /\ c \in Waiting /\ Waiting' = Waiting \ {c}
  BY RespondTicket DEF BooksInv
<1>2. readQueue \in Seq(Calls) /\ readQueue # <<>>
  BY DEF BooksInv, Typing, TypeOK, Respond
<1>3. r \in Range(readQueue) /\ r \in Calls /\ c \in Calls
  BY <1>1, <1>2, GetDistinct DEF Waiting
<1>4. r = c
  BY <1>1, <1>3 DEF ReplyInv
<1>5. response' = [response EXCEPT ![c] = c]
  BY <1>4 DEF Respond, Parse
<1>6. Waiting' = {}
  BY <1>1 DEF ReplyInv
<1>7. Cardinality(InHub') = 0 /\ Len(readQueue') = 0
  <2>1. IsFiniteSet(Lost') /\ Cardinality(Lost') \in Nat
    BY FS_CardinalityType DEF BooksInv
  <2>2. IsFiniteSet(InHub') /\ Cardinality(InHub') \in Nat
    BY CountedFinite, InHub' = InHub DEF Respond, InHub, connVars
  <2>3. readQueue' \in Seq(Calls) /\ Len(readQueue') \in Nat
    BY DEF BooksInv, Typing, TypeOK
  <2>4. Cardinality(Waiting') = 0
    BY <1>6, FS_EmptySet
  <2> QED
    BY <2>1, <2>2, <2>3, <2>4 DEF BooksInv, Balanced
<1>8. InHub' = {} /\ readQueue' = <<>>
  <2>1. InHub' = InHub
    BY DEF Respond, InHub, connVars
  <2>2. InHub' = {}
    BY <1>7, <2>1, CountedFinite, FS_EmptySet
  <2>3. readQueue' = <<>>
    BY <1>7, EmptySeq DEF BooksInv, Typing, TypeOK
  <2> QED
    BY <2>2, <2>3
<1>9. Range(readQueue') = {}
  BY <1>8 DEF Range
<1>10. OwnReply'
  BY <1>3, <1>5 DEF ReplyInv, OwnReply, BooksInv, Typing, TypeOK
<1> QED
  BY <1>1, <1>5, <1>6, <1>8, <1>9, <1>10 DEF ReplyInv

LEMMA StepReply ==
  ASSUME MaxOutstanding <= 1, MaxTimeouts = 0, BooksInv, WireInv, ReplyInv, [Next]_vars
  PROVE  ReplyInv'
<1>1. BooksInv'
  BY StepBooks
<1>2. CASE UNCHANGED vars
  BY <1>2, ReplyKept DEF vars, InHub
<1>3. CASE StreamComplete
  BY <1>1, <1>3, AskReply
<1>4. CASE Respond
  BY <1>1, <1>4, RespondReply
<1>5. CASE Block
  BY <1>5, ReplyKept DEF Block, InHub, connVars, callVars
<1>6. ASSUME NEW i \in Invoices, StreamInvoice(i) PROVE ReplyInv'
  <2>1. /\ writeQueue' = Append(writeQueue, Update(i)) /\ hand' = hand
        /\ UNCHANGED <<serialNumber, response, readQueue>>
    BY <1>6 DEF StreamInvoice, callVars, connVars
  <2>2. writeQueue \in Seq(Items) /\ Update(i) \in Items
    BY DEF BooksInv, Typing, TypeOK, Items, Updates
  <2>3. InHub' = InHub
    BY <2>1, <2>2, PutDistinct, UpdateIsNoRequest DEF InHub
  <2> QED
    BY <2>1, <2>3, ReplyKept
<1>7. ASSUME NEW h \in Conns, SendRequest(h) \/ SendUpdate(h) \/ DrainError(h) PROVE ReplyInv'
  <2> DEFINE x == Head(writeQueue)
  <2>1. UNCHANGED <<serialNumber, response, readQueue>>
    BY <1>7 DEF SendRequest, SendUpdate, DrainError, callVars
  <2>2. /\ writeQueue \in Seq(Items) /\ writeQueue # <<>> /\ IsInjective(writeQueue)
        /\ hand \in [Conns -> Items \cup {NoItem}]
    BY <1>7 DEF BooksInv, Typing, TypeOK, CopyInv, SingleCopy, SendRequest, SendUpdate,
       DrainError, Taking
  <2>3. /\ x \in Range(writeQueue) /\ Range(Tail(writeQueue)) \subseteq Range(writeQueue)
        /\ Range(Append(Tail(writeQueue), x)) = Range(writeQueue)
    BY <2>2, GetDistinct, RotateDistinct
  <2>4. Range(writeQueue') \subseteq Range(writeQueue)
    BY <1>7, <2>3 DEF SendRequest, SendUpdate, DrainError
  <2>5. Range(hand') \subseteq Range(hand) \cup {x}
    <3>1. hand' = hand \/ hand' = [hand EXCEPT ![h] = x]
      BY <1>7 DEF SendRequest, SendUpdate, DrainError
    <3> QED
      BY <2>2, <3>1 DEF Range
  <2>6. InHub' \subseteq InHub
    BY <2>3, <2>4, <2>5 DEF InHub
  <2> QED
    BY <2>1, <2>6, ReplyKept
<1>8. ASSUME NEW h \in Conns, NEW n \in 1 .. Len(inbound[h]), ReadReply(h, n) PROVE ReplyInv'
  <2>1. PICK r \in Calls : Received(h, n) = Whole(r) /\ PutReply(r)
    BY <1>8 DEF ReadReply
  <2>2. /\ Reading(h, n) /\ handler[h] = "read" /\ hand' = [hand EXCEPT ![h] = NoItem]
        /\ handler' = [handler EXCEPT ![h] = "get"]
        /\ UNCHANGED <<serialNumber, response, writeQueue>>
    BY <1>8 DEF ReadReply, Reading, callVars
  <2>3. hand[h] = Request(r)
    BY <2>1, <2>2, OwnPieces DEF BooksInv, WireInv
  <2>4. InHub' \subseteq InHub
    BY <2>2, HandEmptied
  <2> QED
    BY <2>1, <2>2, <2>3, <2>4, ReplyTaken
<1>9. ASSUME NEW h \in Conns, NEW n, ReadMore(h, n) PROVE ReplyInv'
  BY <1>9, ReplyKept DEF ReadMore, InHub, callVars
<1>10. ASSUME NEW h \in Conns, AtEof(h) \/ ReadTimeout(h) PROVE ReplyInv'
  <2>1. /\ handler[h] = "read" /\ hand' = [hand EXCEPT ![h] = NoItem]
        /\ handler' = [handler EXCEPT ![h] = "get"]
        /\ writeQueue' = Append(writeQueue, hand[h])
        /\ UNCHANGED <<serialNumber, response, readQueue>>
    BY <1>10 DEF AtEof, ReadTimeout, PutBack, callVars
  <2>2. InHub' = InHub
    BY <2>1, HandEmptied
  <2> QED
    BY <2>1, <2>2, ReplyKept
<1>11. ASSUME NEW h \in Conns, ReadError(h) PROVE ReplyInv'
  <2>1. /\ handler[h] = "read" /\ hand' = [hand EXCEPT ![h] = NoItem]
        /\ handler' = [handler EXCEPT ![h] = "crashed"]
        /\ UNCHANGED <<serialNumber, response, readQueue, writeQueue>>
    BY <1>11 DEF ReadError, callVars
  <2>2. InHub' \subseteq InHub
    BY <2>1, HandEmptied
  <2> QED
    BY <2>1, <2>2, ReplyKept
<1>12. ASSUME NEW h \in Conns,
              Connect(h) \/ Electrum(h) \/ Close(h) \/ WriteRefused(h) \/ Reset(h)
       PROVE  ReplyInv'
  BY <1>12, ReplyKept DEF Connect, Electrum, Close, WriteRefused, Reset, InHub, callVars
<1> QED
  BY <1>2, <1>3, <1>4, <1>5, <1>6, <1>7, <1>8, <1>9, <1>10, <1>11, <1>12 DEF Next, Handler, Read

SequentialInv == BooksInv /\ WireInv /\ ReplyInv

LEMMA InitSequential == Init => SequentialInv
<1> SUFFICES ASSUME Init PROVE SequentialInv
  OBVIOUS
<1>1. WireInv
  BY EmptySeq DEF Init, WireInv, Wire, NoAsks
<1>2. ReplyInv
  <2>1. Waiting = {} /\ OwnReply
    BY DEF Init, Waiting, Calls, OwnReply
  <2>2. InHub = {} /\ Range(readQueue) = {}
    BY NoItemIsNoRequest DEF Init, InHub, Range
  <2> QED
    BY <2>1, <2>2 DEF ReplyInv
<1> QED
  BY <1>1, <1>2, InitBooks DEF SequentialInv

LEMMA SequentialHolds ==
  ASSUME MaxOutstanding <= 1, MaxTimeouts = 0
  PROVE  Spec => []SequentialInv
<1>1. SequentialInv /\ [Next]_vars => SequentialInv'
  BY StepBooks, StepWire, StepReply DEF SequentialInv, BooksInv
<1> QED
  BY <1>1, InitSequential, PTL DEF Spec

\* If lnd makes one call at a time, and no read timer expires while a request or
\* its reply is under way, every call is answered with its own reply: over any
\* number of connections, closed, refused or reset at any moment, replies in any
\* pieces, and requests put back and sent again.
THEOREM RepliesMatchCalls ==
  ASSUME MaxOutstanding <= 1, MaxTimeouts = 0
  PROVE  Spec => []OwnReply
<1>1. SequentialInv => OwnReply
  BY DEF SequentialInv, ReplyInv
<1>2. Spec => []SequentialInv
  BY SequentialHolds
<1> QED
  BY <1>1, <1>2, PTL

\* Under the same conditions the bridge implements the safety part of ReverseRpc:
\* each step asks a new call, answers one that waits with its own reply, or does
\* neither.
THEOREM BridgeIsRpc ==
  ASSUME MaxOutstanding <= 1, MaxTimeouts = 0
  PROVE  Spec => Rpc!Safety
<1>1. Init => Rpc!Init
  BY DEF Init, Rpc!Init
<1>2. SequentialInv /\ [Next]_vars => [Rpc!Next]_(Rpc!vars)
  <2> SUFFICES ASSUME SequentialInv, [Next]_vars PROVE [Rpc!Next]_(Rpc!vars)
    OBVIOUS
  <2>1. BooksInv /\ ReplyInv /\ BooksInv'
    BY StepBooks DEF SequentialInv
  <2>2. serialNumber \in Nat \ {0} /\ Calls \subseteq Nat
    BY <2>1, RepeaterAssumption DEF BooksInv, Typing, TypeOK, Calls
  <2>3. CASE StreamComplete
    <3>1. serialNumber \in Calls /\ serialNumber' = serialNumber + 1 /\ response' = response
      BY <2>3 DEF StreamComplete
    <3>2. serialNumber \notin 1 .. serialNumber - 1
      BY <2>2
    <3>3. 1 .. serialNumber' - 1 = (1 .. serialNumber - 1) \cup {serialNumber}
      BY <2>2, <3>1
    <3>4. Rpc!Ask(serialNumber)
      BY <3>1, <3>2, <3>3 DEF Rpc!Ask
    <3> QED
      BY <3>1, <3>4 DEF Rpc!Next
  <2>4. CASE Respond
    <3>1. /\ Head(ready) \in Waiting /\ response' = [response EXCEPT ![Head(ready)] = Head(ready)]
          /\ serialNumber' = serialNumber
      BY <2>1, <2>4, RespondReply DEF Respond
    <3>2. /\ Head(ready) \in Calls /\ response[Head(ready)] = NoReply
          /\ Head(ready) \in 1 .. serialNumber - 1
      BY <2>2, <3>1 DEF Waiting, Calls
    <3>3. Rpc!Answer(Head(ready))
      BY <3>1, <3>2 DEF Rpc!Answer
    <3> QED
      BY <3>2, <3>3 DEF Rpc!Next
  <2>5. CASE UNCHANGED <<serialNumber, response>>
    BY <2>5 DEF Rpc!vars
  <2>6. CASE Next /\ ~StreamComplete /\ ~Respond
    <3>1. UNCHANGED <<serialNumber, response>>
      BY <2>6 DEF Next, Handler, Read, Block, StreamInvoice, Connect, SendRequest, SendUpdate,
         DrainError, ReadReply, ReadMore, AtEof, ReadTimeout, PutBack, ReadError, Electrum,
         Close, WriteRefused, Reset, callVars
    <3> QED
      BY <2>5, <3>1
  <2> QED
    BY <2>3, <2>4, <2>5, <2>6 DEF vars
<1>3. Spec => []SequentialInv
  BY SequentialHolds
<1> QED
  BY <1>1, <1>2, <1>3, PTL DEF Spec, Rpc!Safety
=============================================================================
