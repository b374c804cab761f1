---------------------- MODULE SignerMessages_proofs ----------------------
(***************************************************************************)
(* A call of the remote signer has at most one message, wherever messages  *)
(* go on rx: proof of OneMessagePerCall.  With a sole caller, the proxy    *)
(* implements ReverseRpc: proof of RefinesReverseRpc.                      *)
(*                                                                         *)
(* The places of the messages of a call are five sets: positions in sendq, *)
(* goroutines, calls that returned it, and positions on the connections in *)
(* the two directions.  Together they have at most one element, which an   *)
(* action moves from one set to another.                                   *)
(***************************************************************************)
EXTENDS LightningProxy_proofs, FiniteSetTheorems

-----------------------------------------------------------------------------
(* Five sets with at most one element, and what an action does to them. *)

Lone(R, H, S, T, F) ==
  /\ \A x, y \in R : x = y
  /\ \A x, y \in H : x = y
  /\ \A x, y \in S : x = y
  /\ \A x, y \in T : x = y
  /\ \A x, y \in F : x = y
  /\ \A x \in R : H = {} /\ S = {} /\ T = {} /\ F = {}
  /\ \A x \in H : S = {} /\ T = {} /\ F = {}
  /\ \A x \in S : T = {} /\ F = {}
  /\ \A x \in T : F = {}

Empty(R, H, S, T, F) == R = {} /\ H = {} /\ S = {} /\ T = {} /\ F = {}

\* The first of sendq goes to goroutine g.
FromRx(g, R, R2, H, H2) ==
  /\ \A i \in R2 : i \in Nat /\ i > 0 /\ i + 1 \in R
  /\ \A x \in H2 : x \in H \/ (x = g /\ 1 \in R)

\* The message of goroutine g goes to place m.
FromHand(g, m, H, H2, S, S2) ==
  /\ H2 \subseteq H \ {g}
  /\ \A x \in S2 : x \in S \/ (x = m /\ g \in H)

\* The first frame of queue k goes away.
Shifted(k, new, old) ==
  \A p \in new : \/ p[1] # k /\ p \in old
                 \/ \E i \in Nat : p = <<k, i>> /\ i > 0 /\ <<k, i + 1>> \in old

\* The first frame of queue k goes to place p, or nowhere.
FromQueue(k, p, F, F2, R, R2) ==
  /\ Shifted(k, F2, F)
  /\ \A x \in R2 : x \in R \/ (x = p /\ <<k, 1>> \in F)

LEMMA MoveFromRx ==
  ASSUME NEW R, NEW H, NEW S, NEW T, NEW F, Lone(R, H, S, T, F),
         NEW R2, NEW H2, NEW g, FromRx(g, R, R2, H, H2)
  PROVE  /\ Lone(R2, H2, S, T, F)
         /\ Empty(R, H, S, T, F) => Empty(R2, H2, S, T, F)
  BY DEF Lone, Empty, FromRx

\* A call returns, or writePump writes.
LEMMA MoveFromHand ==
  ASSUME NEW R, NEW H, NEW S, NEW T, NEW F, Lone(R, H, S, T, F),
         NEW H2, NEW S2, NEW T2, NEW g, NEW m,
         \/ FromHand(g, m, H, H2, S, S2) /\ T2 = T
         \/ FromHand(g, m, H, H2, T, T2) /\ S2 = S
  PROVE  /\ Lone(R, H2, S2, T2, F)
         /\ Empty(R, H, S, T, F) => Empty(R, H2, S2, T2, F)
<1>1. CASE FromHand(g, m, H, H2, S, S2) /\ T2 = T
  BY <1>1 DEF FromHand, Lone, Empty
<1>2. CASE FromHand(g, m, H, H2, T, T2) /\ S2 = S
  BY <1>2 DEF FromHand, Lone, Empty
<1> QED
  BY <1>1, <1>2

LEMMA ShiftedLone ==
  ASSUME NEW A, NEW B, NEW k, Shifted(k, B, A), \A x, y \in A : x = y
  PROVE  /\ \A x, y \in B : x = y
         /\ \A x \in B : \E y \in A : y # <<k, 1>>
<1>1. \A x \in B : \E y \in A : /\ y # <<k, 1>>
                               /\ \/ x[1] # k /\ y = x
                                  \/ x[1] = k /\ \E i \in Nat : x = <<k, i>> /\ y = <<k, i + 1>>
  <2> SUFFICES ASSUME NEW x \in B
               PROVE  \E y \in A :
                         /\ y # <<k, 1>>
                         /\ \/ x[1] # k /\ y = x
                            \/ x[1] = k /\ \E i \in Nat : x = <<k, i>> /\ y = <<k, i + 1>>
    OBVIOUS
  <2>1. CASE x[1] # k /\ x \in A
    <3>1. x # <<k, 1>>
      BY <2>1
    <3> QED
      BY <2>1, <3>1
  <2>2. CASE \E i \in Nat : x = <<k, i>> /\ i > 0 /\ <<k, i + 1>> \in A
    <3>1. PICK i \in Nat : x = <<k, i>> /\ i > 0 /\ <<k, i + 1>> \in A
      BY <2>2
    <3>2. x[1] = k /\ <<k, i + 1>> # <<k, 1>>
      BY <3>1
    <3> QED
      BY <3>1, <3>2
  <2> QED
    BY <2>1, <2>2 DEF Shifted
<1>2. ASSUME NEW x \in B, NEW y \in B PROVE x = y
  <2>1. PICK a \in A : \/ x[1] # k /\ a = x
                       \/ x[1] = k /\ \E i \in Nat : x = <<k, i>> /\ a = <<k, i + 1>>
    BY <1>1
  <2>2. PICK b \in A : \/ y[1] # k /\ b = y
                       \/ y[1] = k /\ \E i \in Nat : y = <<k, i>> /\ b = <<k, i + 1>>
    BY <1>1
  <2>3. a = b
    OBVIOUS
  <2> QED
    BY <2>1, <2>2, <2>3
<1> QED
  BY <1>1, <1>2

\* The signer reads a frame, and may answer it.
LEMMA MoveToLnd ==
  ASSUME NEW R, NEW H, NEW S, NEW T, NEW F, Lone(R, H, S, T, F),
         NEW T2, NEW F2, NEW k, NEW p, FromQueue(k, p, T, T2, F, F2)
  PROVE  /\ Lone(R, H, S, T2, F2)
         /\ Empty(R, H, S, T, F) => Empty(R, H, S, T2, F2)
<1>1. /\ \A x, y \in T2 : x = y
      /\ \A x \in T2 : \E y \in T : y # <<k, 1>>
  BY ShiftedLone DEF FromQueue, Lone
<1> QED
  BY <1>1 DEF FromQueue, Lone, Empty

\* readPump sends a frame on rx.
LEMMA MoveToRx ==
  ASSUME NEW R, NEW H, NEW S, NEW T, NEW F, Lone(R, H, S, T, F),
         NEW R2, NEW H2, NEW F2, NEW k, NEW p,
         \/ FromQueue(k, p, F, F2, R, R2) /\ H2 = H
         \/ FromQueue(k, p, F, F2, H, H2) /\ R2 = R
  PROVE  /\ Lone(R2, H2, S, T, F2)
         /\ Empty(R, H, S, T, F) => Empty(R2, H2, S, T, F2)
<1>1. /\ \A x, y \in F2 : x = y
      /\ \A x \in F2 : \E y \in F : y # <<k, 1>>
  BY ShiftedLone DEF FromQueue, Lone
<1>2. CASE FromQueue(k, p, F, F2, R, R2) /\ H2 = H
  BY <1>1, <1>2 DEF FromQueue, Lone, Empty
<1>3. CASE FromQueue(k, p, F, F2, H, H2) /\ R2 = R
  BY <1>1, <1>3 DEF FromQueue, Lone, Empty
<1> QED
  BY <1>2, <1>3

LEMMA LoneCardinality ==
  ASSUME NEW R, NEW H, NEW S, NEW T, NEW F, Lone(R, H, S, T, F),
         NEW W, \A x, y \in W : x = y, W # {} => T # {} \/ F # {}
  PROVE  Cardinality(R) + Cardinality(H) + Cardinality(W) + Cardinality(S) <= 1
<1>1. ASSUME NEW A, \A x, y \in A : x = y
      PROVE  Cardinality(A) \in {0, 1} /\ (A = {} => Cardinality(A) = 0)
  <2>1. CASE A = {}
    BY <2>1, FS_EmptySet
  <2>2. CASE A # {}
    <3>1. PICK a : a \in A
      BY <2>2
    <3>2. A = {a}
      BY <1>1, <3>1
    <3> QED
      BY <2>2, <3>2, FS_Singleton
  <2> QED
    BY <2>1, <2>2
<1>2. /\ Cardinality(R) \in {0, 1} /\ (R = {} => Cardinality(R) = 0)
      /\ Cardinality(H) \in {0, 1} /\ (H = {} => Cardinality(H) = 0)
      /\ Cardinality(S) \in {0, 1} /\ (S = {} => Cardinality(S) = 0)
      /\ Cardinality(W) \in {0, 1} /\ (W = {} => Cardinality(W) = 0)
  BY <1>1 DEF Lone
<1>3. /\ R # {} => H = {} /\ S = {} /\ W = {}
      /\ H # {} => S = {} /\ W = {}
      /\ S # {} => W = {}
  BY DEF Lone
<1> QED
  BY <1>2, <1>3

-----------------------------------------------------------------------------
(* The messages of a call in the state. *)

\* Positions of the frames of call n in the queues q of the connections.
Positions(q, n) ==
  {p \in Conns \X Nat : p[2] \in 1 .. Len(q[p[1]]) /\ q[p[1]][p[2]].call = n}

LoneCall(n) ==
  Lone(OnRx(n), Held(n), ReturnedBy(n), Positions(toSigner, n), Positions(toLnd, n))

NoMessage(n) ==
  Empty(OnRx(n), Held(n), ReturnedBy(n), Positions(toSigner, n), Positions(toLnd, n))

\* A call has one message at most, and none before it is made.
CallInv(n) == LoneCall(n) /\ (n >= nextCall => NoMessage(n))

MsgInv == \A n \in Calls : CallInv(n)

LEMMA TailPositions ==
  ASSUME NEW q \in [Conns -> Seq(Frames)], NEW k \in Conns, q[k] # <<>>, NEW n,
         NEW r, r = [q EXCEPT ![k] = Tail(@)]
  PROVE  /\ Shifted(k, Positions(r, n), Positions(q, n))
         /\ Head(q[k]).call = n => <<k, 1>> \in Positions(q, n)
<1>1. /\ Head(q[k]) = q[k][1] /\ 1 \in 1 .. Len(q[k])
      /\ Tail(q[k]) \in Seq(Frames)
      /\ \A i \in 1 .. Len(Tail(q[k])) :
            i + 1 \in 1 .. Len(q[k]) /\ Tail(q[k])[i] = q[k][i + 1]
  BY TailElements
<1>2. ASSUME NEW p \in Positions(r, n)
      PROVE  \/ p[1] # k /\ p \in Positions(q, n)
             \/ \E i \in Nat : p = <<k, i>> /\ i > 0 /\ <<k, i + 1>> \in Positions(q, n)
  <2>1. /\ p \in Conns \X Nat /\ p = <<p[1], p[2]>> /\ p[1] \in Conns /\ p[2] \in Nat
        /\ p[2] \in 1 .. Len(r[p[1]]) /\ r[p[1]][p[2]].call = n
    BY <1>2 DEF Positions
  <2>2. CASE p[1] # k
    <3>1. r[p[1]] = q[p[1]]
      BY <2>1, <2>2
    <3> QED
      BY <2>1, <2>2, <3>1 DEF Positions
  <2>3. CASE p[1] = k
    <3>1. r[k] = Tail(q[k])
      OBVIOUS
    <3>2. p[2] + 1 \in 1 .. Len(q[k]) /\ q[k][p[2] + 1].call = n /\ p[2] > 0
      BY <1>1, <2>1, <2>3, <3>1
    <3>3. <<k, p[2] + 1>> \in Positions(q, n)
      BY <2>1, <3>2 DEF Positions
    <3> QED
      BY <2>1, <2>3, <3>2, <3>3
  <2> QED
    BY <2>2, <2>3
<1>3. Head(q[k]).call = n => <<k, 1>> \in Positions(q, n)
  BY <1>1 DEF Positions
<1> QED
  BY <1>2, <1>3 DEF Shifted

\* Frame f is appended to queue k.
Appended(k, f, q, r) == r = [q EXCEPT ![k] = Append(@, f)]

LEMMA AppendPositions ==
  ASSUME NEW q \in [Conns -> Seq(Frames)], NEW k \in Conns, NEW f \in Frames, NEW n,
         NEW r, Appended(k, f, q, r)
  PROVE  \A p \in Positions(r, n) :
            p \in Positions(q, n) \/ (p = <<k, Len(q[k]) + 1>> /\ f.call = n)
<1> SUFFICES ASSUME NEW p \in Positions(r, n)
             PROVE  p \in Positions(q, n) \/ (p = <<k, Len(q[k]) + 1>> /\ f.call = n)
  OBVIOUS
<1>1. /\ p \in Conns \X Nat /\ p = <<p[1], p[2]>> /\ p[1] \in Conns /\ p[2] \in Nat
      /\ p[2] \in 1 .. Len(r[p[1]]) /\ r[p[1]][p[2]].call = n
  BY DEF Positions
<1>2. CASE p[1] # k
  <2>1. r[p[1]] = q[p[1]]
    BY <1>1, <1>2 DEF Appended
  <2> QED
    BY <1>1, <1>2, <2>1 DEF Positions
<1>3. CASE p[1] = k
  <2>1. r[k] = Append(q[k], f) /\ q[k] \in Seq(Frames)
    BY DEF Appended
  <2>2. CASE p[2] = Len(q[k]) + 1
    BY <1>1, <1>3, <2>1, <2>2
  <2>3. CASE p[2] # Len(q[k]) + 1
    <3>1. p[2] \in 1 .. Len(q[k]) /\ r[k][p[2]] = q[k][p[2]]
      BY <1>1, <1>3, <2>1, <2>3
    <3> QED
      BY <1>1, <1>3, <3>1 DEF Positions
  <2> QED
    BY <2>2, <2>3
<1> QED
  BY <1>2, <1>3

\* A send puts one message on rx, or into the hands of a receiver.
LEMMA SendPlaces ==
  ASSUME NEW g \in Goroutines, NEW m \in Frames, ChanType, Send(g, m), NEW n
  PROVE  \E p : \/ /\ Held(n)' = Held(n)
                   /\ \A x \in OnRx(n)' : x \in OnRx(n) \/ (x = p /\ m.call = n)
                \/ /\ OnRx(n)' = OnRx(n)
                   /\ \A x \in Held(n)' : x \in Held(n) \/ (x = p /\ m.call = n)
<1>1. CASE recvq = <<>>
  <2> DEFINE E == [from : Goroutines, msg : Frames]
             e == [from |-> g, msg |-> m]
  <2>1. sendq' = Append(sendq, e) /\ got' = got /\ e.msg = m
    BY <1>1 DEF Send
  <2>2. sendq \in Seq(E) /\ e \in E
    BY DEF ChanType
  <2> HIDE DEF E, e
  <2>3. \A i \in 1 .. Len(sendq') :
           (i \in 1 .. Len(sendq) /\ sendq'[i] = sendq[i]) \/ (i = Len(sendq) + 1 /\ sendq'[i] = e)
    BY <2>1, <2>2
  <2>4. PICK p : p = Len(sendq) + 1
    OBVIOUS
  <2>5. \A x \in OnRx(n)' : x \in OnRx(n) \/ (x = p /\ m.call = n)
    BY <2>1, <2>3, <2>4 DEF OnRx
  <2>6. Held(n)' = Held(n)
    BY <2>1 DEF Held
  <2> QED
    BY <2>5, <2>6
<1>2. CASE recvq # <<>>
  <2>1. Head(recvq) \in Goroutines
    BY <1>2, TailElements DEF ChanType
  <2>2. got' = [got EXCEPT ![Head(recvq)] = m] /\ sendq' = sendq
    BY <1>2 DEF Send
  <2>3. OnRx(n)' = OnRx(n)
    BY <2>2 DEF OnRx
  <2>4. PICK p : p = Head(recvq)
    OBVIOUS
  <2>5. \A x \in Held(n)' : x \in Held(n) \/ (x = p /\ m.call = n)
    BY <2>1, <2>2, <2>4 DEF Held, ChanType
  <2> QED
    BY <2>3, <2>5
<1> QED
  BY <1>1, <1>2

\* A receive takes the oldest message, or waits.
LEMMA ReceivePlaces ==
  ASSUME NEW g \in Goroutines, ChanType, Receive(g), NEW n
  PROVE  FromRx(g, OnRx(n), OnRx(n)', Held(n), Held(n)')
<1>1. CASE sendq = <<>>
  <2>1. sendq' = <<>> /\ got' = got
    BY <1>1 DEF Receive
  <2>2. OnRx(n)' = {} /\ Held(n)' = Held(n)
    BY <2>1 DEF OnRx, Held
  <2> QED
    BY <2>2 DEF FromRx
<1>2. CASE sendq # <<>>
  <2> DEFINE E == [from : Goroutines, msg : Frames]
             h == Head(sendq)
  <2>1. sendq' = Tail(sendq) /\ got' = [got EXCEPT ![g] = h.msg]
    BY <1>2 DEF Receive
  <2>2. /\ h = sendq[1] /\ 1 \in 1 .. Len(sendq)
        /\ \A i \in 1 .. Len(Tail(sendq)) :
              i + 1 \in 1 .. Len(sendq) /\ Tail(sendq)[i] = sendq[i + 1]
    <3> HIDE DEF E
    <3>1. sendq \in Seq(E)
      BY DEF ChanType, E
    <3> QED
      BY <1>2, <3>1, TailElements
  <2> HIDE DEF h, E
  <2>3. \A i \in OnRx(n)' : i \in Nat /\ i > 0 /\ i + 1 \in OnRx(n)
    BY <2>1, <2>2 DEF OnRx
  <2>4. \A x \in Held(n)' : x \in Held(n) \/ (x = g /\ 1 \in OnRx(n))
    BY <2>1, <2>2 DEF Held, OnRx, ChanType
  <2> QED
    BY <2>3, <2>4 DEF FromRx
<1> QED
  BY <1>1, <1>2

-----------------------------------------------------------------------------
(* The steps. *)

\* What the messages of a call depend on.
places == <<sendq, got, nextCall, returned, toSigner, toLnd>>

LEMMA SamePlaces ==
  ASSUME MsgInv, UNCHANGED places
  PROVE  MsgInv'
  BY DEF places, MsgInv, CallInv, LoneCall, NoMessage, OnRx, Held, ReturnedBy, Positions,
         Lone, Empty

\* What is to be shown of a step that makes no call.
LEMMA KeepCall ==
  ASSUME NEW n \in Calls, CallInv(n), nextCall' = nextCall,
         /\ LoneCall(n)'
         /\ NoMessage(n) => NoMessage(n)'
  PROVE  CallInv(n)'
  BY DEF CallInv

LEMMA ReceiveMessages ==
  ASSUME Inv, MsgInv, NEW g \in Goroutines, Receive(g),
         UNCHANGED <<nextCall, returned, toSigner, toLnd>>
  PROVE  MsgInv'
<1> SUFFICES ASSUME NEW n \in Calls PROVE CallInv(n)'
  BY DEF MsgInv
<1> DEFINE S == ReturnedBy(n)
           T == Positions(toSigner, n)
           F == Positions(toLnd, n)
<1>1. ChanType /\ CallInv(n)
  BY DEF Inv, TypeOK, ChanType, MsgInv
<1>2. FromRx(g, OnRx(n), OnRx(n)', Held(n), Held(n)')
  BY <1>1, ReceivePlaces
<1>3. ReturnedBy(n)' = S /\ Positions(toSigner, n)' = T /\ Positions(toLnd, n)' = F
  BY DEF ReturnedBy, Positions
<1>4. Lone(OnRx(n), Held(n), S, T, F)
  BY <1>1 DEF CallInv, LoneCall
<1> HIDE DEF S, T, F
<1>5. /\ Lone(OnRx(n)', Held(n)', S, T, F)
      /\ Empty(OnRx(n), Held(n), S, T, F) => Empty(OnRx(n)', Held(n)', S, T, F)
  BY <1>2, <1>4, MoveFromRx
<1>6. LoneCall(n)' /\ (NoMessage(n) => NoMessage(n)')
  BY <1>3, <1>5 DEF LoneCall, NoMessage, Lone, Empty, S, T, F
<1> QED
  BY <1>1, <1>6, KeepCall

LEMMA CallMessages ==
  ASSUME Inv, MsgInv, NEW c \in Callers, Call(c)
  PROVE  MsgInv'
<1>1. /\ Send(Caller(c), Request(nextCall)) /\ nextCall \in Calls /\ nextCall' = nextCall + 1
      /\ UNCHANGED <<returned, toSigner, toLnd>>
  BY DEF Call, netVars
<1>2. /\ ChanType /\ Caller(c) \in Goroutines
      /\ Request(nextCall) \in Frames /\ Request(nextCall).call = nextCall
  BY <1>1, GoroutineTypes, FrameTypes DEF Inv, TypeOK, ChanType, Request
<1> SUFFICES ASSUME NEW n \in Calls PROVE CallInv(n)'
  BY DEF MsgInv
<1> DEFINE S == ReturnedBy(n)
           T == Positions(toSigner, n)
           F == Positions(toLnd, n)
<1>3. ReturnedBy(n)' = S /\ Positions(toSigner, n)' = T /\ Positions(toLnd, n)' = F
  BY <1>1 DEF ReturnedBy, Positions
<1>4. /\ Lone(OnRx(n), Held(n), S, T, F)
      /\ n >= nextCall => Empty(OnRx(n), Held(n), S, T, F)
  BY DEF MsgInv, CallInv, LoneCall, NoMessage
<1>5. PICK p :
         \/ /\ Held(n)' = Held(n)
            /\ \A x \in OnRx(n)' : x \in OnRx(n) \/ (x = p /\ nextCall = n)
         \/ /\ OnRx(n)' = OnRx(n)
            /\ \A x \in Held(n)' : x \in Held(n) \/ (x = p /\ nextCall = n)
  BY <1>1, <1>2, SendPlaces
<1>6. nextCall \in Nat /\ n \in Nat
  BY <1>1, ProxyAssumption DEF Calls
<1> HIDE DEF S, T, F
<1>7. CASE n = nextCall
  <2>1. Empty(OnRx(n), Held(n), S, T, F)
    BY <1>4, <1>6, <1>7
  <2>2. Lone(OnRx(n)', Held(n)', S, T, F)
    BY <1>5, <2>1 DEF Lone, Empty
  <2>3. LoneCall(n)'
    BY <1>3, <2>2 DEF LoneCall, Lone
  <2> QED
    BY <1>1, <1>6, <1>7, <2>3 DEF CallInv
<1>8. CASE n # nextCall
  <2>1. OnRx(n)' \subseteq OnRx(n) /\ Held(n)' \subseteq Held(n)
    BY <1>5, <1>8
  <2>2. /\ Lone(OnRx(n)', Held(n)', S, T, F)
        /\ Empty(OnRx(n), Held(n), S, T, F) => Empty(OnRx(n)', Held(n)', S, T, F)
    BY <1>4, <2>1 DEF Lone, Empty
  <2>3. LoneCall(n)' /\ (n >= nextCall => NoMessage(n)')
    BY <1>3, <1>4, <2>2 DEF LoneCall, NoMessage, Lone, Empty
  <2> QED
    BY <1>1, <1>6, <2>3 DEF CallInv
<1> QED
  BY <1>7, <1>8

LEMMA ReturnMessages ==
  ASSUME Inv, MsgInv, NEW c \in Callers, Return(c)
  PROVE  MsgInv'
<1> DEFINE g == Caller(c)
<1>1. /\ returned' = [returned EXCEPT ![doing[c]] = got[g]]
      /\ got' = [got EXCEPT ![g] = NoMsg]
      /\ UNCHANGED <<sendq, nextCall, toSigner, toLnd>>
  BY DEF Return, netVars
<1>2. g \in Goroutines
  BY GoroutineTypes
<1> HIDE DEF g
<1> SUFFICES ASSUME NEW n \in Calls PROVE CallInv(n)'
  BY DEF MsgInv
<1> DEFINE R == OnRx(n)
           T == Positions(toSigner, n)
           F == Positions(toLnd, n)
<1>3. OnRx(n)' = R /\ Positions(toSigner, n)' = T /\ Positions(toLnd, n)' = F
  BY <1>1 DEF OnRx, Positions
<1>4. Lone(R, Held(n), ReturnedBy(n), T, F)
  BY DEF MsgInv, CallInv, LoneCall
<1> HIDE DEF R, T, F
<1>5. FromHand(g, doing[c], Held(n), Held(n)', ReturnedBy(n), ReturnedBy(n)')
  <2>1. Held(n)' \subseteq Held(n) \ {g}
    BY <1>1, <1>2 DEF Held, Inv, TypeOK
  <2>2. \A x \in ReturnedBy(n)' : x \in ReturnedBy(n) \/ (x = doing[c] /\ g \in Held(n))
    BY <1>1, <1>2 DEF ReturnedBy, Held, Inv, TypeOK
  <2> QED
    BY <2>1, <2>2 DEF FromHand
<1>6. /\ Lone(R, Held(n)', ReturnedBy(n)', T, F)
      /\ Empty(R, Held(n), ReturnedBy(n), T, F) => Empty(R, Held(n)', ReturnedBy(n)', T, F)
  BY <1>4, <1>5, MoveFromHand
<1>7. LoneCall(n)' /\ (NoMessage(n) => NoMessage(n)')
  BY <1>3, <1>6 DEF LoneCall, NoMessage, Lone, Empty, R, T, F
<1> QED
  BY <1>1, <1>7, KeepCall DEF MsgInv

LEMMA WritePumpMessages ==
  ASSUME Inv, MsgInv, NEW k \in Conns, WritePump(k)
  PROVE  MsgInv'
<1> DEFINE g == Writer(k)
           f == got[g]
<1>1. /\ at[g] = "got"
      /\ toSigner' = [toSigner EXCEPT ![k] = Append(@, f)]
      /\ got' = [got EXCEPT ![g] = NoMsg]
      /\ UNCHANGED <<sendq, nextCall, returned, toLnd>>
  BY DEF WritePump, callVars
<1>2. g \in Goroutines
  BY GoroutineTypes
<1>3. f \in Frames /\ toSigner \in [Conns -> Seq(Frames)]
  BY <1>1, <1>2 DEF Inv, GotMessage, TypeOK
<1> HIDE DEF g
<1> SUFFICES ASSUME NEW n \in Calls PROVE CallInv(n)'
  BY DEF MsgInv
<1> DEFINE R == OnRx(n)
           S == ReturnedBy(n)
           T == Positions(toSigner, n)
           T2 == Positions(toSigner', n)
           F == Positions(toLnd, n)
<1>4. /\ OnRx(n)' = R /\ ReturnedBy(n)' = S
      /\ Positions(toSigner, n)' = T2 /\ Positions(toLnd, n)' = F
  BY <1>1 DEF OnRx, ReturnedBy, Positions
<1>5. Lone(R, Held(n), S, T, F)
  BY DEF MsgInv, CallInv, LoneCall
<1> DEFINE p == <<k, Len(toSigner[k]) + 1>>
<1>6. f.call = n => f # NoMsg
  BY <1>3, ProxyAssumption DEF Frames, Messages, Greeting, Calls
<1> HIDE DEF f
<1>7. \A x \in T2 : x \in T \/ (x = p /\ f.call = n)
  <2>1. Appended(k, f, toSigner, toSigner')
    BY <1>1 DEF Appended
  <2> QED
    BY <1>3, <2>1, AppendPositions
<1> HIDE DEF p, R, S, T, T2, F
<1>8. FromHand(g, p, Held(n), Held(n)', T, T2)
  <2>1. Held(n)' \subseteq Held(n) \ {g}
    BY <1>1, <1>2 DEF Held, Inv, TypeOK
  <2>2. \A x \in T2 : x \in T \/ (x = p /\ g \in Held(n))
    BY <1>2, <1>6, <1>7 DEF Held, f
  <2> QED
    BY <2>1, <2>2 DEF FromHand
<1>9. /\ Lone(R, Held(n)', S, T2, F)
      /\ Empty(R, Held(n), S, T, F) => Empty(R, Held(n)', S, T2, F)
  BY <1>5, <1>8, MoveFromHand
<1>10. LoneCall(n)' /\ (NoMessage(n) => NoMessage(n)')
  BY <1>4, <1>9 DEF LoneCall, NoMessage, Lone, Empty, R, S, T, F
<1> QED
  BY <1>1, <1>10, KeepCall DEF MsgInv

LEMMA ReadPumpMessages ==
  ASSUME Inv, MsgInv, NEW k \in Conns, ReadPump(k)
  PROVE  MsgInv'
<1> DEFINE g == Reader(k)
           f == Head(toLnd[k])
<1>1. /\ toLnd[k] # <<>>
      /\ toLnd' = [toLnd EXCEPT ![k] = Tail(@)]
      /\ Send(g, f)
      /\ UNCHANGED <<nextCall, returned, toSigner>>
  BY DEF ReadPump, callVars
<1>2. g \in Goroutines /\ ChanType
  BY GoroutineTypes DEF Inv, TypeOK, ChanType
<1>3. f \in Frames /\ toLnd \in [Conns -> Seq(Frames)]
  BY <1>1, TailElements DEF Inv, TypeOK
<1> HIDE DEF g
<1> SUFFICES ASSUME NEW n \in Calls PROVE CallInv(n)'
  BY DEF MsgInv
<1> DEFINE S == ReturnedBy(n)
           T == Positions(toSigner, n)
           F == Positions(toLnd, n)
           F2 == Positions(toLnd', n)
<1>4. /\ ReturnedBy(n)' = S
      /\ Positions(toSigner, n)' = T /\ Positions(toLnd, n)' = F2
  BY <1>1 DEF ReturnedBy, Positions
<1>5. Lone(OnRx(n), Held(n), S, T, F)
  BY DEF MsgInv, CallInv, LoneCall
<1>6. Shifted(k, F2, F) /\ (f.call = n => <<k, 1>> \in F)
  BY <1>1, <1>3, TailPositions
<1>7. PICK p : \/ /\ Held(n)' = Held(n)
                  /\ \A x \in OnRx(n)' : x \in OnRx(n) \/ (x = p /\ f.call = n)
               \/ /\ OnRx(n)' = OnRx(n)
                  /\ \A x \in Held(n)' : x \in Held(n) \/ (x = p /\ f.call = n)
  BY <1>1, <1>2, <1>3, SendPlaces
<1> HIDE DEF f, S, T, F, F2
<1>8. \/ FromQueue(k, p, F, F2, OnRx(n), OnRx(n)') /\ Held(n)' = Held(n)
      \/ FromQueue(k, p, F, F2, Held(n), Held(n)') /\ OnRx(n)' = OnRx(n)
  BY <1>6, <1>7 DEF FromQueue
<1>9. /\ Lone(OnRx(n)', Held(n)', S, T, F2)
      /\ Empty(OnRx(n), Held(n), S, T, F) => Empty(OnRx(n)', Held(n)', S, T, F2)
  BY <1>5, <1>8, MoveToRx
<1>10. LoneCall(n)' /\ (NoMessage(n) => NoMessage(n)')
  BY <1>4, <1>9 DEF LoneCall, NoMessage, Lone, Empty, S, T, F
<1> QED
  BY <1>1, <1>10, KeepCall DEF MsgInv

\* The greeting belongs to no call.
LEMMA GreetMessages ==
  ASSUME Inv, MsgInv, NEW k \in Conns, Greet(k)
  PROVE  MsgInv'
<1> DEFINE f == Greeting(rootKeyRaw)
<1>1. /\ toSigner' = [toSigner EXCEPT ![k] = Append(@, f)]
      /\ UNCHANGED <<sendq, got, nextCall, returned, toLnd>>
  BY DEF Greet, callVars
<1>2. f \in Frames /\ toSigner \in [Conns -> Seq(Frames)]
  BY FrameTypes DEF Inv, TypeOK
<1>3. f.call = 0
  BY DEF Greeting
<1> HIDE DEF f
<1> SUFFICES ASSUME NEW n \in Calls PROVE CallInv(n)'
  BY DEF MsgInv
<1> DEFINE T == Positions(toSigner, n)
           T2 == Positions(toSigner', n)
<1>4. T2 \subseteq T
  <2>1. Appended(k, f, toSigner, toSigner')
    BY <1>1 DEF Appended
  <2>2. \A x \in T2 : x \in T \/ (x = <<k, Len(toSigner[k]) + 1>> /\ f.call = n)
    BY <1>2, <2>1, AppendPositions
  <2>3. n # 0
    BY DEF Calls
  <2> QED
    BY <1>3, <2>2, <2>3
<1>5. /\ OnRx(n)' = OnRx(n) /\ Held(n)' = Held(n) /\ ReturnedBy(n)' = ReturnedBy(n)
      /\ Positions(toSigner, n)' = T2 /\ Positions(toLnd, n)' = Positions(toLnd, n)
  BY <1>1 DEF OnRx, Held, ReturnedBy, Positions
<1>6. LoneCall(n)' /\ (NoMessage(n) => NoMessage(n)')
  <2> HIDE DEF T2
  <2>1. CallInv(n)
    BY DEF MsgInv
  <2> QED
    BY <1>4, <1>5, <2>1 DEF CallInv, LoneCall, NoMessage, Lone, Empty
<1> QED
  BY <1>1, <1>6, KeepCall DEF MsgInv

\* The signer reads its key, or a frame that it may answer.
LEMMA SignerMessages ==
  ASSUME Inv, MsgInv, NEW k \in Conns, Signer(k)
  PROVE  MsgInv'
<1> DEFINE f == Head(toSigner[k])
<1>1. /\ toSigner[k] # <<>>
      /\ toSigner' = [toSigner EXCEPT ![k] = Tail(@)]
      /\ UNCHANGED <<sendq, got, nextCall, returned>>
      /\ \/ toLnd' = toLnd
         \/ /\ f.kind = "request"
            /\ toLnd' = [toLnd EXCEPT ![k] = Append(@, Answer(f.call))]
  BY DEF Signer, ReadKey, Sign, chanVars, callVars
<1>2. f \in Frames /\ toSigner \in [Conns -> Seq(Frames)] /\ toLnd \in [Conns -> Seq(Frames)]
  BY <1>1, TailElements DEF Inv, TypeOK
<1>3. f.kind = "request" => Answer(f.call) \in Frames /\ Answer(f.call).call = f.call
  BY <1>2, FrameTypes DEF Answer
<1> SUFFICES ASSUME NEW n \in Calls PROVE CallInv(n)'
  BY DEF MsgInv
<1> DEFINE T == Positions(toSigner, n)
           T2 == Positions(toSigner', n)
           F == Positions(toLnd, n)
           F2 == Positions(toLnd', n)
           p == <<k, Len(toLnd[k]) + 1>>
<1>4. Shifted(k, T2, T) /\ (f.call = n => <<k, 1>> \in T)
  BY <1>1, <1>2, TailPositions
<1> HIDE DEF f
<1>5. \A x \in F2 : x \in F \/ (x = p /\ f.call = n)
  <2>1. CASE toLnd' = toLnd
    BY <2>1
  <2>2. CASE f.kind = "request" /\ toLnd' = [toLnd EXCEPT ![k] = Append(@, Answer(f.call))]
    <3> DEFINE a == Answer(f.call)
    <3>1. a \in Frames /\ a.call = f.call
      BY <1>3, <2>2
    <3>2. Appended(k, a, toLnd, toLnd')
      BY <2>2 DEF Appended
    <3> HIDE DEF a
    <3>3. \A x \in F2 : x \in F \/ (x = p /\ a.call = n)
      BY <1>2, <3>1, <3>2, AppendPositions
    <3> QED
      BY <3>1, <3>3
  <2> QED
    BY <1>1, <2>1, <2>2
<1>6. /\ OnRx(n)' = OnRx(n) /\ Held(n)' = Held(n) /\ ReturnedBy(n)' = ReturnedBy(n)
      /\ Positions(toSigner, n)' = T2 /\ Positions(toLnd, n)' = F2
  BY <1>1 DEF OnRx, Held, ReturnedBy, Positions
<1>7. Lone(OnRx(n), Held(n), ReturnedBy(n), T, F)
  BY DEF MsgInv, CallInv, LoneCall
<1> HIDE DEF T, T2, F, F2, p
<1>8. FromQueue(k, p, T, T2, F, F2)
  BY <1>4, <1>5 DEF FromQueue
<1>9. /\ Lone(OnRx(n), Held(n), ReturnedBy(n), T2, F2)
      /\ Empty(OnRx(n), Held(n), ReturnedBy(n), T, F)
            => Empty(OnRx(n), Held(n), ReturnedBy(n), T2, F2)
  BY <1>7, <1>8, MoveToLnd
<1>10. LoneCall(n)' /\ (NoMessage(n) => NoMessage(n)')
  BY <1>6, <1>9 DEF LoneCall, NoMessage, Lone, Empty, T, F
<1> QED
  BY <1>1, <1>10, KeepCall DEF MsgInv

-----------------------------------------------------------------------------
(* The theorem. *)

LEMMA InitMessages == Init => MsgInv
<1> SUFFICES ASSUME Init, NEW n \in Calls PROVE CallInv(n)
  BY DEF MsgInv
<1>1. OnRx(n) = {}
  BY DEF Init, OnRx
<1>2. Held(n) = {} /\ ReturnedBy(n) = {}
  BY DEF Init, Held, ReturnedBy
<1>3. Positions(toSigner, n) = {} /\ Positions(toLnd, n) = {}
  BY DEF Init, Positions
<1> QED
  BY <1>1, <1>2, <1>3 DEF CallInv, LoneCall, NoMessage, Lone, Empty

LEMMA NextMessages == Inv /\ MsgInv /\ [Next]_vars => MsgInv'
<1> SUFFICES ASSUME Inv, MsgInv, [Next]_vars PROVE MsgInv'
  OBVIOUS
<1> USE DEF places, connVars, chanVars, callVars, netVars
<1>1. CASE UNCHANGED vars
  BY <1>1, SamePlaces DEF vars
<1>2. CASE SetWallet
  BY <1>2, SamePlaces DEF SetWallet
<1>3. ASSUME NEW c \in Callers, Call(c) \/ CallerStep(c) PROVE MsgInv'
  <2>1. CASE Await(c)
    BY <2>1, GoroutineTypes, ReceiveMessages DEF Await
  <2>2. CASE Undecodable(c)
    BY <2>2, SamePlaces DEF Undecodable, Fatal
  <2> QED
    BY <1>3, <2>1, <2>2, CallMessages, ReturnMessages DEF CallerStep
<1>4. ASSUME NEW k \in Conns, Pumps(k) PROVE MsgInv'
  <2>1. CASE WriterReceive(k)
    BY <2>1, GoroutineTypes, ReceiveMessages DEF WriterReceive
  <2>2. CASE WriteError(k)
    BY <2>2, SamePlaces DEF WriteError, Fatal
  <2>3. CASE ReadFails(k)
    BY <2>3, SamePlaces DEF ReadFails, Fatal
  <2> QED
    BY <1>4, <2>1, <2>2, <2>3, WritePumpMessages, ReadPumpMessages DEF Pumps
<1>5. ASSUME NEW k \in Conns, Connect(k) \/ Handle(k) PROVE MsgInv'
  <2>1. CASE AlreadyConnected(k)
    BY <2>1, SamePlaces DEF AlreadyConnected, Fatal
  <2>2. CASE CheckConnected(k)
    BY <2>2, SamePlaces DEF CheckConnected
  <2>3. CASE SetConnected(k)
    BY <2>3, SamePlaces DEF SetConnected
  <2> QED
    BY <1>5, <2>1, <2>2, <2>3, GreetMessages DEF Connect, Handle
<1>6. ASSUME NEW k \in Conns, GreetFails(k) \/ SignerCloses(k) PROVE MsgInv'
  BY <1>6, SamePlaces DEF GreetFails, SignerCloses
<1> QED
  BY <1>1, <1>2, <1>3, <1>4, <1>5, <1>6, SignerMessages DEF Next

LEMMA SecondPart ==
  ASSUME NEW S, NEW s \in Seq(S), NEW t \in Seq(S), NEW i \in 1 .. Len(s \o t), i > Len(s)
  PROVE  i - Len(s) \in 1 .. Len(t) /\ (s \o t)[i] = t[i - Len(s)] /\ i - Len(s) \in Nat
  OBVIOUS

\* OnWire counts the two directions of a connection as one queue.
LEMMA WireOf ==
  ASSUME Inv, NEW n, LoneCall(n)
  PROVE  /\ \A x, y \in OnWire(n) : x = y
         /\ OnWire(n) # {} => Positions(toSigner, n) # {} \/ Positions(toLnd, n) # {}
<1> DEFINE T == Positions(toSigner, n)
           F == Positions(toLnd, n)
<1>1. ASSUME NEW x \in OnWire(n)
      PROVE  \E k \in Conns : \E i \in Nat :
                /\ x = <<k, i>>
                /\ <<k, i>> \in T \/ (i > Len(toSigner[k]) /\ <<k, i - Len(toSigner[k])>> \in F)
  <2>1. PICK k \in Conns : x \in {<<k, i>> : i \in {j \in 1 .. Len(toSigner[k] \o toLnd[k]) :
                                         (toSigner[k] \o toLnd[k])[j].call = n}}
    BY <1>1 DEF OnWire
  <2>2. PICK i \in 1 .. Len(toSigner[k] \o toLnd[k]) :
           x = <<k, i>> /\ (toSigner[k] \o toLnd[k])[i].call = n
    BY <2>1
  <2>3. toSigner[k] \in Seq(Frames) /\ toLnd[k] \in Seq(Frames)
    BY DEF Inv, TypeOK
  <2>4. Len(toSigner[k]) \in Nat /\ i \in Nat /\ i > 0
    BY <2>2, <2>3
  <2>5. CASE i <= Len(toSigner[k])
    <3>1. i \in 1 .. Len(toSigner[k]) /\ toSigner[k][i].call = n
      BY <2>2, <2>3, <2>5
    <3> QED
      BY <2>2, <2>4, <3>1 DEF Positions
  <2>6. CASE i > Len(toSigner[k])
    <3> DEFINE j == i - Len(toSigner[k])
    <3>1. /\ j \in 1 .. Len(toLnd[k]) /\ j \in Nat
          /\ (toSigner[k] \o toLnd[k])[i] = toLnd[k][j]
      BY <2>3, <2>6, SecondPart
    <3>2. <<k, j>> \in F
      BY <2>2, <3>1 DEF Positions
    <3> QED
      BY <2>2, <2>4, <2>6, <3>2
  <2>7. i <= Len(toSigner[k]) \/ i > Len(toSigner[k])
    BY <2>4
  <2> QED
    BY <2>5, <2>6, <2>7
<1>2. /\ \A x, y \in T : x = y
      /\ \A x, y \in F : x = y
      /\ \A x \in T : F = {}
  BY DEF LoneCall, Lone
<1> HIDE DEF T, F
<1>3. ASSUME NEW x \in OnWire(n), NEW y \in OnWire(n) PROVE x = y
  <2>1. PICK k \in Conns, i \in Nat :
           /\ x = <<k, i>>
           /\ <<k, i>> \in T \/ (i > Len(toSigner[k]) /\ <<k, i - Len(toSigner[k])>> \in F)
    BY <1>1
  <2>2. PICK l \in Conns, j \in Nat :
           /\ y = <<l, j>>
           /\ <<l, j>> \in T \/ (j > Len(toSigner[l]) /\ <<l, j - Len(toSigner[l])>> \in F)
    BY <1>1
  <2>3. Len(toSigner[k]) \in Nat /\ Len(toSigner[l]) \in Nat
    <3>1. toSigner[k] \in Seq(Frames) /\ toSigner[l] \in Seq(Frames)
      BY DEF Inv, TypeOK
    <3> QED
      BY <3>1
  <2>4. CASE <<k, i>> \in T
    BY <1>2, <2>1, <2>2, <2>4
  <2>5. CASE <<k, i>> \notin T
    <3>1. <<k, i - Len(toSigner[k])>> = <<l, j - Len(toSigner[l])>>
      BY <1>2, <2>1, <2>2, <2>5
    <3>2. k = l /\ i - Len(toSigner[k]) = j - Len(toSigner[l])
      BY <3>1
    <3>3. i = j
      BY <2>3, <3>2
    <3> QED
      BY <2>1, <2>2, <3>2, <3>3
  <2> QED
    BY <2>4, <2>5
<1>4. OnWire(n) # {} => T # {} \/ F # {}
  BY <1>1
<1> QED
  BY <1>3, <1>4 DEF T, F

\* Whoever shares rx, with any number of callers, calls and connections, a call
\* never has two messages: a request is written to one signer once and an answer
\* is returned by one call.
THEOREM NoMessageMultiplied == Spec => []OneMessagePerCall
<1>1. Inv /\ MsgInv => OneMessagePerCall
  <2> SUFFICES ASSUME Inv, MsgInv, NEW n \in Calls
               PROVE  Cardinality(OnRx(n)) + Cardinality(Held(n))
                        + Cardinality(OnWire(n)) + Cardinality(ReturnedBy(n)) <= 1
    BY DEF OneMessagePerCall
  <2>1. LoneCall(n)
    BY DEF MsgInv, CallInv
  <2>2. /\ \A x, y \in OnWire(n) : x = y
        /\ OnWire(n) # {} => Positions(toSigner, n) # {} \/ Positions(toLnd, n) # {}
    BY <2>1, WireOf
  <2> QED
    BY <2>1, <2>2, LoneCardinality DEF LoneCall
<1> QED
  BY <1>1, InitMessages, NextMessages, Invariance, PTL DEF Spec

-----------------------------------------------------------------------------
(* A sole caller. *)

Sole == \A c, d \in Callers : c = d

\* Nothing but answers comes from the signer, and so from readPump on rx.
SignerAnswers ==
  \A k \in Conns : \A i \in 1 .. Len(toLnd[k]) : toLnd[k][i].kind = "answer"

AnswersOnRx ==
  \A i \in 1 .. Len(sendq) : sendq[i].from.role = "caller" \/ sendq[i].msg.kind = "answer"

\* A caller is in a queue of rx once, while it waits there.
InQueues(c) ==
  /\ \A i \in 1 .. Len(sendq) : sendq[i].from = Caller(c) => at[Caller(c)] = "sending"
  /\ \A i, j \in 1 .. Len(sendq) :
        sendq[i].from = Caller(c) /\ sendq[j].from = Caller(c) => i = j
  /\ \A i \in 1 .. Len(recvq) : recvq[i] = Caller(c) => at[Caller(c)] = "receiving"
  /\ \A i, j \in 1 .. Len(recvq) : recvq[i] = Caller(c) /\ recvq[j] = Caller(c) => i = j

TakesAnswer(c) == at[Caller(c)] = "got" => got[Caller(c)].kind = "answer"

CallerWaits == \A c \in Callers : InQueues(c) /\ TakesAnswer(c)

\* All calls but the one under way have returned their own answers.
CallsDone ==
  \A c \in Callers :
     /\ at[Caller(c)] # "idle" =>
           nextCall > 1 /\ doing[c] = nextCall - 1 /\ returned[nextCall - 1] = NoMsg
     /\ \A n \in 1 .. nextCall - 1 :
           at[Caller(c)] = "idle" \/ n # nextCall - 1 => returned[n] = Answer(n)
     /\ \A n \in Calls : n >= nextCall => returned[n] = NoMsg

SoleInv == Inv /\ MsgInv /\ SignerAnswers /\ AnswersOnRx /\ CallerWaits /\ CallsDone

LEMMA CallerNames ==
  ASSUME NEW g \in Goroutines, g.role = "caller"
  PROVE  \E c \in Callers : g = Caller(c)
  BY DEF Goroutines, Caller, Writer, Reader

\* A caller is idle before and after the step, or not at all.
IdleStays(g) == at'[g] = "idle" <=> at[g] = "idle"

LEMMA SendOfSole ==
  ASSUME Sole, ChanType, AnswersOnRx, CallerWaits,
         NEW g \in Goroutines, NEW m \in Frames, Send(g, m),
         \/ g.role = "caller" /\ at[g] = "idle"
         \/ g.role = "reader" /\ m.kind = "answer"
  PROVE  /\ AnswersOnRx' /\ CallerWaits'
         /\ at'[g] # "idle"
         /\ \A c \in Callers : Caller(c) # g => IdleStays(Caller(c))
<1>1. CASE recvq = <<>>
  <2> DEFINE E == [from : Goroutines, msg : Frames]
             e == [from |-> g, msg |-> m]
  <2>1. /\ sendq' = Append(sendq, e) /\ recvq' = recvq /\ got' = got
        /\ at' = [at EXCEPT ![g] = "sending"]
    BY <1>1 DEF Send
  <2>2. sendq \in Seq(E) /\ e \in E /\ e.from = g /\ e.msg = m
    BY DEF ChanType
  <2>3. at'[g] = "sending" /\ \A c \in Callers : Caller(c) # g => at'[Caller(c)] = at[Caller(c)]
    BY <2>1, GoroutineTypes DEF ChanType
  <2> HIDE DEF E, e
  <2>4. \A i \in 1 .. Len(sendq') :
           \/ i \in 1 .. Len(sendq) /\ sendq'[i] = sendq[i]
           \/ i = Len(sendq) + 1 /\ sendq'[i] = e
    BY <2>1, <2>2
  <2>5. AnswersOnRx'
    BY <2>2, <2>4 DEF AnswersOnRx
  <2>6. ASSUME NEW c \in Callers PROVE InQueues(c)' /\ TakesAnswer(c)'
    <3>1. InQueues(c) /\ TakesAnswer(c)
      BY DEF CallerWaits
    <3>2. CASE g = Caller(c)
      <4>1. at[g] = "idle"
        BY <3>2, GoroutineTypes
      <4>2. /\ \A i \in 1 .. Len(sendq) : sendq[i].from # g
            /\ \A i \in 1 .. Len(recvq) : recvq[i] # g
        BY <3>1, <3>2, <4>1 DEF InQueues
      <4> QED
        BY <2>1, <2>3, <2>4, <3>2, <4>2 DEF InQueues, TakesAnswer
    <3>3. CASE g # Caller(c)
      <4>1. \A i \in 1 .. Len(sendq') : sendq'[i].from = Caller(c) =>
               i \in 1 .. Len(sendq) /\ sendq'[i] = sendq[i]
        BY <2>2, <2>4, <3>3
      <4> QED
        BY <2>1, <2>3, <3>1, <3>3, <4>1 DEF InQueues, TakesAnswer
    <3> QED
      BY <3>2, <3>3
  <2> QED
    BY <2>3, <2>5, <2>6 DEF CallerWaits, IdleStays
<1>2. CASE recvq # <<>>
  <2> DEFINE h == Head(recvq)
  <2>1. /\ recvq' = Tail(recvq) /\ sendq' = sendq
        /\ got' = [got EXCEPT ![h] = m]
        /\ at' = [at EXCEPT ![g] = AfterSend(g), ![h] = "got"]
    BY <1>2 DEF Send
  <2>2. /\ h \in Goroutines /\ h = recvq[1] /\ 1 \in 1 .. Len(recvq)
        /\ \A i \in 1 .. Len(Tail(recvq)) :
              i + 1 \in 1 .. Len(recvq) /\ Tail(recvq)[i] = recvq[i + 1]
    BY <1>2, TailElements DEF ChanType
  <2> HIDE DEF h
  <2>3. /\ at'[h] = "got" /\ got'[h] = m /\ at'[g] # "idle"
        /\ g # h => at'[g] = AfterSend(g)
        /\ \A c \in Callers : Caller(c) # h =>
              /\ got'[Caller(c)] = got[Caller(c)]
              /\ Caller(c) # g => at'[Caller(c)] = at[Caller(c)]
    BY <2>1, <2>2, GoroutineTypes, AfterSendType DEF ChanType
  <2>4. AnswersOnRx'
    BY <2>1 DEF AnswersOnRx
  <2>5. ASSUME NEW c \in Callers
        PROVE  /\ InQueues(c)' /\ TakesAnswer(c)'
               /\ Caller(c) # g => IdleStays(Caller(c))
    <3>1. InQueues(c) /\ TakesAnswer(c)
      BY DEF CallerWaits
    <3>2. \A i \in 1 .. Len(recvq') : i + 1 \in 1 .. Len(recvq) /\ recvq'[i] = recvq[i + 1]
      BY <2>1, <2>2
    <3>3. CASE h = Caller(c)
      <4>1. at[h] = "receiving"
        BY <2>2, <3>1, <3>3 DEF InQueues
      <4>2. g # h
        BY <3>3, <4>1, GoroutineTypes
      <4>3. m.kind = "answer"
        <5>1. g.role # "caller"
          BY <3>3, <4>2, CallerNames DEF Sole
        <5> QED
          BY <5>1
      <4>4. \A i \in 1 .. Len(sendq) : sendq[i].from # h
        BY <3>1, <3>3, <4>1 DEF InQueues
      <4>5. \A i \in 1 .. Len(recvq') : recvq'[i] # h
        <5> SUFFICES ASSUME NEW i \in 1 .. Len(recvq'), recvq'[i] = h
                     PROVE  FALSE
          OBVIOUS
        <5>1. i + 1 \in 1 .. Len(recvq) /\ recvq[i + 1] = h
          BY <3>2
        <5>2. i + 1 = 1
          BY <2>2, <3>1, <3>3, <5>1 DEF InQueues
        <5> QED
          BY <5>2
      <4> QED
        BY <2>1, <2>3, <3>3, <4>1, <4>3, <4>4, <4>5 DEF InQueues, TakesAnswer, IdleStays
    <3>4. CASE h # Caller(c) /\ g = Caller(c)
      <4>1. at[g] = "idle" /\ at'[g] = "sent"
        BY <2>3, <3>4, GoroutineTypes DEF AfterSend
      <4>2. /\ \A i \in 1 .. Len(sendq) : sendq[i].from # g
            /\ \A i \in 1 .. Len(recvq) : recvq[i] # g
        BY <3>1, <3>4, <4>1 DEF InQueues
      <4>3. \A i \in 1 .. Len(recvq') : recvq'[i] # g
        BY <3>2, <4>2
      <4> QED
        BY <2>1, <3>4, <4>1, <4>2, <4>3 DEF InQueues, TakesAnswer
    <3>5. CASE h # Caller(c) /\ g # Caller(c)
      <4>1. at'[Caller(c)] = at[Caller(c)] /\ got'[Caller(c)] = got[Caller(c)]
        BY <2>3, <3>5
      <4>2. \A i, j \in 1 .. Len(recvq') :
               recvq'[i] = Caller(c) /\ recvq'[j] = Caller(c) => i = j
        <5> SUFFICES ASSUME NEW i \in 1 .. Len(recvq'), NEW j \in 1 .. Len(recvq'),
                            recvq'[i] = Caller(c), recvq'[j] = Caller(c)
                     PROVE  i = j
          OBVIOUS
        <5>1. i + 1 \in 1 .. Len(recvq) /\ j + 1 \in 1 .. Len(recvq)
              /\ recvq[i + 1] = Caller(c) /\ recvq[j + 1] = Caller(c)
          BY <3>2
        <5>2. i + 1 = j + 1
          BY <3>1, <5>1 DEF InQueues
        <5> QED
          BY <5>2
      <4>3. \A i \in 1 .. Len(recvq') : recvq'[i] = Caller(c) => at[Caller(c)] = "receiving"
        BY <3>1, <3>2 DEF InQueues
      <4> QED
        BY <2>1, <3>1, <4>1, <4>2, <4>3 DEF InQueues, TakesAnswer, IdleStays
    <3> QED
      BY <3>3, <3>4, <3>5
  <2> QED
    BY <2>3, <2>4, <2>5 DEF CallerWaits
<1> QED
  BY <1>1, <1>2

LEMMA ReceiveOfSole ==
  ASSUME Sole, ChanType, AnswersOnRx, CallerWaits,
         NEW g \in Goroutines, Receive(g),
         g.role = "caller" => at[g] = "sent"
  PROVE  /\ AnswersOnRx' /\ CallerWaits'
         /\ at'[g] # "idle"
         /\ \A c \in Callers : Caller(c) # g => IdleStays(Caller(c))
<1>1. CASE sendq = <<>>
  <2>1. /\ sendq' = sendq /\ recvq' = Append(recvq, g) /\ got' = got
        /\ at' = [at EXCEPT ![g] = "receiving"]
    BY <1>1 DEF Receive
  <2>2. at'[g] = "receiving"
        /\ \A c \in Callers : Caller(c) # g => at'[Caller(c)] = at[Caller(c)]
    BY <2>1, GoroutineTypes DEF ChanType
  <2>3. \A i \in 1 .. Len(recvq') :
           \/ i \in 1 .. Len(recvq) /\ recvq'[i] = recvq[i]
           \/ i = Len(recvq) + 1 /\ recvq'[i] = g
    BY <2>1 DEF ChanType
  <2>4. AnswersOnRx'
    BY <2>1 DEF AnswersOnRx
  <2>5. ASSUME NEW c \in Callers PROVE InQueues(c)' /\ TakesAnswer(c)'
    <3>1. InQueues(c) /\ TakesAnswer(c)
      BY DEF CallerWaits
    <3>2. CASE g = Caller(c)
      <4>1. at[g] = "sent"
        BY <3>2, GoroutineTypes
      <4>2. /\ \A i \in 1 .. Len(sendq) : sendq[i].from # g
            /\ \A i \in 1 .. Len(recvq) : recvq[i] # g
        BY <3>1, <3>2, <4>1 DEF InQueues
      <4> QED
        BY <2>1, <2>2, <2>3, <3>2, <4>2 DEF InQueues, TakesAnswer
    <3>3. CASE g # Caller(c)
      <4>1. \A i \in 1 .. Len(recvq') : recvq'[i] = Caller(c) =>
               i \in 1 .. Len(recvq) /\ recvq'[i] = recvq[i]
        BY <2>3, <3>3
      <4> QED
        BY <2>1, <2>2, <3>1, <3>3, <4>1 DEF InQueues, TakesAnswer
    <3> QED
      BY <3>2, <3>3
  <2> QED
    BY <2>2, <2>4, <2>5 DEF CallerWaits, IdleStays
<1>2. CASE sendq # <<>>
  <2> DEFINE E == [from : Goroutines, msg : Frames]
             h == Head(sendq)
             s == h.from
  <2>1. /\ sendq' = Tail(sendq) /\ recvq' = recvq
        /\ got' = [got EXCEPT ![g] = h.msg]
        /\ at' = [at EXCEPT ![g] = "got", ![s] = AfterSend(s)]
    BY <1>2 DEF Receive
  <2>2. /\ h \in E /\ h = sendq[1] /\ 1 \in 1 .. Len(sendq)
        /\ \A i \in 1 .. Len(Tail(sendq)) :
              i + 1 \in 1 .. Len(sendq) /\ Tail(sendq)[i] = sendq[i + 1]
    <3> HIDE DEF E, h
    <3>1. sendq \in Seq(E)
      BY DEF ChanType, E
    <3> QED
      BY <1>2, <3>1, TailElements DEF h
  <2>3. s \in Goroutines /\ AfterSend(s) \in {"sent", "read"}
        /\ (s.role = "caller" => AfterSend(s) = "sent")
    BY <2>2, AfterSendType DEF AfterSend
  <2> HIDE DEF h, E, s
  <2>4. /\ got'[g] = h.msg /\ at'[g] # "idle" /\ at'[s] = AfterSend(s)
        /\ g # s => at'[g] = "got"
        /\ \A c \in Callers : Caller(c) # g =>
              /\ got'[Caller(c)] = got[Caller(c)]
              /\ Caller(c) # s => at'[Caller(c)] = at[Caller(c)]
    BY <2>1, <2>3, GoroutineTypes DEF ChanType
  <2>5. \A i \in 1 .. Len(sendq') : i + 1 \in 1 .. Len(sendq) /\ sendq'[i] = sendq[i + 1]
    BY <2>1, <2>2
  <2>6. AnswersOnRx'
    BY <2>5 DEF AnswersOnRx
  <2>7. ASSUME NEW c \in Callers
        PROVE  /\ InQueues(c)' /\ TakesAnswer(c)'
               /\ Caller(c) # g => IdleStays(Caller(c))
    <3>1. InQueues(c) /\ TakesAnswer(c)
      BY DEF CallerWaits
    <3>2. CASE g = Caller(c)
      <4>1. at[g] = "sent"
        BY <3>2, GoroutineTypes
      <4>2. /\ \A i \in 1 .. Len(sendq) : sendq[i].from # g
            /\ \A i \in 1 .. Len(recvq) : recvq[i] # g
        BY <3>1, <3>2, <4>1 DEF InQueues
      <4>3. s # g
        BY <2>2, <4>2 DEF s
      <4>4. h.msg.kind = "answer"
        <5>1. s.role # "caller"
          BY <2>3, <3>2, <4>3, CallerNames DEF Sole
        <5> QED
          BY <2>2, <5>1 DEF AnswersOnRx, s
      <4>5. \A i \in 1 .. Len(sendq') : sendq'[i].from # g
        BY <2>5, <4>2
      <4> QED
        BY <2>1, <2>4, <3>2, <4>2, <4>3, <4>4, <4>5 DEF InQueues, TakesAnswer
    <3>3. CASE g # Caller(c) /\ s = Caller(c)
      <4>1. at[s] = "sending"
        BY <2>2, <3>1, <3>3 DEF InQueues, s
      <4>2. at'[s] = "sent"
        BY <2>3, <2>4, <3>3, GoroutineTypes
      <4>3. \A i \in 1 .. Len(recvq) : recvq[i] # s
        BY <3>1, <3>3, <4>1 DEF InQueues
      <4>4. \A i \in 1 .. Len(sendq') : sendq'[i].from # s
        <5> SUFFICES ASSUME NEW i \in 1 .. Len(sendq'), sendq'[i].from = s
                     PROVE  FALSE
          OBVIOUS
        <5>1. i + 1 \in 1 .. Len(sendq) /\ sendq[i + 1].from = s
          BY <2>5
        <5>2. i + 1 = 1
          BY <2>2, <3>1, <3>3, <5>1 DEF InQueues, s
        <5> QED
          BY <5>2
      <4> QED
        BY <2>1, <3>3, <4>1, <4>2, <4>3, <4>4 DEF InQueues, TakesAnswer, IdleStays
    <3>4. CASE g # Caller(c) /\ s # Caller(c)
      <4>1. at'[Caller(c)] = at[Caller(c)] /\ got'[Caller(c)] = got[Caller(c)]
        BY <2>4, <3>4
      <4>2. \A i, j \in 1 .. Len(sendq') :
               sendq'[i].from = Caller(c) /\ sendq'[j].from = Caller(c) => i = j
        <5> SUFFICES ASSUME NEW i \in 1 .. Len(sendq'), NEW j \in 1 .. Len(sendq'),
                            sendq'[i].from = Caller(c), sendq'[j].from = Caller(c)
                     PROVE  i = j
          OBVIOUS
        <5>1. i + 1 \in 1 .. Len(sendq) /\ j + 1 \in 1 .. Len(sendq)
              /\ sendq[i + 1].from = Caller(c) /\ sendq[j + 1].from = Caller(c)
          BY <2>5
        <5>2. i + 1 = j + 1
          BY <3>1, <5>1 DEF InQueues
        <5> QED
          BY <5>2
      <4>3. \A i \in 1 .. Len(sendq') : sendq'[i].from = Caller(c) => at[Caller(c)] = "sending"
        BY <2>5, <3>1 DEF InQueues
      <4> QED
        BY <2>1, <3>1, <4>1, <4>2, <4>3 DEF InQueues, TakesAnswer, IdleStays
    <3> QED
      BY <3>2, <3>3, <3>4
  <2> QED
    BY <2>4, <2>6, <2>7 DEF CallerWaits
<1> QED
  BY <1>1, <1>2

-----------------------------------------------------------------------------
(* The steps with a sole caller. *)

\* What a caller has received is the answer to its call: the messages of the
\* others have been returned, and none but the caller itself sends a request.
LEMMA OwnAnswer ==
  ASSUME SoleInv, NEW c \in Callers, at[Caller(c)] = "got"
  PROVE  /\ doing[c] = nextCall - 1 /\ doing[c] \in Calls /\ doing[c] \in 1 .. nextCall - 1
         /\ returned[doing[c]] = NoMsg
         /\ got[Caller(c)] = Answer(doing[c])
<1> DEFINE g == Caller(c)
           m == got[g]
<1>1. nextCall \in 1 .. MaxCalls + 1 /\ MaxCalls \in Nat /\ g \in Goroutines /\ m \in Frames
  BY ProxyAssumption, GoroutineTypes DEF SoleInv, Inv, TypeOK, GotMessage
<1>2. nextCall > 1 /\ doing[c] = nextCall - 1 /\ returned[nextCall - 1] = NoMsg
  BY DEF SoleInv, CallsDone
<1>3. doing[c] \in Calls /\ doing[c] \in 1 .. nextCall - 1
  BY <1>1, <1>2 DEF Calls
<1>4. m.kind = "answer"
  BY DEF SoleInv, CallerWaits, TakesAnswer
<1>5. m.call \in Calls /\ m = Answer(m.call) /\ m # NoMsg
  BY <1>1, <1>4, ProxyAssumption DEF Frames, Messages, Greeting, Answer
<1>6. g \in Held(m.call)
  BY <1>1, <1>5 DEF Held
<1>7. CallInv(m.call)
  BY <1>5 DEF SoleInv, MsgInv
<1>8. m.call = nextCall - 1
  <2>1. SUFFICES ASSUME m.call # nextCall - 1 PROVE FALSE
    OBVIOUS
  <2>2. CASE m.call >= nextCall
    BY <1>6, <1>7, <2>2 DEF CallInv, NoMessage, Empty
  <2>3. CASE m.call < nextCall
    <3>1. m.call \in 1 .. nextCall - 1
      BY <1>1, <1>5, <2>3 DEF Calls
    <3>2. returned[m.call] = Answer(m.call)
      BY <2>1, <3>1 DEF SoleInv, CallsDone
    <3>3. m.call \in ReturnedBy(m.call)
      BY <1>5, <3>2 DEF ReturnedBy, Answer
    <3> QED
      BY <1>6, <1>7, <3>3 DEF CallInv, LoneCall, Lone
  <2> QED
    BY <1>1, <1>5, <2>2, <2>3 DEF Calls
<1> QED
  BY <1>2, <1>3, <1>5, <1>8

LEMMA CallsStay ==
  ASSUME CallsDone, UNCHANGED <<nextCall, doing, returned>>,
         \A c \in Callers : IdleStays(Caller(c))
  PROVE  CallsDone'
  BY DEF CallsDone, IdleStays

\* Nothing of the channel that concerns a caller changes.
LEMMA CallersStay ==
  ASSUME AnswersOnRx, CallerWaits, CallsDone, UNCHANGED <<sendq, recvq, nextCall, doing, returned>>,
         \A c \in Callers : at'[Caller(c)] = at[Caller(c)] /\ got'[Caller(c)] = got[Caller(c)]
  PROVE  AnswersOnRx' /\ CallerWaits' /\ CallsDone'
<1>1. AnswersOnRx'
  BY DEF AnswersOnRx
<1>2. CallerWaits'
  BY DEF CallerWaits, InQueues, TakesAnswer
<1>3. CallsDone'
  BY CallsStay DEF IdleStays
<1> QED
  BY <1>1, <1>2, <1>3

LEMMA CallOfSole ==
  ASSUME Sole, SoleInv, NEW c \in Callers, Call(c)
  PROVE  SignerAnswers' /\ AnswersOnRx' /\ CallerWaits' /\ CallsDone'
<1>1. /\ at[Caller(c)] = "idle" /\ nextCall \in Calls /\ nextCall' = nextCall + 1
      /\ doing' = [doing EXCEPT ![c] = nextCall]
      /\ Send(Caller(c), Request(nextCall))
      /\ UNCHANGED <<returned, toLnd>>
  BY DEF Call, netVars
<1>2. ChanType /\ AnswersOnRx /\ CallerWaits
  BY DEF SoleInv, Inv, TypeOK, ChanType
<1>3. Caller(c) \in Goroutines /\ Caller(c).role = "caller" /\ Request(nextCall) \in Frames
  BY <1>1, GoroutineTypes, FrameTypes
<1>4. AnswersOnRx' /\ CallerWaits' /\ at'[Caller(c)] # "idle"
  BY <1>1, <1>2, <1>3, SendOfSole
<1>5. nextCall \in Nat /\ nextCall >= 1 /\ doing \in [Callers -> 0 .. MaxCalls]
  <2>1. nextCall \in 1 .. MaxCalls + 1 /\ doing \in [Callers -> 0 .. MaxCalls]
    BY DEF SoleInv, Inv, TypeOK
  <2> QED
    BY <2>1, ProxyAssumption
<1>6. doing'[c] = nextCall
  BY <1>1, <1>5
<1>7. /\ \A n \in 1 .. nextCall - 1 : returned[n] = Answer(n)
      /\ \A n \in Calls : n >= nextCall => returned[n] = NoMsg
  BY <1>1 DEF SoleInv, CallsDone
<1>8. CallsDone'
  <2> SUFFICES ASSUME NEW d \in Callers
               PROVE  /\ nextCall' > 1 /\ doing'[d] = nextCall' - 1
                      /\ returned'[nextCall' - 1] = NoMsg
                      /\ \A n \in 1 .. nextCall' - 1 :
                            at'[Caller(d)] = "idle" \/ n # nextCall' - 1 =>
                               returned'[n] = Answer(n)
                      /\ \A n \in Calls : n >= nextCall' => returned'[n] = NoMsg
    BY DEF CallsDone
  <2>1. d = c
    BY DEF Sole
  <2>2. nextCall' - 1 = nextCall /\ nextCall' > 1
    BY <1>1, <1>5
  <2>3. \A n \in 1 .. nextCall : n # nextCall => n \in 1 .. nextCall - 1
    BY <1>5
  <2>4. \A n \in Calls : n >= nextCall' => n >= nextCall
    BY <1>1, <1>5 DEF Calls
  <2> QED
    BY <1>1, <1>4, <1>6, <1>7, <2>1, <2>2, <2>3, <2>4
<1> QED
  BY <1>1, <1>4, <1>8 DEF SoleInv, SignerAnswers

LEMMA ReturnOfSole ==
  ASSUME Sole, SoleInv, NEW c \in Callers, Return(c)
  PROVE  SignerAnswers' /\ AnswersOnRx' /\ CallerWaits' /\ CallsDone'
<1> DEFINE n0 == nextCall - 1
<1>1. /\ at[Caller(c)] = "got"
      /\ returned' = [returned EXCEPT ![doing[c]] = got[Caller(c)]]
      /\ at' = [at EXCEPT ![Caller(c)] = "idle"]
      /\ got' = [got EXCEPT ![Caller(c)] = NoMsg]
      /\ UNCHANGED <<sendq, recvq, nextCall, toLnd>>
  BY DEF Return, netVars
<1>2. /\ doing[c] = n0 /\ n0 \in Calls /\ n0 \in 1 .. n0 /\ got[Caller(c)] = Answer(n0)
  BY <1>1, OwnAnswer
<1>3. Caller(c) \in Goroutines /\ at'[Caller(c)] = "idle"
  BY <1>1, GoroutineTypes DEF SoleInv, Inv, TypeOK
<1>4. nextCall \in Nat /\ returned \in [Calls -> Frames \cup {NoMsg}]
  <2>1. nextCall \in 1 .. MaxCalls + 1 /\ returned \in [Calls -> Frames \cup {NoMsg}]
    BY DEF SoleInv, Inv, TypeOK
  <2> QED
    BY <2>1, ProxyAssumption
<1>5. CallerWaits'
  <2> SUFFICES ASSUME NEW d \in Callers PROVE InQueues(d)' /\ TakesAnswer(d)'
    BY DEF CallerWaits
  <2>1. d = c
    BY DEF Sole
  <2>2. InQueues(c)
    BY DEF SoleInv, CallerWaits
  <2> QED
    BY <1>1, <1>3, <2>1, <2>2 DEF InQueues, TakesAnswer
<1>6. CallsDone'
  <2>1. returned'[n0] = Answer(n0) /\ \A n \in Calls : n # n0 => returned'[n] = returned[n]
    BY <1>1, <1>2, <1>4
  <2>2. \A n \in 1 .. nextCall - 1 : n \in Calls
    BY <1>2, <1>4, ProxyAssumption DEF Calls
  <2>3. /\ \A n \in 1 .. nextCall - 1 : n # n0 => returned[n] = Answer(n)
        /\ \A n \in Calls : n >= nextCall => returned[n] = NoMsg
    BY DEF SoleInv, CallsDone
  <2>4. /\ \A n \in 1 .. nextCall - 1 : returned'[n] = Answer(n)
        /\ \A n \in Calls : n >= nextCall => returned'[n] = NoMsg
    BY <1>4, <2>1, <2>2, <2>3 DEF Calls
  <2> QED
    BY <1>1, <1>3, <2>4 DEF CallsDone, Sole
<1> QED
  BY <1>1, <1>5, <1>6 DEF SoleInv, SignerAnswers, AnswersOnRx

LEMMA ReadPumpOfSole ==
  ASSUME Sole, SoleInv, NEW k \in Conns, ReadPump(k)
  PROVE  SignerAnswers' /\ AnswersOnRx' /\ CallerWaits' /\ CallsDone'
<1> DEFINE g == Reader(k)
           m == Head(toLnd[k])
<1>1. /\ toLnd[k] # <<>> /\ toLnd' = [toLnd EXCEPT ![k] = Tail(@)]
      /\ Send(g, m) /\ UNCHANGED <<nextCall, doing, returned>>
  BY DEF ReadPump, callVars
<1>2. ChanType /\ AnswersOnRx /\ CallerWaits /\ SignerAnswers /\ toLnd \in [Conns -> Seq(Frames)]
  BY DEF SoleInv, Inv, TypeOK, ChanType
<1>3. /\ m \in Frames /\ m = toLnd[k][1] /\ 1 \in 1 .. Len(toLnd[k])
      /\ \A i \in 1 .. Len(Tail(toLnd[k])) :
            i + 1 \in 1 .. Len(toLnd[k]) /\ Tail(toLnd[k])[i] = toLnd[k][i + 1]
  BY <1>1, <1>2, TailElements
<1>4. m.kind = "answer" /\ SignerAnswers'
  BY <1>1, <1>2, <1>3 DEF SignerAnswers
<1>5. g \in Goroutines /\ g.role = "reader" /\ \A c \in Callers : Caller(c) # g
  BY GoroutineTypes DEF Caller, Reader
<1> HIDE DEF g, m
<1>6. AnswersOnRx' /\ CallerWaits' /\ \A c \in Callers : IdleStays(Caller(c))
  BY <1>1, <1>2, <1>3, <1>4, <1>5, SendOfSole
<1>7. CallsDone'
  BY <1>1, <1>6, CallsStay DEF SoleInv
<1> QED
  BY <1>4, <1>6, <1>7

LEMMA SignOfSole ==
  ASSUME SoleInv, NEW k \in Conns, Sign(k)
  PROVE  SignerAnswers'
<1> DEFINE m == Answer(Head(toSigner[k]).call)
<1>1. toLnd' = toLnd \/ toLnd' = [toLnd EXCEPT ![k] = Append(@, m)]
  BY DEF Sign
<1>2. toLnd \in [Conns -> Seq(Frames)] /\ SignerAnswers
  BY DEF SoleInv, Inv, TypeOK
<1>3. m.kind = "answer"
  BY DEF Answer
<1> HIDE DEF m
<1>4. ASSUME toLnd' = [toLnd EXCEPT ![k] = Append(@, m)] PROVE SignerAnswers'
  <2>1. \A i \in 1 .. Len(Append(toLnd[k], m)) :
           \/ i \in 1 .. Len(toLnd[k]) /\ Append(toLnd[k], m)[i] = toLnd[k][i]
           \/ Append(toLnd[k], m)[i] = m
    BY <1>2
  <2> QED
    BY <1>2, <1>3, <1>4, <2>1 DEF SignerAnswers
<1> QED
  BY <1>1, <1>2, <1>4 DEF SignerAnswers

LEMMA NextSole ==
  ASSUME Sole, SoleInv, [Next]_vars
  PROVE  SoleInv'
<1>1. Inv' /\ MsgInv'
  BY NextInv, NextMessages DEF SoleInv
<1> DEFINE Rest == SignerAnswers /\ AnswersOnRx /\ CallerWaits /\ CallsDone
<1>2. ChanType /\ Rest /\ \A c \in Callers : Caller(c) \in Goroutines
  BY GoroutineTypes DEF SoleInv, Inv, TypeOK, ChanType
<1>3. ASSUME UNCHANGED <<chanVars, callVars, toLnd>> PROVE Rest'
  BY <1>2, <1>3, CallersStay DEF chanVars, callVars, SignerAnswers
<1> USE DEF connVars, chanVars, callVars, netVars
<1>4. ASSUME UNCHANGED vars \/ SetWallet PROVE Rest'
  BY <1>3, <1>4 DEF vars, SetWallet
<1>5. ASSUME NEW c \in Callers, Call(c) \/ CallerStep(c) PROVE Rest'
  <2>1. CASE Await(c)
    <3>1. Receive(Caller(c)) /\ at[Caller(c)] = "sent"
          /\ UNCHANGED <<nextCall, doing, returned, toLnd>>
      BY <2>1 DEF Await
    <3>2. /\ AnswersOnRx' /\ CallerWaits' /\ at'[Caller(c)] # "idle"
          /\ \A d \in Callers : Caller(d) # Caller(c) => IdleStays(Caller(d))
      BY <1>2, <3>1, ReceiveOfSole
    <3>3. CallsDone'
      <4>1. \A d \in Callers : IdleStays(Caller(d))
        BY <3>1, <3>2 DEF IdleStays
      <4> QED
        BY <1>2, <3>1, <4>1, CallsStay
    <3> QED
      BY <1>2, <3>1, <3>2, <3>3 DEF SignerAnswers
  <2>2. CASE Undecodable(c)
    BY <1>3, <2>2 DEF Undecodable, Fatal
  <2>3. CASE Call(c)
    BY <2>3, CallOfSole
  <2>4. CASE Return(c)
    BY <2>4, ReturnOfSole
  <2> QED
    BY <1>5, <2>1, <2>2, <2>3, <2>4 DEF CallerStep
<1>6. ASSUME NEW k \in Conns PROVE \A c \in Callers : Caller(c) # Writer(k) /\ Caller(c) # Reader(k)
  BY DEF Caller, Writer, Reader
<1>7. ASSUME NEW k \in Conns, Pumps(k) PROVE Rest'
  <2>1. CASE WriterReceive(k)
    <3>1. Receive(Writer(k)) /\ UNCHANGED <<nextCall, doing, returned, toLnd>>
      BY <2>1 DEF WriterReceive
    <3>2. Writer(k) \in Goroutines /\ Writer(k).role # "caller"
      BY GoroutineTypes
    <3>3. AnswersOnRx' /\ CallerWaits' /\ \A c \in Callers : IdleStays(Caller(c))
      BY <1>2, <1>6, <3>1, <3>2, ReceiveOfSole
    <3> QED
      BY <1>2, <3>1, <3>3, CallsStay DEF SignerAnswers
  <2>2. CASE WritePump(k)
    <3>1. /\ at' = [at EXCEPT ![Writer(k)] = "loop"] /\ got' = [got EXCEPT ![Writer(k)] = NoMsg]
          /\ UNCHANGED <<sendq, recvq, nextCall, doing, returned, toLnd>>
      BY <2>2 DEF WritePump
    <3> QED
      BY <1>2, <1>6, <3>1, CallersStay DEF SignerAnswers, ChanType
  <2>3. CASE ReadPump(k)
    BY <2>3, ReadPumpOfSole
  <2>4. CASE WriteError(k) \/ ReadFails(k)
    BY <1>3, <2>4 DEF WriteError, ReadFails, Fatal
  <2> QED
    BY <1>7, <2>1, <2>2, <2>3, <2>4 DEF Pumps
<1>8. ASSUME NEW k \in Conns, Connect(k) \/ Handle(k) PROVE Rest'
  <2>1. CASE Greet(k)
    <3>1. /\ at' = [at EXCEPT ![Writer(k)] = "loop", ![Reader(k)] = "read"]
          /\ UNCHANGED <<sendq, recvq, got, nextCall, doing, returned, toLnd>>
      BY <2>1 DEF Greet
    <3> QED
      BY <1>2, <1>6, <3>1, CallersStay DEF SignerAnswers, ChanType
  <2>2. CASE AlreadyConnected(k) \/ CheckConnected(k) \/ SetConnected(k)
    BY <1>3, <2>2 DEF AlreadyConnected, CheckConnected, SetConnected, Fatal
  <2> QED
    BY <1>8, <2>1, <2>2 DEF Connect, Handle
<1>9. ASSUME NEW k \in Conns, GreetFails(k) \/ SignerCloses(k) PROVE Rest'
  BY <1>3, <1>9 DEF GreetFails, SignerCloses
<1>10. ASSUME NEW k \in Conns, Signer(k) PROVE Rest'
  <2>1. CASE ReadKey(k)
    BY <1>3, <2>1 DEF ReadKey
  <2>2. CASE Sign(k)
    <3>1. UNCHANGED <<chanVars, callVars>>
      BY <2>2 DEF Sign
    <3> QED
      BY <1>2, <2>2, <3>1, SignOfSole, CallersStay
  <2> QED
    BY <1>10, <2>1, <2>2 DEF Signer
<1>11. Rest'
  BY <1>4, <1>5, <1>7, <1>8, <1>9, <1>10 DEF Next
<1> QED
  BY <1>1, <1>11 DEF SoleInv

LEMMA InitSole == Init => SoleInv
<1> SUFFICES ASSUME Init PROVE SoleInv
  OBVIOUS
<1>1. Inv /\ MsgInv
  BY InitInv, InitMessages
<1>2. SignerAnswers /\ AnswersOnRx /\ CallerWaits
  BY GoroutineTypes DEF Init, SignerAnswers, AnswersOnRx, CallerWaits, InQueues, TakesAnswer
<1>3. CallsDone
  BY GoroutineTypes DEF Init, CallsDone
<1> QED
  BY <1>1, <1>2, <1>3 DEF SoleInv

\* With one caller, what a call returns is its own answer, whatever becomes of
\* the messages that the pumps take from each other: each step of the proxy
\* makes a new call, returns the answer to the call under way, or does neither.
THEOREM SoleCallerIsRpc ==
  ASSUME \A c, d \in Callers : c = d
  PROVE  Spec => RefinesReverseRpc
<1>1. Init => Rpc!Init
  <2> SUFFICES ASSUME Init PROVE Rpc!Init
    OBVIOUS
  <2>1. 1 .. nextCall - 1 = {}
    BY DEF Init
  <2>2. \A n \in Calls : returned[n] = NoMsg
    BY DEF Init
  <2> QED
    BY <2>1, <2>2 DEF Rpc!Init
<1>2. SoleInv /\ [Next]_vars => SoleInv'
  BY NextSole DEF Sole
<1>3. SoleInv /\ [Next]_vars => [Rpc!Next]_(Rpc!vars)
  <2> SUFFICES ASSUME SoleInv, [Next]_vars PROVE [Rpc!Next]_(Rpc!vars)
    OBVIOUS
  <2>1. CASE UNCHANGED <<nextCall, returned>>
    BY <2>1 DEF Rpc!vars
  <2>2. ASSUME NEW c \in Callers, Call(c) PROVE [Rpc!Next]_(Rpc!vars)
    <3>1. nextCall \in Calls /\ nextCall' = nextCall + 1 /\ returned' = returned
      BY <2>2 DEF Call
    <3>2. nextCall \notin 1 .. nextCall - 1 /\ 1 .. nextCall' - 1 = (1 .. nextCall - 1) \cup {nextCall}
      BY <3>1 DEF Calls
    <3>3. Rpc!Ask(nextCall)
      BY <3>1, <3>2 DEF Rpc!Ask
    <3> QED
      BY <3>1, <3>3 DEF Rpc!Next
  <2>3. ASSUME NEW c \in Callers, Return(c) PROVE [Rpc!Next]_(Rpc!vars)
    <3>0. PICK n \in Calls : n = doing[c]
      BY <2>3, OwnAnswer DEF Return
    <3>1. /\ n \in 1 .. nextCall - 1 /\ returned[n] = NoMsg /\ nextCall' = nextCall
          /\ returned' = [returned EXCEPT ![n] = Answer(n)]
      BY <2>3, <3>0, OwnAnswer DEF Return
    <3>2. Answer(n) # NoMsg /\ Answer(n).kind = "answer" /\ Answer(n).call = n
      BY ProxyAssumption DEF Answer
    <3>3. returned \in [Calls -> Frames \cup {NoMsg}]
      BY DEF SoleInv, Inv, TypeOK
    <3>4. returned'[n] = Answer(n) /\ \A j \in Calls : j # n => returned'[j] = returned[j]
      BY <3>1, <3>3
    <3>5. Rpc!Answer(n)
      <4> DEFINE R == [j \in Calls |-> IF returned[j] = NoMsg THEN NoMsg
                                       ELSE IF returned[j].kind = "answer"
                                              THEN returned[j].call ELSE 0]
      <4>1. R[n] = NoMsg
        BY <3>1
      <4>2. R' = [R EXCEPT ![n] = n]
        BY <3>2, <3>4
      <4> QED
        BY <3>1, <4>1, <4>2 DEF Rpc!Answer
    <3> QED
      BY <3>5 DEF Rpc!Next
  <2>4. CASE /\ ~\E c \in Callers : Call(c) \/ Return(c)
    <3>1. UNCHANGED <<nextCall, returned>>
      BY <2>4 DEF Next, SetWallet, CallerStep, Await, Undecodable, Fatal, Pumps, WriterReceive,
         WritePump, WriteError, ReadPump, ReadFails, Connect, Handle, AlreadyConnected, CheckConnected,
         SetConnected, Greet, GreetFails, Signer, ReadKey, Sign, SignerCloses, vars, callVars
    <3> QED
      BY <2>1, <3>1
  <2> QED
    BY <2>2, <2>3, <2>4
<1> QED
  BY <1>1, <1>2, <1>3, InitSole, PTL DEF Spec, RefinesReverseRpc, Rpc!Safety

=============================================================================
