------------------------ MODULE PortsSupplier_proofs ------------------------
(***************************************************************************)
(* Proofs about the wallets' numbers: whatever the hub is told, and        *)
(* whenever it is interrupted or killed, wallets do not share a chain and  *)
(* servers do not share a port.                                            *)
(*                                                                         *)
(* Then about what the numbers are good for: no number is wasted, so a     *)
(* wallet is turned away only by nine others; each wallet has one task for *)
(* its invoices and each pair of lnds one connection; and a hub that is    *)
(* interrupted and started again keeps a directory of numbers.             *)
(***************************************************************************)
EXTENDS PortsSupplier, FiniteSetTheorems, TLAPS

-----------------------------------------------------------------------------
(* The inductive invariant. *)

\* No two wallets have one number.
Injective(f) == \A j, k \in Keys : f[j] # None /\ f[j] = f[k] => j = k

\* A chain runs under the number of its wallet, with queues.
ChainOfKey ==
  \A k \in Keys : keysToOffset[k] # None =>
     /\ keysToOffset[k] = KEY_TO_PORT[k]
     /\ keysToOffset[k] \in assoc
     /\ keysToOffset[k] <= Highest

\* An lnd runs only for a chain.
LndOfChain == \A k \in Keys : lnd[k] # "none" => keysToOffset[k] # None

\* Who waits in get, or has returned from it, has the chain of its key.
ClientHasChain ==
  \A c \in Clients :
     /\ at[c] = "served" => /\ keysToOffset[key[c]] # None
                            /\ pair[c] = keysToOffset[key[c]]
     /\ at[c] = "cert" => keysToOffset[key[c]] # None

\* Only a hub that is up, or that was when it was interrupted, has chains.
NothingRuns ==
  hub \in {"down", "broken"} =>
     keysToOffset = Empty /\ \A c \in Clients : at[c] = "away"

Inv ==
  /\ TypeOK
  /\ Injective(file)
  /\ Injective(KEY_TO_PORT)
  /\ ChainOfKey
  /\ LndOfChain
  /\ ClientHasChain
  /\ NothingRuns

-----------------------------------------------------------------------------
(* Numbers. *)

LEMMA NumberTypes ==
  /\ Numbers \subseteq Nat
  /\ 0 \in Numbers
  /\ None \notin Numbers
  /\ Empty \in [Keys -> Numbers \cup {None}]
  /\ Injective(Empty)
<1>1. Cardinality(Keys) \in Nat
  BY PortsAssumption, FS_CardinalityType
<1> QED
  BY <1>1 DEF Numbers, None, Empty, Injective

LEMMA FirstValues ==
  /\ KeyOf \in [Clients -> Keys]
  /\ 0 \in 0 .. MaxStarts
  /\ [k \in Keys |-> 0] \in [Keys -> 0 .. MaxAttempts - 1]
<1>1. KeyOf \in [Clients -> Keys]
  BY PortsAssumption
<1>2. 0 \in 0 .. MaxStarts /\ 0 \in 0 .. MaxAttempts - 1
  BY PortsAssumption
<1> QED
  BY <1>1, <1>2

LEMMA SavedTypes ==
  ASSUME NEW f \in Saved
  PROVE  f \in [Keys -> Numbers \cup {None}] /\ Injective(f)
  BY PortsAssumption DEF Injective, Assigned

\* A number that nobody has, or that the wallet has already, keeps them apart.
LEMMA NumberGiven ==
  ASSUME NEW f \in [Keys -> Numbers \cup {None}], Injective(f), NEW k \in Keys,
         NEW p \in Numbers, f[k] = p \/ p \notin Values(f)
  PROVE  /\ [f EXCEPT ![k] = p] \in [Keys -> Numbers \cup {None}]
         /\ Injective([f EXCEPT ![k] = p])
<1> DEFINE g == [f EXCEPT ![k] = p]
<1>1. \A j \in Keys \ {k} : g[j] = f[j]
  OBVIOUS
<1>2. g[k] = p
  OBVIOUS
<1>3. \A j \in Keys \ {k} : f[j] # None => f[j] # p
  BY DEF Injective, Values, Assigned
<1> HIDE DEF g
<1>4. Injective(g)
  BY <1>1, <1>2, <1>3, NumberTypes DEF Injective
<1> QED
  BY <1>4 DEF g

-----------------------------------------------------------------------------
(* The steps. *)

LEMMA InitInv == Init => Inv
<1> SUFFICES ASSUME Init PROVE Inv
  OBVIOUS
<1> USE DEF Init
<1>1. file \in [Keys -> Numbers \cup {None}] /\ Injective(file)
  BY SavedTypes
<1>2. TypeOK
  BY <1>1, NumberTypes, FirstValues DEF TypeOK
<1>3. ChainOfKey /\ LndOfChain /\ ClientHasChain /\ NothingRuns
  BY DEF ChainOfKey, LndOfChain, ClientHasChain, NothingRuns, Empty
<1> QED
  BY <1>1, <1>2, <1>3, NumberTypes DEF Inv

\* The process ends, and with it its chains.
LEMMA EndedInv ==
  ASSUME Inv, Ended, hub' = "down", starts' = starts, UNCHANGED <<cert, macaroon>>,
         truncated' \in BOOLEAN, file' = file \/ file' = KEY_TO_PORT
  PROVE  Inv'
<1>1. file' \in [Keys -> Numbers \cup {None}] /\ Injective(file)'
  BY DEF Inv, TypeOK, Injective
<1>2. TypeOK'
  BY <1>1, NumberTypes, FirstValues DEF Inv, TypeOK, Ended
<1>3. ChainOfKey' /\ LndOfChain' /\ ClientHasChain' /\ NothingRuns'
  BY DEF ChainOfKey, LndOfChain, ClientHasChain, NothingRuns, Ended, Empty
<1>4. Injective(KEY_TO_PORT)'
  BY NumberTypes DEF Ended, Injective
<1> QED
  BY <1>1, <1>2, <1>3, <1>4 DEF Inv

LEMMA MainInv ==
  ASSUME Inv, (\E simnet \in Modes : Start(simnet)) \/ Interrupt \/ Save \/ Crash
  PROVE  Inv'
<1> USE DEF diskVars, supplyVars, clientVars, peerVars
<1>1. ASSUME NEW simnet \in Modes, Start(simnet) PROVE Inv'
  <2> USE <1>1 DEF Start
  <2>1. starts' \in 0 .. MaxStarts
    <3>1. starts \in 0 .. MaxStarts /\ starts < MaxStarts /\ starts' = starts + 1
      BY DEF Inv, TypeOK
    <3> QED
      BY ONLY <3>1, PortsAssumption
  <2>2. KEY_TO_PORT' \in [Keys -> Numbers \cup {None}] /\ Injective(KEY_TO_PORT)'
    BY NumberTypes DEF Inv, TypeOK, Injective
  <2>3. TypeOK'
    BY <2>1, <2>2 DEF Inv, TypeOK
  <2>4. ChainOfKey' /\ LndOfChain' /\ ClientHasChain' /\ NothingRuns'
    BY DEF Inv, ChainOfKey, LndOfChain, ClientHasChain, NothingRuns, Empty
  <2> QED
    BY <2>2, <2>3, <2>4 DEF Inv, Injective
<1>2. CASE Interrupt
  <2> USE <1>2 DEF Interrupt
  <2>1. TypeOK'
    BY NumberTypes DEF Inv, TypeOK
  <2>2. Injective(file)'
    BY NumberTypes DEF Injective
  <2> QED
    BY <2>1, <2>2 DEF Inv, Injective, ChainOfKey, LndOfChain, ClientHasChain, NothingRuns
<1>3. CASE Save
  BY <1>3, EndedInv DEF Save
<1>4. CASE Crash
  <2>1. truncated' \in BOOLEAN
    BY <1>4 DEF Crash, Inv, TypeOK
  <2> QED
    BY <1>4, <2>1, EndedInv DEF Crash
<1> QED
  BY <1>1, <1>2, <1>3, <1>4

-----------------------------------------------------------------------------
(* get. *)

\* What the end of get, or a failed assertion, does to the clients.
ClientType ==
  /\ at \in [Clients -> {"away", "closed", "cert", "served", "refused", "no macaroon",
                         "cancelled"}]
  /\ pair \in [Clients -> Numbers \cup {None}]
  /\ streams \in [Keys -> Nat]

OthersStay(c) == \A d \in Clients \ {c} : at'[d] = at[d] /\ pair'[d] = pair[d]

LEMMA SuppliedStep ==
  ASSUME ClientType, NEW c \in Clients, NEW p \in Numbers, Supplied(c, p)
  PROVE  /\ at' \in [Clients -> {"away", "closed", "cert", "served", "refused", "no macaroon",
                                 "cancelled"}]
         /\ pair' \in [Clients -> Numbers \cup {None}]
         /\ OthersStay(c)
         /\ at'[c] = "served" /\ pair'[c] = p
  BY DEF ClientType, Supplied, OthersStay

LEMMA ReadFilesStep ==
  ASSUME ClientType, NEW c \in Clients, NEW k \in Keys, NEW p \in Numbers, ReadFiles(c, k, p)
  PROVE  /\ ClientType'
         /\ OthersStay(c)
         /\ at'[c] = "served" => pair'[c] = p
<1>1. CASE k \notin cert
  BY <1>1 DEF ReadFiles, ClientType, OthersStay
<1>2. CASE k \in cert \ macaroon
  BY <1>2 DEF ReadFiles, ClientType, OthersStay
<1>3. CASE k \in cert \cap macaroon
  <2>1. Supplied(c, p) /\ streams' = [streams EXCEPT ![k] = @ + 1]
    BY <1>3 DEF ReadFiles
  <2>2. streams' \in [Keys -> Nat]
    <3>1. streams \in [Keys -> Nat] /\ streams[k] \in Nat
      BY DEF ClientType
    <3>2. streams[k] + 1 \in Nat /\ streams' = [streams EXCEPT ![k] = streams[k] + 1]
      BY <2>1, <3>1
    <3> QED
      BY ONLY <3>1, <3>2
  <2> QED
    BY <2>1, <2>2, SuppliedStep DEF ClientType
<1> QED
  BY <1>1, <1>2, <1>3

LEMMA NewChainInv ==
  ASSUME Inv, NEW c \in Clients, NEW k \in Keys, Get(c, k), NewChain(c, k)
  PROVE  Inv'
<1>1. /\ Up /\ at[c] = "away" /\ key' = [key EXCEPT ![c] = k]
      /\ UNCHANGED <<hub, starts, file, truncated, cert, macaroon, pubkeys, tries, peers>>
  BY DEF Get, diskVars
<1>2. PICK p \in Numbers :
         /\ \/ KEY_TO_PORT[k] = p /\ UNCHANGED currentOffset
            \/ KEY_TO_PORT[k] = None /\ Free(p) /\ currentOffset' = p
         /\ KEY_TO_PORT' = [KEY_TO_PORT EXCEPT ![k] = p]
         /\ MakeChain(c, k, p)
  BY DEF NewChain
<1>3. keysToOffset[k] = None
  BY DEF NewChain
<1>4. /\ KEY_TO_PORT' \in [Keys -> Numbers \cup {None}] /\ Injective(KEY_TO_PORT)'
      /\ KEY_TO_PORT'[k] = p /\ \A j \in Keys \ {k} : KEY_TO_PORT'[j] = KEY_TO_PORT[j]
  <2>1. KEY_TO_PORT[k] = p \/ p \notin Values(KEY_TO_PORT)
    BY <1>2 DEF Free
  <2>2. KEY_TO_PORT \in [Keys -> Numbers \cup {None}] /\ Injective(KEY_TO_PORT)
    BY DEF Inv, TypeOK
  <2>3. /\ [KEY_TO_PORT EXCEPT ![k] = p] \in [Keys -> Numbers \cup {None}]
        /\ Injective([KEY_TO_PORT EXCEPT ![k] = p])
    BY <2>1, <2>2, NumberGiven
  <2>4. KEY_TO_PORT' = [KEY_TO_PORT EXCEPT ![k] = p]
    BY <1>2
  <2> QED
    BY <2>2, <2>3, <2>4 DEF Injective
<1>5. currentOffset' \in Numbers /\ key' \in [Clients -> Keys]
  BY <1>1, <1>2 DEF Inv, TypeOK
<1>6. key'[c] = k /\ \A d \in Clients \ {c} : key'[d] = key[d]
  BY <1>1 DEF Inv, TypeOK
<1>7. assoc' = assoc \cup {p}
  BY <1>2 DEF MakeChain
<1>8. ClientType
  BY DEF Inv, TypeOK, ClientType
<1>9. CASE Refuse(c)
  <2>1. /\ at' = [at EXCEPT ![c] = "refused"]
        /\ UNCHANGED <<keysToOffset, pair, streams, lnd, todo>>
    BY <1>9 DEF Refuse
  <2>2. TypeOK'
    BY <1>1, <1>4, <1>5, <1>7, <2>1 DEF Inv, TypeOK
  <2>3. ChainOfKey' /\ LndOfChain'
    BY <1>3, <1>4, <1>7, <2>1 DEF Inv, ChainOfKey, LndOfChain
  <2>4. ClientHasChain'
    BY <1>6, <2>1 DEF Inv, ClientHasChain, TypeOK
  <2>5. NothingRuns'
    BY <1>1 DEF NothingRuns, Up
  <2> QED
    BY <1>1, <1>4, <2>2, <2>3, <2>4, <2>5 DEF Inv, Injective
<1>10. CASE /\ p \notin assoc /\ p <= Highest
            /\ keysToOffset' = [keysToOffset EXCEPT ![k] = p]
            /\ lnd' = [lnd EXCEPT ![k] = "starting"]
            /\ todo' = [todo EXCEPT ![k] = pubkeys]
            /\ ReadFiles(c, k, p)
  <2>1. ClientType' /\ OthersStay(c) /\ (at'[c] = "served" => pair'[c] = p)
    BY <1>8, <1>10, ReadFilesStep
  <2>2. /\ keysToOffset' \in [Keys -> Numbers \cup {None}] /\ keysToOffset'[k] = p
        /\ \A j \in Keys \ {k} : keysToOffset'[j] = keysToOffset[j]
    BY <1>10 DEF Inv, TypeOK
  <2>3. TypeOK'
    <3>1. lnd' \in [Keys -> {"none", "starting", "serving"}]
      BY <1>10 DEF Inv, TypeOK
    <3>2. todo' \in [Keys -> SUBSET Numbers]
      BY <1>10 DEF Inv, TypeOK
    <3> QED
      BY <1>1, <1>4, <1>5, <1>7, <2>1, <2>2, <3>1, <3>2 DEF Inv, TypeOK, ClientType
  <2>4. ChainOfKey' /\ LndOfChain'
    <3>1. \A j \in Keys \ {k} : lnd'[j] = lnd[j]
      BY <1>10 DEF Inv, TypeOK
    <3> QED
      BY <1>4, <1>7, <1>10, <2>2, <3>1, NumberTypes DEF Inv, ChainOfKey, LndOfChain
  <2>5. ClientHasChain'
    <3> SUFFICES ASSUME NEW d \in Clients
                 PROVE  /\ at'[d] = "served" => /\ keysToOffset'[key'[d]] # None
                                                /\ pair'[d] = keysToOffset'[key'[d]]
                        /\ at'[d] = "cert" => keysToOffset'[key'[d]] # None
      BY DEF ClientHasChain
    <3>1. CASE d = c
      BY <1>6, <2>1, <2>2, <3>1, NumberTypes
    <3>2. CASE d # c
      <4>1. at'[d] = at[d] /\ pair'[d] = pair[d] /\ key'[d] = key[d] /\ key[d] \in Keys
        BY <1>6, <2>1, <3>2 DEF OthersStay, Inv, TypeOK
      <4> QED
        BY <1>3, <2>2, <4>1 DEF Inv, ClientHasChain
    <3> QED
      BY <3>1, <3>2
  <2>6. NothingRuns'
    BY <1>1 DEF NothingRuns, Up
  <2> QED
    BY <1>1, <1>4, <2>3, <2>4, <2>5, <2>6 DEF Inv, Injective
<1> QED
  BY <1>2, <1>9, <1>10 DEF MakeChain

LEMMA OldChainInv ==
  ASSUME Inv, NEW c \in Clients, NEW k \in Keys, Get(c, k), OldChain(c, k)
  PROVE  Inv'
<1>1. /\ Up /\ key' = [key EXCEPT ![c] = k]
      /\ keysToOffset[k] # None /\ Supplied(c, keysToOffset[k])
      /\ UNCHANGED <<hub, starts, diskVars, supplyVars, streams, lnd, peerVars>>
  BY DEF Get, OldChain, peerVars
<1>2. ClientType /\ keysToOffset[k] \in Numbers
  BY <1>1 DEF Inv, TypeOK, ClientType
<1>3. /\ at' \in [Clients -> {"away", "closed", "cert", "served", "refused", "no macaroon",
                              "cancelled"}]
      /\ pair' \in [Clients -> Numbers \cup {None}]
      /\ OthersStay(c) /\ at'[c] = "served" /\ pair'[c] = keysToOffset[k]
  BY <1>1, <1>2, SuppliedStep
<1>4. /\ key' \in [Clients -> Keys] /\ key'[c] = k
      /\ \A d \in Clients \ {c} : key'[d] = key[d]
  BY <1>1 DEF Inv, TypeOK
<1>5. TypeOK'
  BY <1>1, <1>3, <1>4 DEF Inv, TypeOK, diskVars, supplyVars, peerVars
<1>6. ClientHasChain'
  BY <1>1, <1>3, <1>4, ZenonT(60) DEF Inv, ClientHasChain, OthersStay, supplyVars
<1> QED
  BY <1>1, <1>5, <1>6 DEF Inv, Injective, ChainOfKey, LndOfChain, NothingRuns, Up, supplyVars, diskVars

\* A client moves, or a file or a peer is added: the numbers stay.
LEMMA ClientInv ==
  ASSUME Inv, NEW c \in Clients, Connect(c) \/ BadGreeting(c) \/ Wake(c) \/ Cancel(c)
  PROVE  Inv'
<1> USE DEF diskVars, supplyVars, peerVars
<1>1. ASSUME NEW k \in Keys, Get(c, k) PROVE Inv'
  BY <1>1, NewChainInv, OldChainInv DEF Get
<1>2. CASE Connect(c)
  BY <1>1, <1>2, PortsAssumption, FirstValues DEF Connect
<1>3. ASSUME NEW w \in {"closed", "cancelled"}, Up, at' = [at EXCEPT ![c] = w],
             UNCHANGED <<hub, starts, diskVars, supplyVars, key, pair, streams, lnd, peerVars>>
      PROVE  Inv'
  <2>1. TypeOK'
    BY <1>3 DEF Inv, TypeOK
  <2>2. ClientHasChain'
    BY <1>3 DEF Inv, ClientHasChain, TypeOK
  <2> QED
    BY <1>3, <2>1, <2>2 DEF Inv, Injective, ChainOfKey, LndOfChain, NothingRuns, Up
<1>4. CASE BadGreeting(c)
  BY <1>3, <1>4 DEF BadGreeting
<1>5. CASE Cancel(c)
  BY <1>3, <1>5 DEF Cancel
<1>6. CASE Wake(c)
  <2> DEFINE p == keysToOffset[key[c]]
  <2>1. /\ Up /\ at[c] = "cert" /\ ReadFiles(c, key[c], p)
        /\ UNCHANGED <<hub, starts, diskVars, supplyVars, key, lnd, peerVars>>
    BY <1>6 DEF Wake
  <2>2. ClientType /\ key[c] \in Keys /\ p \in Numbers /\ p # None
    BY <2>1 DEF Inv, TypeOK, ClientType, ClientHasChain
  <2>3. ClientType' /\ OthersStay(c) /\ (at'[c] = "served" => pair'[c] = p)
    BY <2>1, <2>2, ReadFilesStep
  <2>4. TypeOK'
    BY <2>1, <2>3 DEF Inv, TypeOK, ClientType
  <2>5. ClientHasChain'
    BY <2>1, <2>2, <2>3 DEF Inv, ClientHasChain, OthersStay
  <2> QED
    BY <2>1, <2>4, <2>5 DEF Inv, Injective, ChainOfKey, LndOfChain, NothingRuns, Up
<1> QED
  BY <1>2, <1>4, <1>5, <1>6

LEMMA LndInv ==
  ASSUME Inv, NEW k \in Keys, Lnd(k) \/ GetInfo(k) \/ ConnectPeer(k) \/ ConnectFails(k)
  PROVE  Inv'
<1> USE DEF diskVars, supplyVars, clientVars, peerVars
<1>1. UNCHANGED <<hub, starts, file, truncated, KEY_TO_PORT, currentOffset, keysToOffset, assoc,
                  at, key, pair, streams>>
  BY DEF Lnd, MakeCert, MakeMacaroon, LndServes, GetInfo, ConnectPeer, ConnectFails
<1>2. cert' \subseteq Keys /\ macaroon' \subseteq cert'
  BY DEF Lnd, MakeCert, MakeMacaroon, LndServes, GetInfo, ConnectPeer, ConnectFails, Inv, TypeOK
<1>3. lnd' \in [Keys -> {"none", "starting", "serving"}]
  BY DEF Lnd, MakeCert, MakeMacaroon, LndServes, GetInfo, ConnectPeer, ConnectFails, Inv, TypeOK
<1>4. pubkeys' \subseteq Numbers
  <2>1. CASE GetInfo(k)
    <3>1. lnd[k] = "serving" /\ pubkeys' = pubkeys \cup {keysToOffset[k]}
      BY <2>1 DEF GetInfo
    <3>2. keysToOffset[k] # None
      BY <3>1 DEF Inv, LndOfChain
    <3> QED
      BY <3>1, <3>2 DEF Inv, TypeOK
  <2>2. CASE ~GetInfo(k)
    BY <2>2 DEF Lnd, MakeCert, MakeMacaroon, LndServes, ConnectPeer, ConnectFails, Inv, TypeOK
  <2> QED
    BY <2>1, <2>2
<1>5. /\ todo' \in [Keys -> SUBSET Numbers] /\ peers' \in [Keys -> SUBSET Numbers]
      /\ tries' \in [Keys -> 0 .. MaxAttempts - 1]
  <2>1. CASE UNCHANGED <<todo, peers, tries>>
    BY <2>1 DEF Inv, TypeOK
  <2>2. ASSUME NEW p \in todo[k], todo' = todo \/ todo' = [todo EXCEPT ![k] = @ \ {p}],
               peers' = peers \/ peers' = [peers EXCEPT ![k] = @ \cup {p}],
               NEW t \in 0 .. MaxAttempts - 1, tries' = [tries EXCEPT ![k] = t]
        PROVE  /\ todo' \in [Keys -> SUBSET Numbers] /\ peers' \in [Keys -> SUBSET Numbers]
               /\ tries' \in [Keys -> 0 .. MaxAttempts - 1]
    <3>1. /\ todo \in [Keys -> SUBSET Numbers] /\ peers \in [Keys -> SUBSET Numbers]
          /\ tries \in [Keys -> 0 .. MaxAttempts - 1]
      BY DEF Inv, TypeOK
    <3>2. tries' \in [Keys -> 0 .. MaxAttempts - 1]
      BY ONLY <2>2, <3>1
    <3>3. todo[k] \in SUBSET Numbers /\ peers[k] \in SUBSET Numbers /\ p \in Numbers
      BY <3>1
    <3>4. todo' \in [Keys -> SUBSET Numbers]
      BY <2>2, <3>1, <3>3
    <3>5. peers' \in [Keys -> SUBSET Numbers]
      BY <2>2, <3>1, <3>3
    <3> QED
      BY <3>2, <3>4, <3>5
  <2>3. 0 \in 0 .. MaxAttempts - 1
    BY PortsAssumption
  <2>4. CASE ConnectPeer(k)
    BY <2>2, <2>3, <2>4 DEF ConnectPeer
  <2>5. CASE ConnectFails(k)
    <3>1. PICK p : p \in todo[k]
      BY <2>5 DEF ConnectFails
    <3>2. peers' = peers
      BY <2>5 DEF ConnectFails
    <3>3. CASE tries[k] + 1 < MaxAttempts /\ tries' = [tries EXCEPT ![k] = @ + 1] /\ todo' = todo
      <4>1. tries[k] \in 0 .. MaxAttempts - 1
        BY DEF Inv, TypeOK
      <4>2. tries[k] + 1 \in 0 .. MaxAttempts - 1
        BY <3>3, <4>1, PortsAssumption
      <4>3. tries' = [tries EXCEPT ![k] = tries[k] + 1]
        BY <3>3
      <4> QED
        BY <2>2, <3>1, <3>2, <3>3, <4>2, <4>3
    <3>4. CASE /\ tries' = [tries EXCEPT ![k] = 0]
               /\ \E q \in todo[k] : todo' = [todo EXCEPT ![k] = @ \ {q}]
      BY <2>2, <2>3, <3>2, <3>4
    <3> QED
      BY <2>5, <3>3, <3>4 DEF ConnectFails
  <2> QED
    BY <2>1, <2>4, <2>5 DEF Lnd, MakeCert, MakeMacaroon, LndServes, GetInfo
<1>6. TypeOK'
  BY <1>1, <1>2, <1>3, <1>4, <1>5 DEF Inv, TypeOK
<1>7. LndOfChain'
  <2>1. \A j \in Keys : lnd'[j] = lnd[j] \/ (j = k /\ lnd[k] = "starting")
    BY DEF Lnd, MakeCert, MakeMacaroon, LndServes, GetInfo, ConnectPeer, ConnectFails, Inv, TypeOK
  <2> QED
    BY <1>1, <2>1 DEF Inv, LndOfChain
<1> QED
  BY <1>1, <1>6, <1>7 DEF Inv, Injective, ChainOfKey, ClientHasChain, NothingRuns

LEMMA NextInv == Inv /\ [Next]_vars => Inv'
<1> SUFFICES ASSUME Inv, [Next]_vars PROVE Inv'
  OBVIOUS
<1>1. CASE UNCHANGED vars
  <2>1. UNCHANGED <<hub, starts, file, truncated, cert, macaroon, KEY_TO_PORT, currentOffset,
                    keysToOffset, assoc, at, key, pair, streams, lnd, pubkeys, todo, tries, peers>>
    BY <1>1 DEF vars, diskVars, supplyVars, clientVars, peerVars
  <2>2. TypeOK'
    BY <2>1 DEF Inv, TypeOK
  <2> QED
    BY <2>1, <2>2
    DEF Inv, Injective, ChainOfKey, LndOfChain, ClientHasChain, NothingRuns
<1>2. CASE Next
  BY <1>2, MainInv, ClientInv, LndInv DEF Next
<1> QED
  BY <1>1, <1>2

LEMMA Invariance == Spec => []Inv
  BY InitInv, NextInv, PTL DEF Spec

-----------------------------------------------------------------------------
(* The theorems. *)

\* The hub's tables, its callers, the lnds and key_to_port keep their types over
\* any interrupts, kills and restarts.
THEOREM SupplierTypeCorrect == Spec => []TypeOK
<1>1. Inv => TypeOK
  BY DEF Inv
<1> QED
  BY <1>1, Invariance, PTL

\* For any number of wallets, connections and restarts: clients have the same
\* queues if and only if they have the same key.
THEOREM WalletsStayIsolated == Spec => []WalletsIsolated
<1>1. Inv => WalletsIsolated
  <2> SUFFICES ASSUME Inv, NEW c \in Clients, NEW d \in Clients,
                      at[c] = "served", at[d] = "served"
               PROVE  /\ pair[c] \in assoc
                      /\ pair[c] = pair[d] <=> key[c] = key[d]
    BY DEF WalletsIsolated
  <2>1. /\ key[c] \in Keys /\ keysToOffset[key[c]] # None /\ pair[c] = keysToOffset[key[c]]
        /\ key[d] \in Keys /\ keysToOffset[key[d]] # None /\ pair[d] = keysToOffset[key[d]]
    BY DEF Inv, TypeOK, ClientHasChain
  <2>2. /\ pair[c] = KEY_TO_PORT[key[c]] /\ pair[d] = KEY_TO_PORT[key[d]]
        /\ pair[c] \in assoc /\ pair[c] # None
    BY <2>1 DEF Inv, ChainOfKey
  <2> QED
    BY <2>1, <2>2 DEF Inv, Injective
<1> QED
  BY <1>1, Invariance, PTL

LEMMA FiveElements ==
  ASSUME NEW a \in Nat, NEW b \in Nat, NEW c \in Nat, NEW d \in Nat, NEW e \in Nat,
         a # b, a # c, a # d, a # e, b # c, b # d, b # e, c # d, c # e, d # e
  PROVE  Cardinality({a, b, c, d, e}) = 5
<1>1. IsFiniteSet({a}) /\ Cardinality({a}) = 1
  BY FS_Singleton
<1>2. IsFiniteSet({a, b}) /\ Cardinality({a, b}) = 2
  <2>1. {a, b} = {a} \cup {b} /\ b \notin {a}
    OBVIOUS
  <2> QED
    BY <1>1, <2>1, FS_AddElement
<1>3. IsFiniteSet({a, b, c}) /\ Cardinality({a, b, c}) = 3
  <2>1. {a, b, c} = {a, b} \cup {c} /\ c \notin {a, b}
    OBVIOUS
  <2> QED
    BY <1>2, <2>1, FS_AddElement
<1>4. IsFiniteSet({a, b, c, d}) /\ Cardinality({a, b, c, d}) = 4
  <2>1. {a, b, c, d} = {a, b, c} \cup {d} /\ d \notin {a, b, c}
    OBVIOUS
  <2> QED
    BY <1>3, <2>1, FS_AddElement
<1> QED
  <2>1. {a, b, c, d, e} = {a, b, c, d} \cup {e} /\ e \notin {a, b, c, d}
    OBVIOUS
  <2> QED
    BY <1>4, <2>1, FS_AddElement

\* The servers of the hub and of all its lnds have ports of their own: nine is
\* the number of chains for which that is so, and make_chain starts no other.
THEOREM PortsStayDistinct == Spec => []PortsDistinct
<1>1. Inv => PortsDistinct
  <2> SUFFICES ASSUME Inv, NEW j \in Keys, NEW k \in Keys,
                      keysToOffset[j] # None, keysToOffset[k] # None
               PROVE  /\ Cardinality(ChainPorts(keysToOffset[j])) = 5
                      /\ ChainPorts(keysToOffset[j]) \cap HubPorts = {}
                      /\ j # k => ChainPorts(keysToOffset[j])
                                     \cap ChainPorts(keysToOffset[k]) = {}
    BY DEF PortsDistinct, Assigned
  <2> DEFINE p == keysToOffset[j]
             q == keysToOffset[k]
  <2>1. p \in Nat /\ p <= 8 /\ q \in Nat /\ q <= 8
    BY NumberTypes DEF Inv, TypeOK, ChainOfKey, Highest
  <2>2. j # k => p # q
    BY DEF Inv, ChainOfKey, Injective
  <2> HIDE DEF p, q
  <2>3. Cardinality(ChainPorts(p)) = 5
    <3> DEFINE a == 8432 + 5 * p
               b == 9090 + p
               c == 9735 + p
               d == 10009 + p
               e == 8081 + p
    <3>1. /\ a \in Nat /\ b \in Nat /\ c \in Nat /\ d \in Nat /\ e \in Nat
          /\ a # b /\ a # c /\ a # d /\ a # e
          /\ b # c /\ b # d /\ b # e
          /\ c # d /\ c # e
          /\ d # e
      BY <2>1
    <3>2. ChainPorts(p) = {a, b, c, d, e}
      BY DEF ChainPorts, ReversePort
    <3> HIDE DEF a, b, c, d, e
    <3> QED
      BY <3>1, <3>2, FiveElements
  <2>4. ChainPorts(p) \cap HubPorts = {}
    BY <2>1 DEF ChainPorts, ReversePort, HubPorts
  <2>5. p # q => ChainPorts(p) \cap ChainPorts(q) = {}
    BY <2>1 DEF ChainPorts, ReversePort
  <2> QED
    BY <2>2, <2>3, <2>4, <2>5 DEF p, q
<1> QED
  BY <1>1, Invariance, PTL

-----------------------------------------------------------------------------
(* The inductive invariants of the second part. *)

\* Below a number that a wallet has, all numbers are taken.
NoneSkipped(f) == \A k \in Keys : f[k] # None => 0 .. f[k] \subseteq Values(f)

\* get begins its search above numbers that are taken.
SearchedBelow == \A q \in Numbers : q < currentOffset => q \in Values(KEY_TO_PORT)

\* Queues are those of a chain, or of a wallet whose number is too high for one.
QueuesOfWallet ==
  \A p \in assoc : \E k \in Keys :
     KEY_TO_PORT[k] = p /\ (keysToOffset[k] = p \/ p > Highest)

\* A process that does not run has searched nothing and made no queues.
Fresh == hub \in {"down", "broken"} => currentOffset = 0 /\ assoc = {}

NumberInv ==
  /\ NoneSkipped(file)
  /\ NoneSkipped(KEY_TO_PORT)
  /\ SearchedBelow
  /\ QueuesOfWallet
  /\ Fresh
  /\ RefusedOnlyIfFull

\* The calls of get that are yet to start the task for the invoices of k, or that
\* failed before they did.
Responsible(k) == {c \in Clients : key[c] = k /\ at[c] \in {"cert", "no macaroon", "cancelled"}}

StreamInv ==
  \A k \in Keys :
     \/ keysToOffset[k] = None /\ streams[k] = 0 /\ Responsible(k) = {}
     \/ keysToOffset[k] # None /\ streams[k] = 1 /\ Responsible(k) = {}
     \/ keysToOffset[k] # None /\ streams[k] = 0 /\ \E c \in Clients : Responsible(k) = {c}

\* Only numbers of chains are known or connected to, and only by chains.
PeerInv ==
  /\ pubkeys \subseteq Values(keysToOffset)
  /\ \A k \in Keys : /\ todo[k] \cup peers[k] \subseteq Values(keysToOffset)
                     /\ keysToOffset[k] = None => todo[k] \cup peers[k] = {}
  /\ PeersOnce

\* Without kills and simnet, key_to_port is never found empty.
NotBroken == hub # "broken" /\ (truncated => hub = "saving")

-----------------------------------------------------------------------------
(* What the steps do. *)

\* get of a key without a chain gives it number p.
Numbered(k, p) ==
  /\ \/ KEY_TO_PORT[k] = p /\ UNCHANGED currentOffset
     \/ KEY_TO_PORT[k] = None /\ Free(p) /\ currentOffset' = p
  /\ KEY_TO_PORT' = [KEY_TO_PORT EXCEPT ![k] = p]

\* The number is too high, or its queues exist.
Refused(c, k, p) ==
  /\ p \in assoc \/ p > Highest
  /\ at' = [at EXCEPT ![c] = "refused"]
  /\ UNCHANGED <<keysToOffset, streams, todo>>

\* A chain is made.
Chained(c, k, p) ==
  /\ p \notin assoc /\ p <= Highest
  /\ keysToOffset' = [keysToOffset EXCEPT ![k] = p]
  /\ todo' = [todo EXCEPT ![k] = pubkeys]
  /\ ReadFiles(c, k, p)

NewNumber(c, k, p) ==
  /\ Up /\ at[c] = "away" /\ keysToOffset[k] = None
  /\ key' = [key EXCEPT ![c] = k]
  /\ Numbered(k, p)
  /\ assoc' = assoc \cup {p}
  /\ Refused(c, k, p) \/ Chained(c, k, p)
  /\ UNCHANGED <<hub, file, truncated, pubkeys, peers>>

\* A step that leaves the numbers alone: at most client c moves, to where nobody is
\* refused, and with another key only when it begins.
Quiet ==
  /\ UNCHANGED <<hub, file, truncated, KEY_TO_PORT, currentOffset, keysToOffset, assoc>>
  /\ \A d \in Clients : at'[d] = "refused" => at[d] = "refused" /\ key'[d] = key[d]

LEMMA NewChainStep ==
  ASSUME NEW c \in Clients, NEW k \in Keys, Get(c, k), NewChain(c, k)
  PROVE  \E p \in Numbers : NewNumber(c, k, p)
<1>1. PICK p \in Numbers :
         /\ \/ KEY_TO_PORT[k] = p /\ UNCHANGED currentOffset
            \/ KEY_TO_PORT[k] = None /\ Free(p) /\ currentOffset' = p
         /\ KEY_TO_PORT' = [KEY_TO_PORT EXCEPT ![k] = p]
         /\ MakeChain(c, k, p)
  BY DEF NewChain
<1>2. Refused(c, k, p) \/ Chained(c, k, p)
  BY <1>1 DEF MakeChain, Refuse, Refused, Chained
<1>3. assoc' = assoc \cup {p}
  BY <1>1 DEF MakeChain
<1>4. keysToOffset[k] = None
  BY DEF NewChain
<1>5. NewNumber(c, k, p)
  BY <1>1, <1>2, <1>3, <1>4 DEF NewNumber, Numbered, Get, diskVars
<1> QED
  BY <1>5

LEMMA KeyOfConnect ==
  ASSUME NEW c \in Clients, Connect(c)
  PROVE  \E k \in Keys : Get(c, k)
  BY PortsAssumption DEF Connect

\* The steps of a running hub, of the lnds and of the clients.
LEMMA RunningSteps ==
  ASSUME Inv, Next
  PROVE  \/ \E simnet \in Modes : Start(simnet)
         \/ Interrupt
         \/ Save
         \/ Crash
         \/ \E c \in Clients, k \in Keys, p \in Numbers : NewNumber(c, k, p)
         \/ \E c \in Clients, k \in Keys : Get(c, k) /\ OldChain(c, k)
         \/ \E c \in Clients : BadGreeting(c) \/ Wake(c) \/ Cancel(c)
         \/ \E k \in Keys : Lnd(k) \/ GetInfo(k) \/ ConnectPeer(k) \/ ConnectFails(k)
<1>1. ASSUME NEW c \in Clients, Connect(c)
      PROVE  \/ \E k \in Keys, p \in Numbers : NewNumber(c, k, p)
             \/ \E k \in Keys : Get(c, k) /\ OldChain(c, k)
  <2>1. PICK k \in Keys : Get(c, k)
    BY <1>1, KeyOfConnect
  <2>2. CASE NewChain(c, k)
    BY <2>1, <2>2, NewChainStep
  <2>3. CASE OldChain(c, k)
    BY <2>1, <2>3
  <2> QED
    BY <2>1, <2>2, <2>3 DEF Get
<1> QED
  BY <1>1 DEF Next

\* ReadFiles refuses nobody.
LEMMA FilesRefuseNobody ==
  ASSUME ClientType, NEW c \in Clients, NEW k \in Keys, NEW p \in Numbers, ReadFiles(c, k, p)
  PROVE  at'[c] # "refused"
  BY DEF ReadFiles, Supplied, ClientType

LEMMA QuietSteps ==
  ASSUME Inv,
         \/ \E c \in Clients, k \in Keys : Get(c, k) /\ OldChain(c, k)
         \/ \E c \in Clients : BadGreeting(c) \/ Wake(c) \/ Cancel(c)
         \/ \E k \in Keys : Lnd(k) \/ GetInfo(k) \/ ConnectPeer(k) \/ ConnectFails(k)
  PROVE  Quiet
<1> USE DEF diskVars, supplyVars, clientVars, peerVars
<1>1. ASSUME NEW c \in Clients, NEW k \in Keys, Get(c, k), OldChain(c, k) PROVE Quiet
  <2>1. at' = [at EXCEPT ![c] = "served"] /\ key' = [key EXCEPT ![c] = k]
    BY <1>1 DEF Get, OldChain, Supplied
  <2> QED
    BY <1>1, <2>1 DEF Get, OldChain, Quiet, Inv, TypeOK
<1>2. ASSUME NEW c \in Clients, BadGreeting(c) \/ Cancel(c) PROVE Quiet
  BY <1>2 DEF BadGreeting, Cancel, Quiet, Inv, TypeOK
<1>3. ASSUME NEW c \in Clients, Wake(c) PROVE Quiet
  <2>1. /\ ReadFiles(c, key[c], keysToOffset[key[c]])
        /\ UNCHANGED <<hub, starts, diskVars, supplyVars, key, lnd, peerVars>> /\ at[c] = "cert"
    BY <1>3 DEF Wake
  <2>2. ClientType /\ key[c] \in Keys /\ keysToOffset[key[c]] \in Numbers
    BY <2>1 DEF Inv, TypeOK, ClientType, ClientHasChain
  <2>3. at'[c] # "refused" /\ OthersStay(c)
    BY <2>1, <2>2, ReadFilesStep, FilesRefuseNobody
  <2> QED
    BY <2>1, <2>3 DEF Quiet, OthersStay
<1>4. ASSUME NEW k \in Keys, Lnd(k) \/ GetInfo(k) \/ ConnectPeer(k) \/ ConnectFails(k)
      PROVE  Quiet
  <2>1. UNCHANGED <<hub, file, truncated, KEY_TO_PORT, currentOffset, keysToOffset, assoc, at, key>>
    BY <1>4 DEF Lnd, MakeCert, MakeMacaroon, LndServes, GetInfo, ConnectPeer, ConnectFails
  <2> QED
    BY <2>1 DEF Quiet
<1> QED
  BY <1>1, <1>2, <1>3, <1>4

-----------------------------------------------------------------------------
(* No number is wasted. *)

LEMMA EmptySkipsNone == NoneSkipped(Empty)
  BY DEF NoneSkipped, Empty

LEMMA SavedSkipsNone ==
  ASSUME NEW f \in Saved
  PROVE  NoneSkipped(f)
  BY SavedAssumption DEF NoneSkipped, Assigned

LEMMA InitNumberInv == Init => NumberInv
<1> SUFFICES ASSUME Init PROVE NumberInv
  OBVIOUS
<1>1. NoneSkipped(file) /\ NoneSkipped(KEY_TO_PORT)
  BY SavedSkipsNone, EmptySkipsNone DEF Init
<1>2. SearchedBelow
  BY NumberTypes DEF Init, SearchedBelow
<1> QED
  BY <1>1, <1>2 DEF Init, NumberInv, QueuesOfWallet, Fresh, RefusedOnlyIfFull

\* Nothing of a process is left when it ends.
LEMMA EndedNumberInv ==
  ASSUME Inv, NumberInv, Ended, file' = file \/ file' = KEY_TO_PORT
  PROVE  NumberInv'
<1>1. NoneSkipped(file)'
  BY DEF NumberInv, NoneSkipped, Values, Assigned
<1>2. NoneSkipped(KEY_TO_PORT)'
  BY EmptySkipsNone DEF Ended, NoneSkipped, Values, Assigned
<1>3. SearchedBelow'
  BY NumberTypes DEF Ended, SearchedBelow
<1> QED
  BY <1>1, <1>2, <1>3 DEF Ended, NumberInv, QueuesOfWallet, Fresh, RefusedOnlyIfFull

LEMMA StartNumberInv ==
  ASSUME Inv, NumberInv, NEW simnet \in Modes, Start(simnet)
  PROVE  NumberInv'
<1> USE DEF diskVars, supplyVars, clientVars, peerVars
<1>1. /\ hub \in {"down", "broken"} /\ KEY_TO_PORT' \in {Empty, file}
      /\ UNCHANGED <<file, currentOffset, keysToOffset, assoc, at, key>>
  BY DEF Start
<1>2. currentOffset' = 0 /\ assoc' = {} /\ \A c \in Clients : at'[c] = "away"
  BY <1>1 DEF Inv, NothingRuns, NumberInv, Fresh
<1>3. NoneSkipped(file)'
  BY <1>1 DEF NumberInv, NoneSkipped, Values, Assigned
<1>4. NoneSkipped(KEY_TO_PORT)'
  BY <1>1, EmptySkipsNone DEF NumberInv, NoneSkipped, Values, Assigned
<1>5. SearchedBelow'
  BY <1>2, NumberTypes DEF SearchedBelow
<1> QED
  BY <1>2, <1>3, <1>4, <1>5 DEF NumberInv, QueuesOfWallet, Fresh, RefusedOnlyIfFull

\* A wallet gets a number: below it all are taken.
LEMMA NumberedStep ==
  ASSUME Inv, NumberInv, NEW k \in Keys, NEW p \in Numbers, Numbered(k, p)
  PROVE  /\ KEY_TO_PORT'[k] = p /\ \A j \in Keys \ {k} : KEY_TO_PORT'[j] = KEY_TO_PORT[j]
         /\ \A j \in Keys : KEY_TO_PORT[j] # None => KEY_TO_PORT'[j] = KEY_TO_PORT[j]
         /\ Values(KEY_TO_PORT)' = Values(KEY_TO_PORT) \cup {p}
         /\ 0 .. p \subseteq Values(KEY_TO_PORT)'
         /\ NoneSkipped(KEY_TO_PORT)' /\ SearchedBelow'
<1> DEFINE f == KEY_TO_PORT
           g == KEY_TO_PORT'
<1>1. f \in [Keys -> Numbers \cup {None}] /\ currentOffset \in Numbers
  BY DEF Inv, TypeOK
<1>2. g = [f EXCEPT ![k] = p]
  BY DEF Numbered
<1>3. g \in [Keys -> Numbers \cup {None}] /\ g[k] = p /\ \A j \in Keys \ {k} : g[j] = f[j]
  BY <1>1, <1>2
<1>4. \A j \in Keys : f[j] # None => g[j] = f[j]
  BY <1>3 DEF Numbered
<1>5. p # None
  BY NumberTypes
<1>6. Values(g) = Values(f) \cup {p}
  BY <1>3, <1>4, <1>5 DEF Values, Assigned
<1>7. 0 .. p \subseteq Values(g)
  <2>1. CASE f[k] = p
    BY <2>1, <1>5, <1>6 DEF NumberInv, NoneSkipped
  <2>2. CASE f[k] = None /\ Free(p)
    <3> SUFFICES ASSUME NEW q \in 0 .. p, q # p PROVE q \in Values(f)
      BY <1>6
    <3>1. p \in 0 .. Cardinality(Keys) /\ Cardinality(Keys) \in Nat
      BY PortsAssumption, FS_CardinalityType DEF Numbers
    <3>2. q \in Numbers /\ q < p
      BY <3>1 DEF Numbers
    <3>3. CASE q < currentOffset
      BY <3>2, <3>3 DEF NumberInv, SearchedBelow
    <3>4. CASE ~(q < currentOffset)
      <4>1. q >= currentOffset
        BY <3>2, <3>4, <1>1, NumberTypes
      <4> QED
        BY <2>2, <3>2, <4>1 DEF Free
    <3> QED
      BY <3>3, <3>4
  <2> QED
    BY <2>1, <2>2 DEF Numbered
<1>8. NoneSkipped(g)
  <2> SUFFICES ASSUME NEW j \in Keys, g[j] # None PROVE 0 .. g[j] \subseteq Values(g)
    BY DEF NoneSkipped
  <2>1. CASE j = k
    BY <2>1, <1>3, <1>7
  <2>2. CASE j # k
    BY <2>2, <1>3, <1>6 DEF NumberInv, NoneSkipped
  <2> QED
    BY <2>1, <2>2
<1>9. SearchedBelow'
  <2> SUFFICES ASSUME NEW q \in Numbers, q < currentOffset' PROVE q \in Values(g)
    BY DEF SearchedBelow, Values, Assigned
  <2>1. CASE currentOffset' = currentOffset
    BY <2>1, <1>6 DEF NumberInv, SearchedBelow
  <2>2. CASE currentOffset' = p
    BY <2>2, <1>7, NumberTypes
  <2> QED
    BY <2>1, <2>2 DEF Numbered
<1>10. Values(KEY_TO_PORT)' = Values(g) /\ (NoneSkipped(KEY_TO_PORT)' <=> NoneSkipped(g))
  BY DEF Values, Assigned, NoneSkipped
<1> QED
  BY <1>3, <1>4, <1>6, <1>7, <1>8, <1>9, <1>10

\* Who is refused has a number that is too high.
LEMMA RefusedTooHigh ==
  ASSUME Inv, NumberInv, NEW c \in Clients, NEW k \in Keys, NEW p \in Numbers,
         keysToOffset[k] = None, Numbered(k, p), Refused(c, k, p)
  PROVE  p > Highest
<1> SUFFICES ASSUME p \in assoc PROVE p > Highest
  BY DEF Refused
<1>1. PICK j \in Keys : KEY_TO_PORT[j] = p /\ (keysToOffset[j] = p \/ p > Highest)
  BY DEF NumberInv, QueuesOfWallet
<1>2. p # None
  BY NumberTypes
<1>3. p \in Values(KEY_TO_PORT)
  BY <1>1, <1>2 DEF Values, Assigned
<1>4. KEY_TO_PORT[k] = p
  BY <1>3 DEF Numbered, Free
<1>5. j = k
  BY <1>1, <1>2, <1>4 DEF Inv, Injective
<1> QED
  BY <1>1, <1>2, <1>5

LEMMA NewNumberInv ==
  ASSUME Inv, NumberInv, NEW c \in Clients, NEW k \in Keys, NEW p \in Numbers,
         NewNumber(c, k, p)
  PROVE  NumberInv'
<1> DEFINE g == KEY_TO_PORT'
<1>1. /\ keysToOffset[k] = None /\ at[c] = "away" /\ Numbered(k, p) /\ hub = "up" /\ hub' = "up"
      /\ key' = [key EXCEPT ![c] = k] /\ assoc' = assoc \cup {p} /\ file' = file
  BY DEF NewNumber, Up
<1>2. /\ g[k] = p /\ \A j \in Keys : KEY_TO_PORT[j] # None => g[j] = KEY_TO_PORT[j]
      /\ 0 .. p \subseteq Values(KEY_TO_PORT)' /\ NoneSkipped(KEY_TO_PORT)' /\ SearchedBelow'
  BY <1>1, NumberedStep
<1>3. p # None /\ p \in Nat
  BY NumberTypes
<1>4. /\ keysToOffset \in [Keys -> Numbers \cup {None}]
      /\ key' \in [Clients -> Keys] /\ key'[c] = k /\ \A d \in Clients \ {c} : key'[d] = key[d]
  BY <1>1 DEF Inv, TypeOK
<1>5. Refused(c, k, p) \/ Chained(c, k, p)
  BY DEF NewNumber
<1>6. \A j \in Keys : keysToOffset[j] # None => keysToOffset'[j] = keysToOffset[j]
  BY <1>1, <1>4, <1>5 DEF Refused, Chained
<1>7. p > Highest \/ keysToOffset'[k] = p
  <2>1. CASE Refused(c, k, p)
    BY <1>1, <2>1, RefusedTooHigh
  <2>2. CASE Chained(c, k, p)
    BY <1>4, <2>2 DEF Chained
  <2> QED
    BY <1>5, <2>1, <2>2
<1>8. QueuesOfWallet'
  <2> SUFFICES ASSUME NEW q \in assoc'
               PROVE  \E j \in Keys : g[j] = q /\ (keysToOffset'[j] = q \/ q > Highest)
    BY DEF QueuesOfWallet
  <2>1. CASE q = p
    BY <2>1, <1>2, <1>7
  <2>2. CASE q \in assoc
    <3>1. PICK j \in Keys : KEY_TO_PORT[j] = q /\ (keysToOffset[j] = q \/ q > Highest)
      BY <2>2 DEF NumberInv, QueuesOfWallet
    <3>2. q # None
      BY <2>2, NumberTypes DEF Inv, TypeOK
    <3>3. g[j] = q
      BY <1>2, <3>1, <3>2
    <3>4. keysToOffset'[j] = q \/ q > Highest
      BY <1>6, <3>1, <3>2
    <3> QED
      BY <3>3, <3>4
  <2> QED
    BY <1>1, <2>1, <2>2
<1>9. RefusedOnlyIfFull'
  <2> SUFFICES ASSUME NEW d \in Clients, at'[d] = "refused", NEW q \in 0 .. Highest
               PROVE  \E j \in Keys \ {key'[d]} : g[j] = q
    BY DEF RefusedOnlyIfFull
  <2>1. q # None /\ q \in Nat
    BY DEF Highest, None
  <2>2. ClientType
    BY DEF Inv, TypeOK, ClientType
  <2>3. CASE d = c
    <3>1. Refused(c, k, p)
      BY <1>5, <2>2, <2>3, FilesRefuseNobody DEF Chained
    <3>2. p > Highest
      BY <1>1, <3>1, RefusedTooHigh
    <3>3. q \in 0 .. p /\ q # p
      BY <3>2, <2>1, <1>3 DEF Highest
    <3>4. PICK j \in Keys : g[j] = q
      BY <1>2, <3>3 DEF Values, Assigned
    <3> QED
      BY <1>2, <1>4, <2>3, <3>3, <3>4
  <2>4. CASE d # c
    <3>1. at[d] = "refused" /\ key'[d] = key[d]
      <4>1. CASE Refused(c, k, p)
        BY <1>4, <2>2, <2>4, <4>1 DEF Refused, ClientType
      <4>2. CASE Chained(c, k, p)
        <5>1. OthersStay(c)
          BY <2>2, <4>2, ReadFilesStep DEF Chained
        <5> QED
          BY <1>4, <2>4, <5>1 DEF OthersStay
      <4> QED
        BY <1>5, <4>1, <4>2
    <3>2. PICK j \in Keys \ {key[d]} : KEY_TO_PORT[j] = q
      BY <3>1 DEF NumberInv, RefusedOnlyIfFull
    <3>3. g[j] = q
      BY <1>2, <2>1, <3>2
    <3> QED
      BY <3>1, <3>2, <3>3
  <2> QED
    BY <2>3, <2>4
<1>10. NoneSkipped(file)' /\ Fresh'
  BY <1>1 DEF NumberInv, NoneSkipped, Values, Assigned, Fresh
<1> QED
  BY <1>2, <1>8, <1>9, <1>10 DEF NumberInv

LEMMA QuietNumberInv ==
  ASSUME Inv, NumberInv, Quiet
  PROVE  NumberInv'
<1>1. RefusedOnlyIfFull'
  <2> SUFFICES ASSUME NEW d \in Clients, at'[d] = "refused"
               PROVE  0 .. Highest \subseteq {KEY_TO_PORT'[j] : j \in Keys \ {key'[d]}}
    BY DEF RefusedOnlyIfFull
  <2>1. at[d] = "refused" /\ key'[d] = key[d] /\ KEY_TO_PORT' = KEY_TO_PORT
    BY DEF Quiet
  <2> QED
    BY <2>1 DEF NumberInv, RefusedOnlyIfFull
<1>2. NoneSkipped(file)' /\ NoneSkipped(KEY_TO_PORT)' /\ SearchedBelow'
  BY DEF Quiet, NumberInv, NoneSkipped, SearchedBelow, Values, Assigned
<1> QED
  BY <1>1, <1>2 DEF Quiet, NumberInv, QueuesOfWallet, Fresh

LEMMA NextNumberInv == Inv /\ NumberInv /\ [Next]_vars => NumberInv'
<1> SUFFICES ASSUME Inv, NumberInv, [Next]_vars PROVE NumberInv'
  OBVIOUS
<1> USE DEF diskVars, supplyVars, clientVars, peerVars
<1>1. CASE UNCHANGED vars
  <2>1. Quiet
    BY <1>1 DEF vars, Quiet
  <2> QED
    BY <2>1, QuietNumberInv
<1>2. CASE Interrupt
  <2>1. /\ file' = Empty /\ hub' = "saving"
        /\ UNCHANGED <<KEY_TO_PORT, currentOffset, keysToOffset, assoc, at, key>>
    BY <1>2 DEF Interrupt
  <2>2. NoneSkipped(file)'
    BY <2>1, EmptySkipsNone DEF NoneSkipped, Values, Assigned
  <2>3. NoneSkipped(KEY_TO_PORT)' /\ SearchedBelow'
    BY <2>1 DEF NumberInv, NoneSkipped, SearchedBelow, Values, Assigned
  <2> QED
    BY <2>1, <2>2, <2>3 DEF NumberInv, QueuesOfWallet, Fresh, RefusedOnlyIfFull
<1>3. CASE Save \/ Crash
  BY <1>3, EndedNumberInv DEF Save, Crash
<1>4. ASSUME NEW simnet \in Modes, Start(simnet) PROVE NumberInv'
  BY <1>4, StartNumberInv
<1>5. ASSUME NEW c \in Clients, NEW k \in Keys, NEW p \in Numbers, NewNumber(c, k, p)
      PROVE  NumberInv'
  BY <1>5, NewNumberInv
<1> QED
  BY <1>1, <1>2, <1>3, <1>4, <1>5, RunningSteps, QuietSteps, QuietNumberInv

LEMMA NumberInvariance == Spec => [](Inv /\ NumberInv)
<1>1. Inv /\ NumberInv /\ [Next]_vars => Inv' /\ NumberInv'
  BY NextInv, NextNumberInv
<1> QED
  BY InitInv, InitNumberInv, <1>1, PTL DEF Spec

\* A wallet that make_chain's assertion turns away finds all nine numbers that lnd
\* can be started with in the hands of others: get neither skips one nor leaves
\* one to nobody, over any interrupts, kills and restarts, in simnet or not.
THEOREM RefusesOnlyWhenFull == Spec => []RefusedOnlyIfFull
<1>1. NumberInv => RefusedOnlyIfFull
  BY DEF NumberInv
<1> QED
  BY <1>1, NumberInvariance, PTL

-----------------------------------------------------------------------------
(* One task for the invoices of a wallet. *)

\* Client c moves; others stay where they are.
OnlyMoves(c) ==
  \A d \in Clients \ {c} : at'[d] = at[d] /\ key'[d] = key[d]

LEMMA OthersResponsible ==
  ASSUME NEW c \in Clients, OnlyMoves(c), NEW j \in Keys
  PROVE  Responsible(j)' \ {c} = Responsible(j) \ {c}
  BY DEF Responsible, OnlyMoves

\* A client that begins, or that ends, is not responsible for anything.
LEMMA NobodyResponsible ==
  ASSUME Inv, StreamInv, UNCHANGED <<keysToOffset, streams>>,
         \A j \in Keys : Responsible(j)' = Responsible(j)
  PROVE  StreamInv'
  BY DEF StreamInv

LEMMA NewNumberStreamInv ==
  ASSUME Inv, StreamInv, NEW c \in Clients, NEW k \in Keys, NEW p \in Numbers,
         NewNumber(c, k, p)
  PROVE  StreamInv'
<1>1. /\ at[c] = "away" /\ keysToOffset[k] = None /\ key' = [key EXCEPT ![c] = k]
  BY DEF NewNumber
<1>2. key'[c] = k /\ \A d \in Clients \ {c} : key'[d] = key[d]
  BY <1>1 DEF Inv, TypeOK
<1>3. \A j \in Keys : c \notin Responsible(j)
  BY <1>1 DEF Responsible
<1>4. ClientType
  BY DEF Inv, TypeOK, ClientType
<1>5. CASE Refused(c, k, p)
  <2>1. /\ at'[c] = "refused" /\ \A d \in Clients \ {c} : at'[d] = at[d]
        /\ UNCHANGED <<keysToOffset, streams>>
    BY <1>4, <1>5 DEF Refused, ClientType
  <2>2. OnlyMoves(c)
    BY <1>2, <2>1 DEF OnlyMoves
  <2>3. \A j \in Keys : c \notin Responsible(j)'
    BY <2>1 DEF Responsible
  <2>4. \A j \in Keys : Responsible(j)' = Responsible(j)
    BY <1>3, <2>2, <2>3, OthersResponsible
  <2> QED
    BY <2>1, <2>4, NobodyResponsible
<1>6. CASE Chained(c, k, p)
  <2>1. /\ keysToOffset' = [keysToOffset EXCEPT ![k] = p] /\ ReadFiles(c, k, p)
    BY <1>6 DEF Chained
  <2>2. keysToOffset'[k] = p /\ p # None /\ \A j \in Keys \ {k} : keysToOffset'[j] = keysToOffset[j]
    BY <2>1, NumberTypes DEF Inv, TypeOK
  <2>3. OnlyMoves(c)
    <3>1. OthersStay(c)
      BY <1>4, <2>1, ReadFilesStep
    <3> QED
      BY <1>2, <3>1 DEF OthersStay, OnlyMoves
  <2>4. \A j \in Keys \ {k} : c \notin Responsible(j)'
    BY <1>2 DEF Responsible
  <2>5. \A j \in Keys \ {k} : Responsible(j)' = Responsible(j)
    BY <1>3, <2>3, <2>4, OthersResponsible
  <2>6. streams[k] = 0 /\ Responsible(k) = {}
    BY <1>1 DEF StreamInv
  <2>7. Responsible(k)' \ {c} = {}
    BY <2>3, <2>6, OthersResponsible
  <2>8. \A j \in Keys \ {k} : streams'[j] = streams[j]
    BY <1>4, <2>1 DEF ReadFiles, ClientType
  <2>9. \/ streams'[k] = 0 /\ Responsible(k)' = {c}
        \/ streams'[k] = 1 /\ Responsible(k)' = {}
    <3>1. CASE at'[c] \in {"cert", "no macaroon"} /\ streams' = streams
      BY <3>1, <1>2, <2>6, <2>7 DEF Responsible
    <3>2. CASE at'[c] = "served" /\ streams' = [streams EXCEPT ![k] = @ + 1]
      <4>1. streams'[k] = streams[k] + 1
        BY <1>4, <3>2 DEF ClientType
      <4>2. c \notin Responsible(k)'
        BY <3>2 DEF Responsible
      <4> QED
        BY <4>1, <4>2, <2>6, <2>7
    <3> QED
      BY <1>4, <2>1, <3>1, <3>2 DEF ReadFiles, Supplied, ClientType
  <2> QED
    BY <2>2, <2>5, <2>8, <2>9 DEF StreamInv
<1> QED
  BY <1>5, <1>6 DEF NewNumber

LEMMA WakeStreamInv ==
  ASSUME Inv, StreamInv, NEW c \in Clients, Wake(c)
  PROVE  StreamInv'
<1> SUFFICES ASSUME NEW k \in Keys, key[c] = k PROVE StreamInv'
  BY DEF Inv, TypeOK
<1>1. /\ at[c] = "cert" /\ k \in cert /\ ReadFiles(c, k, keysToOffset[k])
      /\ UNCHANGED <<keysToOffset, key>>
  BY DEF Wake, supplyVars
<1>2. ClientType /\ k \in Keys /\ keysToOffset[k] \in Numbers /\ keysToOffset[k] # None
  BY <1>1, NumberTypes DEF Inv, TypeOK, ClientType, ClientHasChain
<1>3. OnlyMoves(c)
  <2>1. OthersStay(c)
    BY <1>1, <1>2, ReadFilesStep
  <2> QED
    BY <1>1, <2>1 DEF OthersStay, OnlyMoves
<1>4. c \in Responsible(k)
  BY <1>1 DEF Responsible
<1>5. streams[k] = 0 /\ Responsible(k) = {c}
  BY <1>2, <1>4 DEF StreamInv
<1>6. \A j \in Keys \ {k} : Responsible(j)' = Responsible(j)
  <2>1. \A j \in Keys \ {k} : c \notin Responsible(j) /\ c \notin Responsible(j)'
    BY <1>1 DEF Responsible
  <2> QED
    BY <1>3, <2>1, OthersResponsible
<1>7. Responsible(k)' \ {c} = {}
  BY <1>2, <1>3, <1>5, OthersResponsible
<1>8. CASE at'[c] = "no macaroon" /\ streams' = streams
  <2>1. Responsible(k)' = {c}
    BY <1>1, <1>7, <1>8 DEF Responsible
  <2> QED
    BY <1>1, <1>2, <1>5, <1>6, <1>8, <2>1 DEF StreamInv
<1>9. CASE at'[c] = "served" /\ streams' = [streams EXCEPT ![k] = @ + 1]
  <2>1. Responsible(k)' = {}
    BY <1>7, <1>9 DEF Responsible
  <2>2. streams'[k] = streams[k] + 1 /\ \A j \in Keys \ {k} : streams'[j] = streams[j]
    BY <1>2, <1>9 DEF ClientType
  <2> QED
    BY <1>1, <1>2, <1>5, <1>6, <2>1, <2>2 DEF StreamInv
<1> QED
  BY <1>1, <1>2, <1>8, <1>9 DEF ReadFiles, Supplied, ClientType

LEMMA NextStreamInv == Inv /\ StreamInv /\ [Next]_vars => StreamInv'
<1> SUFFICES ASSUME Inv, StreamInv, [Next]_vars PROVE StreamInv'
  OBVIOUS
<1> USE DEF diskVars, supplyVars, clientVars, peerVars
<1>1. ASSUME UNCHANGED <<keysToOffset, streams, at, key>> PROVE StreamInv'
  BY <1>1 DEF StreamInv, Responsible
<1>2. CASE UNCHANGED vars
  BY <1>1, <1>2 DEF vars
<1>3. ASSUME NEW simnet \in Modes, Start(simnet) PROVE StreamInv'
  BY <1>1, <1>3 DEF Start
<1>4. CASE Interrupt
  BY <1>1, <1>4 DEF Interrupt
<1>5. CASE Ended
  BY <1>5 DEF Ended, StreamInv, Responsible, Empty
<1>6. ASSUME NEW c \in Clients, NEW k \in Keys, NEW p \in Numbers, NewNumber(c, k, p)
      PROVE  StreamInv'
  BY <1>6, NewNumberStreamInv
<1>7. ASSUME NEW c \in Clients, OnlyMoves(c), UNCHANGED <<keysToOffset, streams>>,
             \/ at[c] = "away" /\ at'[c] \in {"served", "closed"}
             \/ key'[c] = key[c] /\ at[c] = "cert" /\ at'[c] = "cancelled"
      PROVE  StreamInv'
  <2>1. \A j \in Keys : c \in Responsible(j)' <=> c \in Responsible(j)
    BY <1>7 DEF Responsible
  <2>2. \A j \in Keys : Responsible(j)' = Responsible(j)
    BY <1>7, <2>1, OthersResponsible
  <2> QED
    BY <1>7, <2>2, NobodyResponsible
<1>8. ASSUME NEW c \in Clients, NEW k \in Keys, Get(c, k), OldChain(c, k) PROVE StreamInv'
  <2>1. /\ at[c] = "away" /\ at' = [at EXCEPT ![c] = "served"] /\ key' = [key EXCEPT ![c] = k]
        /\ UNCHANGED <<keysToOffset, streams>>
    BY <1>8 DEF Get, OldChain, Supplied
  <2>2. OnlyMoves(c) /\ at'[c] = "served"
    BY <2>1 DEF OnlyMoves, Inv, TypeOK
  <2> QED
    BY <1>7, <2>1, <2>2
<1>9. ASSUME NEW c \in Clients, BadGreeting(c) \/ Cancel(c) PROVE StreamInv'
  <2>1. PICK w \in {"closed", "cancelled"} :
           /\ at' = [at EXCEPT ![c] = w] /\ UNCHANGED <<keysToOffset, streams, key>>
           /\ at[c] = (IF w = "closed" THEN "away" ELSE "cert")
    BY <1>9 DEF BadGreeting, Cancel
  <2>2. OnlyMoves(c) /\ key'[c] = key[c] /\ at'[c] = w
    BY <2>1 DEF OnlyMoves, Inv, TypeOK
  <2> QED
    BY <1>7, <2>1, <2>2
<1>10. ASSUME NEW k \in Keys, Lnd(k) \/ GetInfo(k) \/ ConnectPeer(k) \/ ConnectFails(k)
       PROVE  StreamInv'
  <2>1. UNCHANGED <<keysToOffset, streams, at, key>>
    BY <1>10 DEF Lnd, MakeCert, MakeMacaroon, LndServes, GetInfo, ConnectPeer, ConnectFails
  <2> QED
    BY <1>1, <2>1
<1> QED
  BY <1>2, <1>3, <1>4, <1>5, <1>6, <1>8, <1>9, <1>10, WakeStreamInv, RunningSteps DEF Save, Crash

LEMMA StreamInvariance == Spec => [](Inv /\ StreamInv)
<1>1. Init => StreamInv
  BY DEF Init, StreamInv, Responsible, Empty
<1>2. Inv /\ StreamInv /\ [Next]_vars => Inv' /\ StreamInv'
  BY NextInv, NextStreamInv
<1> QED
  BY InitInv, <1>1, <1>2, PTL DEF Spec

\* For every wallet with a chain, exactly one call of get is responsible for its
\* invoices: however many come while it sleeps for tls.cert, whichever of them
\* is cancelled, and whatever files lnd left from an earlier run.
THEOREM OneStreamPerWallet == Spec => []OneStream
<1>1. Inv /\ StreamInv => OneStream
  <2> SUFFICES ASSUME Inv, StreamInv, NEW k \in Keys, keysToOffset[k] # None
               PROVE  streams[k] + Cardinality(Responsible(k)) = 1
    BY DEF OneStream, Assigned, Responsible
  <2>1. CASE streams[k] = 1 /\ Responsible(k) = {}
    BY <2>1, FS_EmptySet
  <2>2. CASE streams[k] = 0 /\ \E c \in Clients : Responsible(k) = {c}
    <3>1. PICK c \in Clients : Responsible(k) = {c}
      BY <2>2
    <3>2. Cardinality({c}) = 1
      BY FS_Singleton
    <3> QED
      BY <2>2, <3>1, <3>2
  <2> QED
    BY <2>1, <2>2 DEF StreamInv
<1> QED
  BY <1>1, StreamInvariance, PTL

-----------------------------------------------------------------------------
(* One connection for two lnds. *)

\* The lnds that k has been told of.
Told(k) == todo[k] \cup peers[k]

LEMMA NewNumberPeerInv ==
  ASSUME Inv, PeerInv, NEW c \in Clients, NEW k \in Keys, NEW p \in Numbers,
         NewNumber(c, k, p)
  PROVE  PeerInv'
<1>1. keysToOffset[k] = None /\ UNCHANGED <<pubkeys, peers>>
  BY DEF NewNumber
<1>2. CASE Refused(c, k, p)
  <2>1. UNCHANGED <<keysToOffset, todo, pubkeys, peers>>
    BY <1>1, <1>2 DEF Refused
  <2> QED
    BY <2>1 DEF PeerInv, PeersOnce, Values, Assigned
<1>3. CASE Chained(c, k, p)
  <2>1. /\ p \notin assoc /\ keysToOffset' = [keysToOffset EXCEPT ![k] = p]
        /\ todo' = [todo EXCEPT ![k] = pubkeys]
    BY <1>3 DEF Chained
  <2>2. /\ keysToOffset'[k] = p /\ p # None
        /\ \A j \in Keys \ {k} : keysToOffset'[j] = keysToOffset[j]
    BY <2>1, NumberTypes DEF Inv, TypeOK
  <2>3. p \notin Values(keysToOffset)
    BY <2>1 DEF Inv, ChainOfKey, Values, Assigned
  <2>4. Values(keysToOffset)' = Values(keysToOffset) \cup {p}
    BY <1>1, <2>2 DEF Values, Assigned
  <2>5. todo[k] \cup peers[k] = {}
    BY <1>1 DEF PeerInv
  <2>6. Told(k)' = pubkeys /\ \A j \in Keys \ {k} : Told(j)' = Told(j)
    BY <1>1, <2>1, <2>5 DEF Told, Inv, TypeOK
  <2>7. \A j \in Keys : Told(j)' \subseteq Values(keysToOffset)
    BY <2>6 DEF PeerInv, Told
  <2>8. PeersOnce'
    <3> SUFFICES ASSUME NEW i \in Keys, NEW j \in Keys,
                        keysToOffset'[i] # None, keysToOffset'[j] # None,
                        keysToOffset'[i] \in Told(j)'
                 PROVE  i # j /\ keysToOffset'[j] \notin Told(i)'
      BY DEF PeersOnce, Assigned, Told
    <3>1. i # k
      BY <2>2, <2>3, <2>7
    <3>2. CASE j = k
      BY <2>2, <2>3, <2>7, <3>1, <3>2
    <3>3. CASE j # k
      BY <2>2, <2>6, <3>1, <3>3 DEF PeerInv, PeersOnce, Assigned, Told
    <3> QED
      BY <3>2, <3>3
  <2>9. \A j \in Keys : /\ Told(j)' \subseteq Values(keysToOffset)'
                        /\ keysToOffset'[j] = None => Told(j)' = {}
    BY <2>2, <2>4, <2>6, <2>7 DEF PeerInv, Told
  <2> QED
    BY <1>1, <2>4, <2>8, <2>9 DEF PeerInv, Told
<1> QED
  BY <1>2, <1>3 DEF NewNumber

\* A connection is made or given up: k is told of no other lnds.
LEMMA ToldPeerInv ==
  ASSUME PeerInv, UNCHANGED <<keysToOffset, pubkeys>>,
         \A j \in Keys : Told(j)' \subseteq Told(j)
  PROVE  PeerInv'
  BY DEF PeerInv, PeersOnce, Values, Assigned, Told

LEMMA NextPeerInv == Inv /\ PeerInv /\ [Next]_vars => PeerInv'
<1> SUFFICES ASSUME Inv, PeerInv, [Next]_vars PROVE PeerInv'
  OBVIOUS
<1> USE DEF diskVars, supplyVars, clientVars, peerVars
<1>1. ASSUME UNCHANGED <<keysToOffset, pubkeys, todo, peers>> PROVE PeerInv'
  BY <1>1, ToldPeerInv DEF Told
<1>2. CASE UNCHANGED vars
  BY <1>1, <1>2 DEF vars
<1>3. ASSUME NEW simnet \in Modes, Start(simnet) PROVE PeerInv'
  BY <1>1, <1>3 DEF Start
<1>4. CASE Interrupt
  BY <1>1, <1>4 DEF Interrupt
<1>5. CASE Ended
  BY <1>5 DEF Ended, PeerInv, PeersOnce, Values, Assigned, Empty
<1>6. ASSUME NEW c \in Clients, NEW k \in Keys, NEW p \in Numbers, NewNumber(c, k, p)
      PROVE  PeerInv'
  BY <1>6, NewNumberPeerInv
<1>7. ASSUME NEW c \in Clients, NEW k \in Keys, Get(c, k), OldChain(c, k) PROVE PeerInv'
  BY <1>1, <1>7 DEF Get, OldChain
<1>8. ASSUME NEW c \in Clients, BadGreeting(c) \/ Wake(c) \/ Cancel(c) PROVE PeerInv'
  BY <1>1, <1>8 DEF BadGreeting, Wake, Cancel
<1>9. ASSUME NEW k \in Keys, Lnd(k) PROVE PeerInv'
  BY <1>1, <1>9 DEF Lnd, MakeCert, MakeMacaroon, LndServes
<1>10. ASSUME NEW k \in Keys, GetInfo(k) PROVE PeerInv'
  <2>1. /\ lnd[k] = "serving" /\ pubkeys' = pubkeys \cup {keysToOffset[k]}
        /\ UNCHANGED <<keysToOffset, todo, peers>>
    BY <1>10 DEF GetInfo
  <2>2. keysToOffset[k] \in Values(keysToOffset)
    BY <2>1 DEF Inv, LndOfChain, Values, Assigned
  <2> QED
    BY <2>1, <2>2 DEF PeerInv, PeersOnce, Values, Assigned
<1>11. ASSUME NEW k \in Keys, ConnectPeer(k) \/ ConnectFails(k) PROVE PeerInv'
  <2>1. /\ UNCHANGED <<keysToOffset, pubkeys>>
        /\ \/ todo' = todo /\ peers' = peers
           \/ \E p \in todo[k] : /\ todo' = [todo EXCEPT ![k] = @ \ {p}]
                                 /\ peers' \in {peers, [peers EXCEPT ![k] = @ \cup {p}]}
    BY <1>11 DEF ConnectPeer, ConnectFails
  <2>2. \A j \in Keys : Told(j)' \subseteq Told(j)
    <3>1. CASE todo' = todo /\ peers' = peers
      BY <3>1 DEF Told
    <3>2. ASSUME NEW p \in todo[k], todo' = [todo EXCEPT ![k] = @ \ {p}],
                 peers' \in {peers, [peers EXCEPT ![k] = @ \cup {p}]}
          PROVE  \A j \in Keys : Told(j)' \subseteq Told(j)
      <4>1. /\ todo \in [Keys -> SUBSET Numbers] /\ peers \in [Keys -> SUBSET Numbers]
        BY DEF Inv, TypeOK
      <4>2. /\ todo'[k] = todo[k] \ {p} /\ peers'[k] \subseteq peers[k] \cup {p}
            /\ \A j \in Keys \ {k} : todo'[j] = todo[j] /\ peers'[j] = peers[j]
        BY <3>2, <4>1
      <4> QED
        BY <4>2 DEF Told
    <3> QED
      BY <2>1, <3>1, <3>2
  <2> QED
    BY <2>1, <2>2, ToldPeerInv
<1> QED
  BY <1>2, <1>3, <1>4, <1>5, <1>6, <1>7, <1>8, <1>9, <1>10, <1>11, RunningSteps DEF Save, Crash

LEMMA PeerInvariance == Spec => [](Inv /\ PeerInv)
<1>1. Init => PeerInv
  BY DEF Init, PeerInv, PeersOnce, Values, Assigned, Empty
<1>2. Inv /\ PeerInv /\ [Next]_vars => Inv' /\ PeerInv'
  BY NextInv, NextPeerInv
<1> QED
  BY InitInv, <1>1, <1>2, PTL DEF Spec

\* Whatever order the lnds come up in: connectOtherNodes never connects an lnd to
\* itself, and of two lnds at most one is told to connect to the other.
THEOREM PeersConnectedOnce == Spec => []PeersOnce
<1>1. PeerInv => PeersOnce
  BY DEF PeerInv
<1> QED
  BY <1>1, PeerInvariance, PTL

-----------------------------------------------------------------------------
(* The directory. *)

\* Numbers that are given one each, and none skipped, are the first ones.
LEMMA FirstNumbers ==
  ASSUME NEW f \in [Keys -> Numbers \cup {None}], Injective(f), NoneSkipped(f)
  PROVE  /\ Cardinality(Assigned(f)) \in Nat
         /\ Cardinality(Assigned(f)) <= Cardinality(Keys)
         /\ Values(f) = 0 .. Cardinality(Assigned(f)) - 1
<1> DEFINE A == Assigned(f)
           V == Values(f)
           n == Cardinality(A)
           g == [k \in A |-> f[k]]
<1>1. IsFiniteSet(A) /\ n \in Nat /\ n <= Cardinality(Keys)
  <2>1. A \in SUBSET Keys
    BY DEF Assigned
  <2>2. IsFiniteSet(A) /\ n <= Cardinality(Keys)
    BY <2>1, PortsAssumption, FS_Subset
  <2> QED
    BY <2>2, FS_CardinalityType
<1>2. IsFiniteSet(V) /\ Cardinality(V) = n
  <2>1. g \in [A -> V]
    BY DEF Values
  <2>2. \A a, b \in A : g[a] = g[b] => a = b
    BY DEF Injective, Assigned
  <2>3. \A v \in V : \E a \in A : g[a] = v
    BY DEF Values
  <2>4. g \in Bijection(A, V)
    BY <2>1, <2>2, <2>3 DEF Bijection, Injection, Surjection, IsInjective
  <2>5. ExistsBijection(A, V)
    BY <2>4 DEF ExistsBijection
  <2> QED
    BY <1>1, <2>5, FS_Bijection
<1>3. V \subseteq Nat /\ \A v \in V : 0 .. v \subseteq V
  BY NumberTypes DEF Values, Assigned, NoneSkipped
<1> HIDE DEF A, V, n, g
<1>4. V \subseteq 0 .. n - 1
  <2> SUFFICES ASSUME NEW v \in V PROVE v \in 0 .. n - 1
    OBVIOUS
  <2>1. v \in Nat /\ 0 .. v \in SUBSET V
    BY <1>3
  <2>2. Cardinality(0 .. v) = v + 1
    BY <2>1, FS_Interval
  <2>3. Cardinality(0 .. v) <= n
    BY <1>2, <2>1, FS_Subset
  <2> QED
    BY <1>1, <2>1, <2>2, <2>3
<1>5. Cardinality(0 .. n - 1) = n /\ IsFiniteSet(0 .. n - 1)
  BY <1>1, FS_Interval
<1>6. V = 0 .. n - 1
  BY <1>2, <1>4, <1>5, FS_Subset
<1> QED
  BY <1>1, <1>6 DEF A, V, n

\* The number that get finds is the number of those that have one.
LEMMA LowestIsCount ==
  ASSUME Inv, NumberInv, NEW k \in Keys, NEW p \in Numbers,
         KEY_TO_PORT[k] = None, Numbered(k, p)
  PROVE  p = Cardinality(Assigned(KEY_TO_PORT))
<1> DEFINE n == Cardinality(Assigned(KEY_TO_PORT))
<1>1. n \in Nat /\ Values(KEY_TO_PORT) = 0 .. n - 1
  <2>1. KEY_TO_PORT \in [Keys -> Numbers \cup {None}] /\ Injective(KEY_TO_PORT)
    BY DEF Inv, TypeOK
  <2>2. NoneSkipped(KEY_TO_PORT)
    BY DEF NumberInv
  <2> QED
    BY <2>1, <2>2, FirstNumbers
<1>2. p \in Nat /\ p # None
  BY NumberTypes
<1>3. p \notin Values(KEY_TO_PORT)
  BY <1>2 DEF Numbered, Free
<1>4. 0 .. p \subseteq Values(KEY_TO_PORT) \cup {p}
  BY NumberedStep
<1> HIDE DEF n
<1>5. ~(p > n)
  <2> SUFFICES ASSUME p > n PROVE FALSE
    OBVIOUS
  <2>1. n \in 0 .. p /\ n # p /\ n \notin 0 .. n - 1
    BY <1>1, <1>2
  <2> QED
    BY <1>1, <1>4, <2>1
<1>6. ~(p < n)
  BY <1>1, <1>2, <1>3
<1>7. p = n
  BY <1>1, <1>2, <1>5, <1>6
<1> QED
  BY <1>7 DEF n

\* What stands for the directory: key_to_port, or the table of a hub that runs.
Book == IF hub = "down" THEN file ELSE KEY_TO_PORT

BookInv == Inv /\ NumberInv /\ NotBroken

LEMMA BookDense ==
  ASSUME Inv, NumberInv
  PROVE  /\ Book \in [Keys -> (0 .. Cardinality(Keys) - 1) \cup {None}]
         /\ Values(Book) = 0 .. Cardinality(Assigned(Book)) - 1
<1>1. Book \in [Keys -> Numbers \cup {None}] /\ Injective(Book) /\ NoneSkipped(Book)
  BY DEF Book, Inv, TypeOK, NumberInv
<1> HIDE DEF Book
<1> DEFINE n == Cardinality(Assigned(Book))
<1>2. n \in Nat /\ n <= Cardinality(Keys) /\ Values(Book) = 0 .. n - 1
  BY <1>1, FirstNumbers
<1>3. Cardinality(Keys) \in Nat
  BY PortsAssumption, FS_CardinalityType
<1> HIDE DEF n
<1>4. 0 .. n - 1 \subseteq 0 .. Cardinality(Keys) - 1
  BY <1>2, <1>3
<1>5. \A k \in Keys : Book[k] = None \/ Book[k] \in 0 .. Cardinality(Keys) - 1
  BY <1>2, <1>4 DEF Values, Assigned
<1>6. Book \in [Keys -> (0 .. Cardinality(Keys) - 1) \cup {None}]
  BY <1>1, <1>5
<1> QED
  BY <1>2, <1>6 DEF n

LEMMA NextNotBroken ==
  ASSUME ~CanCrash, TRUE \notin Modes, Inv, NotBroken, [Next]_vars
  PROVE  NotBroken'
<1> USE DEF diskVars, supplyVars, clientVars, peerVars
<1>1. CASE UNCHANGED vars
  BY <1>1 DEF vars, NotBroken
<1>2. CASE Next
  <2>1. ASSUME NEW simnet \in Modes, Start(simnet) PROVE NotBroken'
    BY <2>1, PortsAssumption DEF Start, NotBroken
  <2>2. CASE Interrupt
    BY <2>2 DEF Interrupt, NotBroken
  <2>3. CASE Save
    BY <2>3 DEF Save, NotBroken
  <2>4. ASSUME UNCHANGED <<hub, truncated>> PROVE NotBroken'
    BY <2>4 DEF NotBroken
  <2> QED
    BY <1>2, <2>1, <2>2, <2>3, <2>4, RunningSteps, QuietSteps DEF Crash, NewNumber, Quiet
<1> QED
  BY <1>1, <1>2

\* A step gives a wallet without a number the lowest one, or keeps the book.
LEMMA BookStep ==
  ASSUME ~CanCrash, TRUE \notin Modes, BookInv, [Next]_vars
  PROVE  \/ Book' = Book
         \/ \E k \in Keys : /\ Book[k] = None
                            /\ Book' = [Book EXCEPT ![k] = Cardinality(Assigned(Book))]
<1> USE DEF diskVars, supplyVars, clientVars, peerVars
<1>1. CASE UNCHANGED vars
  BY <1>1 DEF vars, Book
<1>2. ASSUME NEW simnet \in Modes, Start(simnet) PROVE Book' = Book
  <2>1. ~simnet /\ hub = "down" /\ ~truncated
    BY <1>2, PortsAssumption DEF Start, BookInv, NotBroken
  <2> QED
    BY <1>2, <2>1 DEF Start, Book
<1>3. CASE Interrupt
  BY <1>3 DEF Interrupt, Up, Book
<1>4. CASE Save
  BY <1>4 DEF Save, Book
<1>5. CASE Quiet
  BY <1>5 DEF Quiet, Book
<1>6. ASSUME NEW c \in Clients, NEW k \in Keys, NEW p \in Numbers, NewNumber(c, k, p)
      PROVE  \/ Book' = Book
             \/ \E j \in Keys : /\ Book[j] = None
                                /\ Book' = [Book EXCEPT ![j] = Cardinality(Assigned(Book))]
  <2>1. Book = KEY_TO_PORT /\ Book' = [KEY_TO_PORT EXCEPT ![k] = p] /\ Numbered(k, p)
    BY <1>6 DEF NewNumber, Numbered, Book, Up
  <2>2. CASE KEY_TO_PORT[k] = p
    <3>1. KEY_TO_PORT \in [Keys -> Numbers \cup {None}]
      BY DEF BookInv, Inv, TypeOK
    <3> QED
      BY <2>1, <2>2, <3>1
  <2>3. CASE KEY_TO_PORT[k] = None
    <3>1. p = Cardinality(Assigned(KEY_TO_PORT))
      BY <2>1, <2>3, LowestIsCount DEF BookInv
    <3> QED
      BY <2>1, <2>3, <3>1
  <2> QED
    BY <2>1, <2>2, <2>3 DEF Numbered
<1> QED
  BY <1>1, <1>2, <1>3, <1>4, <1>5, <1>6, RunningSteps, QuietSteps DEF Crash, BookInv

LEMMA BookInvariance ==
  ASSUME ~CanCrash, TRUE \notin Modes
  PROVE  Spec => []BookInv
<1>1. Init => BookInv
  BY InitInv, InitNumberInv DEF Init, BookInv, NotBroken
<1>2. BookInv /\ [Next]_vars => BookInv'
  BY NextInv, NextNumberInv, NextNotBroken DEF BookInv
<1> QED
  BY <1>1, <1>2, PTL DEF Spec

\* PortDirectory counts with the same Cardinality.
LEMMA SameCount == \A S : Directory!Cardinality(S) = Cardinality(S)
  BY DEF Directory!Cardinality, Cardinality, Directory!IsFiniteSet, IsFiniteSet

\* Started on testnet and stopped by interrupts only, however often and whenever,
\* the hub implements PortDirectory: a new wallet gets the lowest number that no
\* wallet has, and each keeps its own over every restart.
THEOREM KeepsDirectory ==
  ASSUME ~CanCrash, TRUE \notin Modes
  PROVE  Spec => RefinesDirectory
<1>1. Init => Directory!Init
  <2> SUFFICES ASSUME Init PROVE Directory!Init
    OBVIOUS
  <2>1. /\ Book \in [Keys -> (0 .. Cardinality(Keys) - 1) \cup {None}]
        /\ Values(Book) = 0 .. Cardinality(Assigned(Book)) - 1
    BY InitInv, InitNumberInv, BookDense
  <2> QED
    BY <2>1, SameCount DEF Directory!Init, Directory!Dense, Values, Assigned, Book
<1>2. BookInv /\ [Next]_vars => [Directory!Next]_Book
  <2> SUFFICES ASSUME BookInv, [Next]_vars PROVE [Directory!Next]_Book
    OBVIOUS
  <2>1. CASE Book' = Book
    BY <2>1
  <2>2. ASSUME NEW k \in Keys, Book[k] = None,
               Book' = [Book EXCEPT ![k] = Cardinality(Assigned(Book))]
        PROVE  Directory!Next
    BY <2>2, SameCount DEF Directory!Next, Directory!Assign, Assigned, Book
  <2> QED
    BY <2>1, <2>2, BookStep
<1>3. Spec => []BookInv
  BY BookInvariance
<1> QED
  BY <1>1, <1>2, <1>3, PTL DEF Spec, RefinesDirectory, Directory!Spec, Book

=============================================================================
