--------------------------- MODULE PortsSupplier ---------------------------
(***************************************************************************)
(* The hub gives every wallet a chain of its own: queues, an HTTP/2        *)
(* server, an lnd with its directory, and the ports of all of them, which  *)
(* follow from one number.  The numbers are kept in the file key_to_port   *)
(* while the hub is down.                                                  *)
(*                                                                         *)
(* Sources: electrum-lightning-hub/repeater_and_rpc.py (RealPortsSupplier, *)
(* make_chain, get_lnd_server, main) and its callers, the SOCKS handler of *)
(* socksserver.py and the HTTP handlers of lncli_endpoint.py.  An action   *)
(* is what a task does from one await to the next; in get nothing is       *)
(* awaited until tls.cert is missing.  When the hub ends, its lnds end;    *)
(* their directories stay.                                                 *)
(***************************************************************************)
EXTENDS Integers, FiniteSets

CONSTANTS
  Keys,         \* what get may be called with
  Cut,          \* the key of a read that returns too early
  Clients,      \* connections of wallets and requests to lncli_endpoint
  Socks,        \* the connections
  KeyOf,        \* KeyOf[c]: the key of the wallet of client c
  Saved,        \* what key_to_port may hold at first
  Modes,        \* which of simnet (TRUE) and testnet (FALSE) the hub is started in
  CutReads,     \* may reader.read(6) return fewer bytes?
  CanCrash,     \* may the hub end without saving?
  MaxAttempts,  \* attempts to connect two lnds: 10 in the code
  MaxStarts     \* bound: starts of the hub

None == -1

\* Numbers that wallets may get: the lowest free one is never higher.
Numbers == 0 .. Cardinality(Keys)

\* No wallet has a number.
Empty == [k \in Keys |-> None]

Assigned(f) == {k \in Keys : f[k] # None}
Values(f)   == {f[k] : k \in Assigned(f)}

\* The highest number for which make_chain lets an lnd start.
Highest == 8

\* The ports of chain p and those of the hub itself.
ReversePort(p) == 8432 + 5 * p
ChainPorts(p) == {ReversePort(p), 9090 + p, 9735 + p, 10009 + p, 8081 + p}
HubPorts == {1080, 8090}

ASSUME PortsAssumption ==
  /\ IsFiniteSet(Keys)
  /\ Cut \in Keys
  /\ KeyOf \in [Clients -> Keys \ {Cut}]
  /\ Socks \subseteq Clients
  /\ Modes \subseteq BOOLEAN
  /\ MaxAttempts \in Nat \ {0}
  /\ MaxStarts \in Nat
  /\ \A f \in Saved : /\ f \in [Keys -> Numbers \cup {None}]
                      /\ \A j, k \in Assigned(f) : f[j] = f[k] => j = k

\* Only the hub writes key_to_port, and it gives the lowest number that is free.
ASSUME SavedAssumption ==
  \A f \in Saved : \A k \in Assigned(f) : 0 .. f[k] \subseteq Values(f)

VARIABLES
  hub,             \* "down", "up", "saving", or "broken": it cannot read key_to_port
  starts,          \* how often the hub was started
  file,            \* key_to_port
  truncated,       \* is key_to_port open for writing and empty?
  KEY_TO_PORT,     \* numbers of the wallets
  currentOffset,   \* RealPortsSupplier.currentOffset
  keysToOffset,    \* RealPortsSupplier.keysToOffset
  assoc,           \* numbers that have queues
  at,              \* at[c]: where client c is
  key,             \* key[c]: the key that c's call of get has
  pair,            \* pair[c]: the number behind the PortPair that c got
  streams,         \* streams[k]: how many tasks receive the invoices of k
  lnd,             \* lnd[k]: the lnd of k
  cert,            \* wallets whose lnd directory has tls.cert
  macaroon,        \* and admin.macaroon
  pubkeys,         \* PEERPORTS_TO_PUBKEYS: numbers whose lnd has told its key
  todo,            \* todo[k]: numbers that connectOtherNodes of k has before it
  tries,           \* attempts at the present one
  peers            \* peers[k]: numbers to which lnd k was connected

diskVars   == <<file, truncated, cert, macaroon>>
supplyVars == <<KEY_TO_PORT, currentOffset, keysToOffset, assoc>>
clientVars == <<at, key, pair>>
peerVars   == <<pubkeys, todo, tries, peers>>
vars == <<hub, starts, diskVars, supplyVars, clientVars, streams, lnd, peerVars>>

Init ==
  /\ hub = "down"
  /\ starts = 0
  /\ file \in Saved
  /\ truncated = FALSE
  /\ cert = {}
  /\ macaroon = {}
  /\ KEY_TO_PORT = Empty
  /\ currentOffset = 0
  /\ keysToOffset = Empty
  /\ assoc = {}
  /\ at = [c \in Clients |-> "away"]
  /\ key = KeyOf
  /\ pair = [c \in Clients |-> None]
  /\ streams = [k \in Keys |-> 0]
  /\ lnd = [k \in Keys |-> "none"]
  /\ pubkeys = {}
  /\ todo = [k \in Keys |-> {}]
  /\ tries = [k \in Keys |-> 0]
  /\ peers = [k \in Keys |-> {}]

\* A process that ends leaves nothing; the next one begins in this state.
Ended ==
  /\ KEY_TO_PORT' = Empty
  /\ currentOffset' = 0
  /\ keysToOffset' = Empty
  /\ assoc' = {}
  /\ at' = [c \in Clients |-> "away"]
  /\ key' = KeyOf
  /\ pair' = [c \in Clients |-> None]
  /\ streams' = [k \in Keys |-> 0]
  /\ lnd' = [k \in Keys |-> "none"]
  /\ pubkeys' = {}
  /\ todo' = [k \in Keys |-> {}]
  /\ tries' = [k \in Keys |-> 0]
  /\ peers' = [k \in Keys |-> {}]

Up == hub = "up"

-----------------------------------------------------------------------------
(* main: key_to_port is read at the start and written on an interrupt. *)

\* The file may be missing, which is the same as no wallet in it, but not empty.
Start(simnet) ==
  /\ hub \in {"down", "broken"}
  /\ starts < MaxStarts
  /\ starts' = starts + 1
  /\ hub' = IF ~simnet /\ truncated THEN "broken" ELSE "up"
  /\ KEY_TO_PORT' = IF simnet THEN Empty ELSE file
  /\ UNCHANGED <<diskVars, currentOffset, keysToOffset, assoc, clientVars, streams, lnd, peerVars>>

\* KeyboardInterrupt: the event loop stops, open truncates the file ...
Interrupt ==
  /\ Up
  /\ hub' = "saving"
  /\ file' = Empty
  /\ truncated' = TRUE
  /\ UNCHANGED <<starts, cert, macaroon, supplyVars, clientVars, streams, lnd, peerVars>>

\* Fault: only wallets that came since the start are saved.
SaveSeen ==
  /\ hub = "saving"
  /\ hub' = "down"
  /\ file' = keysToOffset
  /\ truncated' = FALSE
  /\ Ended
  /\ UNCHANGED <<starts, cert, macaroon>>

\* ... and the numbers are written.
Save ==
  /\ hub = "saving"
  /\ hub' = "down"
  /\ file' = KEY_TO_PORT
  /\ truncated' = FALSE
  /\ Ended
  /\ UNCHANGED <<starts, cert, macaroon>>

\* The hub is killed.
Crash ==
  /\ CanCrash
  /\ hub \in {"up", "saving"}
  /\ hub' = "down"
  /\ Ended
  /\ UNCHANGED <<starts, diskVars>>

-----------------------------------------------------------------------------
(* RealPortsSupplier.get *)

\* Fault: the numbers in the file are not looked at.
FreeSeen(p) ==
  /\ p >= currentOffset
  /\ p \notin Values(keysToOffset)
  /\ \A q \in Numbers : q >= currentOffset /\ q < p => q \in Values(keysToOffset)

\* p is what currentOffset is after the loop that skips numbers in use.
Free(p) ==
  /\ p >= currentOffset
  /\ p \notin Values(KEY_TO_PORT)
  /\ \A q \in Numbers : q >= currentOffset /\ q < p => q \in Values(KEY_TO_PORT)

\* Client c has a number. Callers take the queues or the lnd behind it at once.
Supplied(c, p) ==
  /\ at' = [at EXCEPT ![c] = "served"]
  /\ pair' = [pair EXCEPT ![c] = p]

\* The end of get: without tls.cert it sleeps, without admin.macaroon it fails;
\* with both it starts the task that receives the invoices, and returns.
ReadFiles(c, k, p) ==
  \/ /\ k \notin cert
     /\ at' = [at EXCEPT ![c] = "cert"]
     /\ UNCHANGED <<pair, streams>>
  \/ /\ k \in cert \ macaroon
     /\ at' = [at EXCEPT ![c] = "no macaroon"]
     /\ UNCHANGED <<pair, streams>>
  \/ /\ k \in cert \cap macaroon
     /\ Supplied(c, p)
     /\ streams' = [streams EXCEPT ![k] = @ + 1]

\* An assertion of make_chain fails. The number stays with the key.
Refuse(c) ==
  /\ at' = [at EXCEPT ![c] = "refused"]
  /\ UNCHANGED <<keysToOffset, pair, streams, lnd, todo>>

\* Fault: one number too many.
MakeChainTen(c, k, p) ==
  \/ /\ p \in assoc \/ p > Highest + 1
     /\ assoc' = assoc \cup {p}
     /\ Refuse(c)
  \/ /\ p \notin assoc /\ p <= Highest + 1
     /\ assoc' = assoc \cup {p}
     /\ keysToOffset' = [keysToOffset EXCEPT ![k] = p]
     /\ lnd' = [lnd EXCEPT ![k] = "starting"]
     /\ todo' = [todo EXCEPT ![k] = pubkeys]
     /\ ReadFiles(c, k, p)

\* Fault: an lnd directory is taken for a running lnd.
MakeChainOnce(c, k, p) ==
  \/ /\ p \in assoc \/ p > Highest
     /\ assoc' = assoc \cup {p}
     /\ Refuse(c)
  \/ /\ p \notin assoc /\ p <= Highest
     /\ assoc' = assoc \cup {p}
     /\ keysToOffset' = [keysToOffset EXCEPT ![k] = p]
     /\ lnd' = [lnd EXCEPT ![k] = IF file[k] = None THEN "starting" ELSE "none"]
     /\ todo' = [todo EXCEPT ![k] = pubkeys]
     /\ ReadFiles(c, k, p)

\* make_chain and what get does next: the queues are made before the number is
\* checked, then the chain's tasks are started and the known lnds noted.
MakeChain(c, k, p) ==
  \/ /\ p \in assoc \/ p > Highest
     /\ assoc' = assoc \cup {p}
     /\ Refuse(c)
  \/ /\ p \notin assoc /\ p <= Highest
     /\ assoc' = assoc \cup {p}
     /\ keysToOffset' = [keysToOffset EXCEPT ![k] = p]
     /\ lnd' = [lnd EXCEPT ![k] = "starting"]
     /\ todo' = [todo EXCEPT ![k] = pubkeys]
     /\ ReadFiles(c, k, p)

\* get of a key that has no chain.
NewChain(c, k) ==
  /\ keysToOffset[k] = None
  /\ \E p \in Numbers :
       /\ \/ KEY_TO_PORT[k] = p /\ UNCHANGED currentOffset
          \/ KEY_TO_PORT[k] = None /\ Free(p) /\ currentOffset' = p
       /\ KEY_TO_PORT' = [KEY_TO_PORT EXCEPT ![k] = p]
       /\ MakeChain(c, k, p)

\* Fault: it waits for lnd as the first call does.
OldChainWaits(c, k) ==
  /\ keysToOffset[k] # None
  /\ ReadFiles(c, k, keysToOffset[k])
  /\ UNCHANGED <<supplyVars, lnd, todo>>

\* get of a key that has one, be its lnd up or not.
OldChain(c, k) ==
  /\ keysToOffset[k] # None
  /\ Supplied(c, keysToOffset[k])
  /\ UNCHANGED <<supplyVars, streams, lnd, todo>>

\* Fault: currentOffset is taken for the number of the key.
GetLast(c, k) ==
  /\ Up
  /\ at[c] = "away"
  /\ key' = [key EXCEPT ![c] = k]
  /\ \/ NewChain(c, k)
     \/ /\ keysToOffset[k] # None
        /\ Supplied(c, currentOffset)
        /\ UNCHANGED <<supplyVars, streams, lnd, todo>>
  /\ UNCHANGED <<hub, starts, diskVars, pubkeys, tries, peers>>

\* A client gets as far as get can go without waiting.
Get(c, k) ==
  /\ Up
  /\ at[c] = "away"
  /\ key' = [key EXCEPT ![c] = k]
  /\ NewChain(c, k) \/ OldChain(c, k)
  /\ UNCHANGED <<hub, starts, diskVars, pubkeys, tries, peers>>

\* The handler of a connection reads the key; a request has it as a parameter.
Connect(c) ==
  \/ Get(c, KeyOf[c])
  \/ CutReads /\ c \in Socks /\ Get(c, Cut)

\* The greeting is not MAGIC, or a read of it returned too early.
BadGreeting(c) ==
  /\ Up
  /\ CutReads
  /\ c \in Socks
  /\ at[c] = "away"
  /\ at' = [at EXCEPT ![c] = "closed"]
  /\ UNCHANGED <<hub, starts, diskVars, supplyVars, key, pair, streams, lnd, peerVars>>

\* get wakes up and finds tls.cert.
Wake(c) ==
  /\ Up
  /\ at[c] = "cert"
  /\ key[c] \in cert
  /\ ReadFiles(c, key[c], keysToOffset[key[c]])
  /\ UNCHANGED <<hub, starts, diskVars, supplyVars, key, lnd, peerVars>>

\* The web server cancels the handler of a request whose client has gone.
Cancel(c) ==
  /\ Up
  /\ c \notin Socks
  /\ at[c] = "cert"
  /\ at' = [at EXCEPT ![c] = "cancelled"]
  /\ UNCHANGED <<hub, starts, diskVars, supplyVars, key, pair, streams, lnd, peerVars>>

-----------------------------------------------------------------------------
(* lnd: it makes tls.cert, then admin.macaroon, then serves lncli. *)

MakeCert(k) ==
  /\ Up
  /\ lnd[k] = "starting"
  /\ k \notin cert
  /\ cert' = cert \cup {k}
  /\ UNCHANGED <<hub, starts, file, truncated, macaroon, supplyVars, clientVars, streams, lnd,
                 peerVars>>

MakeMacaroon(k) ==
  /\ Up
  /\ lnd[k] = "starting"
  /\ k \in cert \ macaroon
  /\ macaroon' = macaroon \cup {k}
  /\ UNCHANGED <<hub, starts, file, truncated, cert, supplyVars, clientVars, streams, lnd,
                 peerVars>>

\* The lnd of k serves, and get_lnd_server learns its public key.
LndServes(k) ==
  /\ Up
  /\ lnd[k] = "starting"
  /\ k \in cert \cap macaroon
  /\ lnd' = [lnd EXCEPT ![k] = "serving"]
  /\ UNCHANGED <<hub, starts, diskVars, supplyVars, clientVars, streams, peerVars>>

GetInfo(k) ==
  /\ Up
  /\ lnd[k] = "serving"
  /\ keysToOffset[k] \notin pubkeys
  /\ pubkeys' = pubkeys \cup {keysToOffset[k]}
  /\ UNCHANGED <<hub, starts, diskVars, supplyVars, clientVars, streams, lnd, todo, tries, peers>>

-----------------------------------------------------------------------------
(* connectOtherNodes: lncli connect for the lnds known when k came. *)

\* Fault: the lnds known by now are connected.
ConnectKnown(k) ==
  /\ Up
  /\ lnd[k] = "serving"
  /\ \E p \in pubkeys \ peers[k] :
       /\ peers' = [peers EXCEPT ![k] = @ \cup {p}]
       /\ todo' = [todo EXCEPT ![k] = @ \ {p}]
  /\ tries' = [tries EXCEPT ![k] = 0]
  /\ UNCHANGED <<hub, starts, diskVars, supplyVars, clientVars, streams, lnd, pubkeys>>

ConnectPeer(k) ==
  /\ Up
  /\ lnd[k] = "serving"
  /\ \E p \in todo[k] :
       /\ peers' = [peers EXCEPT ![k] = @ \cup {p}]
       /\ todo' = [todo EXCEPT ![k] = @ \ {p}]
  /\ tries' = [tries EXCEPT ![k] = 0]
  /\ UNCHANGED <<hub, starts, diskVars, supplyVars, clientVars, streams, lnd, pubkeys>>

\* Fault: one attempt too many.
ConnectFailsMore(k) ==
  /\ Up
  /\ todo[k] # {}
  /\ \/ /\ tries[k] < MaxAttempts
        /\ tries' = [tries EXCEPT ![k] = @ + 1]
        /\ UNCHANGED todo
     \/ /\ tries[k] = MaxAttempts
        /\ tries' = [tries EXCEPT ![k] = 0]
        /\ \E p \in todo[k] : todo' = [todo EXCEPT ![k] = @ \ {p}]
  /\ UNCHANGED <<hub, starts, diskVars, supplyVars, clientVars, streams, lnd, pubkeys, peers>>

\* An attempt fails or times out; after the last one the next lnd is tried.
ConnectFails(k) ==
  /\ Up
  /\ todo[k] # {}
  /\ \/ /\ tries[k] + 1 < MaxAttempts
        /\ tries' = [tries EXCEPT ![k] = @ + 1]
        /\ UNCHANGED todo
     \/ /\ tries[k] + 1 = MaxAttempts
        /\ tries' = [tries EXCEPT ![k] = 0]
        /\ \E p \in todo[k] : todo' = [todo EXCEPT ![k] = @ \ {p}]
  /\ UNCHANGED <<hub, starts, diskVars, supplyVars, clientVars, streams, lnd, pubkeys, peers>>

-----------------------------------------------------------------------------
Lnd(k) == MakeCert(k) \/ MakeMacaroon(k) \/ LndServes(k)

Next ==
  \/ \E simnet \in Modes : Start(simnet)
  \/ Interrupt
  \/ Save
  \/ Crash
  \/ \E c \in Clients : Connect(c) \/ BadGreeting(c) \/ Wake(c) \/ Cancel(c)
  \/ \E k \in Keys : Lnd(k) \/ GetInfo(k) \/ ConnectPeer(k) \/ ConnectFails(k)

\* The event loop wakes tasks that sleep, and lnd makes its files. Nothing makes
\* a wallet come, or anybody start or stop the hub.
Fairness ==
  /\ \A c \in Clients : WF_vars(Wake(c))
  /\ \A k \in Keys : WF_vars(Lnd(k))

Spec == Init /\ [][Next]_vars /\ Fairness

-----------------------------------------------------------------------------
(* Properties. *)

\* Every variable holds values of its kind: the tables of RealPortsSupplier, its
\* callers, the lnds and the file.
TypeOK ==
  /\ hub \in {"down", "up", "saving", "broken"}
  /\ starts \in 0 .. MaxStarts
  /\ file \in [Keys -> Numbers \cup {None}]
  /\ truncated \in BOOLEAN
  /\ KEY_TO_PORT \in [Keys -> Numbers \cup {None}]
  /\ currentOffset \in Numbers
  /\ keysToOffset \in [Keys -> Numbers \cup {None}]
  /\ assoc \subseteq Numbers
  /\ at \in [Clients -> {"away", "closed", "cert", "served", "refused", "no macaroon",
                         "cancelled"}]
  /\ key \in [Clients -> Keys]
  /\ pair \in [Clients -> Numbers \cup {None}]
  /\ streams \in [Keys -> Nat]
  /\ lnd \in [Keys -> {"none", "starting", "serving"}]
  /\ cert \subseteq Keys
  /\ macaroon \subseteq cert
  /\ pubkeys \subseteq Numbers
  /\ todo \in [Keys -> SUBSET Numbers]
  /\ tries \in [Keys -> 0 .. MaxAttempts - 1]
  /\ peers \in [Keys -> SUBSET Numbers]

\* The queues that a client gets exist, and two clients have the same ones if and
\* only if they have the same key, whatever the hub forgot when it was killed.
WalletsIsolated ==
  \A c, d \in Clients : at[c] = "served" /\ at[d] = "served" =>
     /\ pair[c] \in assoc
     /\ pair[c] = pair[d] <=> key[c] = key[d]

\* No two of the servers that the hub and its lnds run want one port: those of a
\* chain, of different chains, and of the hub (make_chain's assertion names
\* lnd's REST port and lncli_endpoint).
PortsDistinct ==
  \A j, k \in Assigned(keysToOffset) :
     LET p == keysToOffset[j]
         q == keysToOffset[k]
     IN  /\ Cardinality(ChainPorts(p)) = 5
         /\ ChainPorts(p) \cap HubPorts = {}
         /\ j # k => ChainPorts(p) \cap ChainPorts(q) = {}

\* A wallet is turned away only if nine others have all the numbers that lnd can
\* be started with: none is skipped, or kept by nobody.
RefusedOnlyIfFull ==
  \A c \in Clients : at[c] = "refused" =>
     0 .. Highest \subseteq {KEY_TO_PORT[k] : k \in Keys \ {key[c]}}

\* One call of get is responsible for the invoices of a wallet: it waits for lnd's
\* files, has started the one task that receives them, or has failed on the way.
\* However many calls for one key come in the meantime.
OneStream ==
  \A k \in Assigned(keysToOffset) :
     streams[k] + Cardinality({c \in Clients :
                     key[c] = k /\ at[c] \in {"cert", "no macaroon", "cancelled"}}) = 1

\* What the numbers in use are connected with: no lnd is told to connect to itself,
\* and no two are told to connect to each other.
PeersOnce ==
  \A j, k \in Assigned(keysToOffset) :
     keysToOffset[j] \in todo[k] \cup peers[k] =>
        j # k /\ keysToOffset[k] \notin todo[j] \cup peers[j]

\* A call of get that waits for lnd goes on, also for a wallet of an earlier run.
Supplies == \A c \in Clients : at[c] = "cert" ~> at[c] # "cert" \/ ~Up

\* Over interrupts and restarts, the hub keeps a directory of numbers.
Directory == INSTANCE PortDirectory WITH
               port <- IF hub = "down" THEN file ELSE KEY_TO_PORT
RefinesDirectory == Directory!Spec
=============================================================================
