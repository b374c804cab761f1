-------------------------- MODULE MCPortsSupplier --------------------------
(* Values of the constants of PortsSupplier for model checking. *)
EXTENDS PortsSupplier, Sequences, TLC

\* Wallets that came in earlier runs of the hub, and those that come now.
Earlier == <<"w1", "w2", "w3", "w4", "w5", "w6", "w7", "w8">>

MCKeys == {"a", "b", "cut"} \cup {Earlier[i] : i \in 1 .. 8}

\* A connection of one wallet and a request for it, a connection of another.
MCKeyOf == [c \in Clients |-> IF c = "b1" THEN "b" ELSE "a"]

\* The first n of the earlier wallets are in the file.
Old(n) == [k \in MCKeys |-> IF \E i \in 1 .. n : Earlier[i] = k
                               THEN (CHOOSE i \in 1 .. n : Earlier[i] = k) - 1
                               ELSE -1]

\* No file, one that leaves one number that lnd can be started with, and one that
\* has a wallet that comes.
MCSaved == {Old(0), Old(8), [Old(1) EXCEPT !["b"] = 1]}
=============================================================================
