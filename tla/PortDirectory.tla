--------------------------- MODULE PortDirectory ---------------------------
(***************************************************************************)
(* What the hub promises about the ports of its wallets: a wallet that has *)
(* no number gets the lowest one that no other wallet has, and keeps it    *)
(* for ever, over all restarts of the hub.                                 *)
(***************************************************************************)
EXTENDS Integers, FiniteSets

CONSTANTS Keys, None

VARIABLE port

\* The numbers that wallets have are the first ones, one each.
Dense(f) ==
  LET has == {k \in Keys : f[k] # None}
  IN  {f[k] : k \in has} = 0 .. Cardinality(has) - 1

Init == port \in [Keys -> (0 .. Cardinality(Keys) - 1) \cup {None}] /\ Dense(port)

Assign(k) ==
  /\ port[k] = None
  /\ port' = [port EXCEPT ![k] = Cardinality({j \in Keys : port[j] # None})]

Next == \E k \in Keys : Assign(k)

Spec == Init /\ [][Next]_port
=============================================================================
