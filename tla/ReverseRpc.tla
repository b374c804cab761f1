----------------------------- MODULE ReverseRpc -----------------------------
(***************************************************************************)
(* What lnd is promised when it calls out to a wallet, over the hub's      *)
(* bridge (Repeater) or over a websocket (LightningProxy): a call that is  *)
(* asked gets one response, the reply to that very call, eventually.       *)
(***************************************************************************)
CONSTANTS Calls, NoReply

VARIABLES asked, response

vars == <<asked, response>>

Init ==
  /\ asked = {}
  /\ response = [c \in Calls |-> NoReply]

Ask(c) ==
  /\ c \in Calls \ asked
  /\ asked' = asked \cup {c}
  /\ UNCHANGED response

Answer(c) ==
  /\ c \in asked
  /\ response[c] = NoReply
  /\ response' = [response EXCEPT ![c] = c]
  /\ UNCHANGED asked

Next == \E c \in Calls : Ask(c) \/ Answer(c)

\* What a bridge may do, and with it that every call is answered.
Safety == Init /\ [][Next]_vars
Spec   == Safety /\ \A c \in Calls : WF_vars(Answer(c))
=============================================================================
