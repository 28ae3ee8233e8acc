-------------------------- MODULE MCClientBroadcast --------------------------
(***************************************************************************)
(* ClientBroadcast on small instances: one client with two transactions    *)
(* left behind by an older version, or two clients.  With all four         *)
(* transactions sent, the old ones have gone through without a warning.    *)
(***************************************************************************)
EXTENDS ClientBroadcast

CONSTANTS a1, a2

LegacyTwo == {<<a1, 1>>, <<a1, 2>>}
Plain(t)  == t \in observed /\ t \notin warned /\ Broadcast(t) \notin outbox

MCSpec == Init /\ [][Next /\ (sent = Tx => \A t \in Legacy : Plain(t))']_vars
=============================================================================
