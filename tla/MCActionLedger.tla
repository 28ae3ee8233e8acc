---------------------------- MODULE MCActionLedger ----------------------------
(***************************************************************************)
(* ActionLedger on a small instance: an action of two transactions, of     *)
(* which an older server may have recorded the second, one reporting       *)
(* thread, a receipt request and a loop that looks up one hash a pass.     *)
(* Or an action to enable tokens, before it is reported: three tokens of   *)
(* any gas for a known auction, or one token under any alias.              *)
(***************************************************************************)
EXTENDS ActionLedger

CONSTANTS
    Burners, Tokens, none, GasCap, MaxGas, MaxMoves, \* of the action to enable tokens
    a1,         \* the prepared action
    b1,         \* the fee burner whose auction is known
    e1, e2, e3  \* the tokens

LegacySecond == {<<a1, 2>>}

VARIABLES configured, rows, standard, gas, enabled, moves, action, pool

enableVars == <<configured, rows, standard, gas, enabled, moves, action, pool>>
Enable == INSTANCE EnableTokens WITH None <- none

Batches == /\ configured = {b1} /\ rows = [b \in Burners |-> IF b = b1 THEN b1 ELSE "absent"]
           /\ standard = {b1} /\ action.alias = <<"burner", b1>>
           /\ action.found \in {{}, Tokens}
           /\ gas[e1] <= GasCap /\ gas[e2] <= GasCap
Aliases == /\ action.found \subseteq {e1} /\ moves = <<>> /\ standard \in {{}, Burners}
           /\ \A t \in Tokens : gas[t] = 1

EnableUnused == action = Enable!Asked(<<"want", none>>) /\ configured = {}
LedgerUnused == recorded = {} /\ \A t \in Tx : chain[t] = "none"

MCInit == /\ Init /\ Enable!Init
          /\ \/ Batches /\ enabled[b1] \subseteq {e1}
             \/ Aliases /\ enabled[b1] = {}
          /\ LedgerUnused \/ EnableUnused
MCNext ==
    \/ /\ EnableUnused /\ \A b \in Burners : rows[b] = "absent" /\ standard = {}
       /\ Next /\ UNCHANGED enableVars
    \/ /\ LedgerUnused /\ batch = <<>> /\ \A w \in Workers : job[w] = NoJob
       /\ Enable!Next /\ (Batches \/ Aliases)' /\ UNCHANGED vars
MCFairSpec == MCInit /\ [][MCNext]_<<vars, enableVars>> /\ Fairness

\* An action to enable tokens enables what was selected, as EnableTokens says of
\* prepare_enable_tokens_action.
EnablingIsSound == Enable!EnablingIsSound
=============================================================================
