-------------------------------- MODULE Queries --------------------------------
(******************************************************************************)
(* The contracts that answer questions, over one chain: the token contracts   *)
(* and the system's tables change, both are configured, and whatever they are *)
(* asked is an operator of the state (Api, VoterMetrics).                     *)
(******************************************************************************)
EXTENDS Api, VoterMetrics

CONSTANTS
  Plain             \* the tokens whose holders act themselves, and issuers that are users

\* The tokens that the system's own steps move are not among them, but for V,
\* and V's contract is not the one that keeps what is staked of it.
ASSUME QueriesAssumption ==
  /\ Plain \subseteq Tokens \ {Legacy, Vaulta, Wram}
  /\ V \in Plain => VStakeContract \notin {System, V.contract}

vars == <<chainVars, apiConfig, metrics>>

Init ==
  \E beginning \in Beginnings :
    SystemInit(beginning) /\ ApiInit(beginning) /\ MetricsInit(beginning)

TokenNext ==
  \E t \in Plain, precision \in Precisions :
    \/ \E issuer \in Users, max \in Amounts \ {0} : Create(t, issuer, precision, max)
    \/ \E q \in Amounts \ {0} :
         \/ stats[t].issuer \in Users /\ (Issue(t, q, precision) \/ Retire(t, q, precision))
         \/ \E from, to \in Users \cup {System, t.contract} : Transfer(t, from, to, q, precision)
    \/ \E owner \in Users : Open(t, owner, precision)

CloseNext == \E t \in Plain : \E owner \in rows[t] : Close(t, owner)

Next ==
  \/ SystemNext /\ UNCHANGED <<apiConfig, metrics>>
  \/ TokenNext /\ UNCHANGED <<systemVars, apiConfig, metrics>>
  \/ CloseNext /\ UNCHANGED <<systemVars, apiConfig, metrics>>
  \/ \E new \in ApiConfigs : SetConfig(new) /\ UNCHANGED <<chainVars, metrics>>
  \/ \E new \in MetricsConfigs : SetMetricsConfig(new) /\ UNCHANGED <<chainVars, apiConfig>>

Spec == Init /\ [][Next]_vars

----
TypeOK ==
  /\ TokenTypeOK
  /\ delegated \in DelegatedBandwidths /\ refunds \in RefundRequests
  /\ pool \in RexPools /\ funds \in RexFunds /\ shares \in RexBalances
  /\ ram \in UserResources
  /\ staked \in [Accounts -> [amount : Amounts, unstaking : Amounts]]
  /\ apiConfig \in ConfigRows
  /\ metrics \in MetricsRows
================================================================================
