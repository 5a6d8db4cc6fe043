----------------------------- MODULE AMMContract -----------------------------
(***************************************************************************)
(* The on-chain audit anchor, contracts/AMMContract.sol.                   *)
(*                                                                         *)
(* A transaction either meets every require and takes effect, or reverts   *)
(* and leaves the state alone; a revert is therefore a stuttering step and *)
(* only the accepted transactions are actions here.  The `...Accepted`     *)
(* operators are the conjunctions of the requires, so that a module that   *)
(* composes the contract can tell a revert from a success.                 *)
(*                                                                         *)
(* Quantities, time slots and block timestamps are stored and never        *)
(* compared, so a recorded result keeps only its community, its price and  *)
(* its caller.  Theta and steepness are stored and never read on-chain.    *)
(***************************************************************************)
EXTENDS Naturals

CONSTANTS
  Keys,         \* the bytes32 market ids
  Communities,  \* the bytes32 community ids
  Accounts,     \* the addresses that send transactions
  Deployer,     \* the account that deploys the contract
  DeployedNode, \* the clearing node passed to the constructor
  MaxPrice      \* bound on the enumerated prices (ct/kWh x 10000)

ContractAssumption ==
  /\ Deployer \in Accounts
  /\ DeployedNode \in Accounts
  /\ MaxPrice \in Nat

VARIABLES
  owner,           \* the administrator, fixed at deployment
  clearingNode,    \* the account allowed to record results
  communityParams, \* the price band of each community, if one is set
  clearingResults, \* the recorded result of each market, if any
  appointed        \* history: every account that has ever been the clearing node

contractVars == <<owner, clearingNode, communityParams, clearingResults, appointed>>

Prices == 0 .. MaxPrice

(* The Solidity mappings return the zero struct for an unknown key.        *)
NoParams == [exists |-> FALSE]
NoResult == [exists |-> FALSE]

Params  == [exists : {TRUE}, kUpper : Prices, kLower : Prices]
Results == [exists : {TRUE}, communityUuid : Communities, clearingPrice : Prices,
            caller : Accounts]

TypeOK ==
  /\ owner \in Accounts
  /\ clearingNode \in Accounts
  /\ communityParams \in [Communities -> Params \cup {NoParams}]
  /\ clearingResults \in [Keys -> Results \cup {NoResult}]
  /\ appointed \in SUBSET Accounts

Init ==
  /\ owner = Deployer
  /\ clearingNode = DeployedNode
  /\ communityParams = [c \in Communities |-> NoParams]
  /\ clearingResults = [k \in Keys |-> NoResult]
  /\ appointed = {DeployedNode}

-----------------------------------------------------------------------------
(* clearMarket: only the clearing node, once per market, and within the    *)
(* band of the community when a band is configured.                        *)
RecordedTwice(sender, k, c, price) ==  \* mutant: the market may be cleared again
  /\ sender = clearingNode
  /\ communityParams[c].exists =>
       /\ price >= communityParams[c].kLower
       /\ price <= communityParams[c].kUpper

ClearMarketAccepted(sender, k, c, price) ==
  /\ sender = clearingNode
  /\ ~ clearingResults[k].exists
  /\ communityParams[c].exists =>
       /\ price >= communityParams[c].kLower
       /\ price <= communityParams[c].kUpper

ClearMarket(sender, k, c, price) ==
  /\ ClearMarketAccepted(sender, k, c, price)
  /\ clearingResults' = [clearingResults EXCEPT ![k] =
        [exists |-> TRUE, communityUuid |-> c, clearingPrice |-> price, caller |-> sender]]
  /\ UNCHANGED <<owner, clearingNode, communityParams, appointed>>

SetCommunityParams(sender, c, kUpper, kLower) ==
  /\ sender = owner
  /\ kUpper >= kLower
  /\ communityParams' = [communityParams EXCEPT ![c] =
        [exists |-> TRUE, kUpper |-> kUpper, kLower |-> kLower]]
  /\ UNCHANGED <<owner, clearingNode, clearingResults, appointed>>

SetClearingNode(sender, node) ==
  /\ sender = owner
  /\ clearingNode' = node
  /\ appointed' = appointed \cup {node}
  /\ UNCHANGED <<owner, communityParams, clearingResults>>

Next ==
  \E sender \in Accounts :
    \/ \E k \in Keys, c \in Communities, price \in Prices : ClearMarket(sender, k, c, price)
    \/ \E c \in Communities, u, l \in Prices : SetCommunityParams(sender, c, u, l)
    \/ \E node \in Accounts : SetClearingNode(sender, node)

Spec == Init /\ [][Next]_contractVars

-----------------------------------------------------------------------------
(* The audit trail: whatever the owner or the clearing node does later, a  *)
(* recorded result is never overwritten or removed.                        *)
ResultsImmutable ==
  [][\A k \in Keys : clearingResults[k].exists => clearingResults'[k] = clearingResults[k]]_contractVars

(* Every recorded result was written by an account the deployment or the   *)
(* owner had made the clearing node, even after the role moved on.         *)
CallersAppointed ==
  \A k \in Keys : clearingResults[k].exists => clearingResults[k].caller \in appointed

(* A community whose band is set can still be cleared: no sequence of      *)
(* parameter changes leaves a band that no price satisfies.                *)
SomePriceClears ==
  \A k \in Keys, c \in Communities :
    ~ clearingResults[k].exists =>
      \E price \in Prices : ClearMarketAccepted(clearingNode, k, c, price)
=============================================================================
