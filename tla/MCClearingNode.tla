--------------------------- MODULE MCClearingNode ---------------------------
(* Small instances of ClearingNode: up to three markets of one community,  *)
(* books of each kind at two prices, the scheduler and at most one trigger.*)
EXTENDS ClearingNode, TLC

CONSTANTS m1, m2, m3, t1, k1, k2, c1, admin, node,
          oneSided, dust, low, high

MCMarkets == {m1, m2}
OneMarket == {m1}
MCBooks == {oneSided, dust, low}
TwoPrices == {low, high}
AllBooks == {oneSided, dust, low, high}
MCOneSided == {oneSided}
MCDust == {dust}
Nothing == {}
OneTrigger == {t1}
MCKeys == {k1, k2}
MCCommunities == {c1}
MCAccounts == {admin, node}
MCPrice == [b \in Books |-> IF b = high THEN 1 ELSE 0]
MCCommunityOf == [m \in Markets |-> c1]

TwoKeys == [m \in Markets |-> IF m = m1 THEN k1 ELSE k2]

(* m3 has a UUID for an id, from which clear_market derives no key.        *)
ThreeMarkets == {m1, m2, m3}
TwoKeysAndNone == [m \in Markets |-> CASE m = m1 -> k1 [] m = m2 -> k2 [] OTHER -> None]

MCSymmetry == Permutations(MCMarkets)
OneKey == [m \in Markets |-> k1]

StoreUpsets == {"read", "tick", "refuse", "restart", "post"}
SequentialUpsets == (StoreUpsets \ {"post"}) \cup {"rpc"}
NoRestart == {"read", "tick", "refuse"}
AnchorUpsets == {"rpc", "restart", "admin"}
RpcOnly == {"rpc"}
RestartOnly == {"restart"}
=============================================================================
