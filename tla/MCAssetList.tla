---------------------------- MODULE MCAssetList ----------------------------
(* Five assets in two nodes; after a refresh, one of them may be left.     *)
(* "2" is a number and part of two names, "a" the name of asset 1.         *)
EXTENDS AssetList

MCKeys == {"a", "2"}
MCMatch == [k \in MCKeys |-> IF k = "a" THEN {1, 3, 4, 5} ELSE {2, 5}]
MCNamed == [k \in MCKeys |-> IF k = "a" THEN {1} ELSE {}]
MCNumber == [k \in MCKeys |-> IF k = "a" THEN 0 ELSE 2]

Node(k, as) == [key |-> k, assets |-> as]
MCDatabases ==
  {[assets |-> <<3, 1, 2, 5, 4>>,
    nodes |-> <<Node(2, {4, 5}), Node(1, {1, 2, 3})>>],
   [assets |-> <<1>>, nodes |-> <<Node(2, {1})>>]}

Conf(m, n, b) == [mode |-> m, size |-> n, byIp |-> b]
MCConfs == {Conf("auto", 0, FALSE), Conf("all", 0, TRUE), Conf("fixed", 3, TRUE)}
============================================================================
