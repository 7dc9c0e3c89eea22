------------------------------ MODULE MCRelay -------------------------------
(* Instances of Relay for TLC: a root with two children, one of which has a *)
(* child of its own.                                                        *)
EXTENDS Relay

CONSTANTS root, left, right, leaf,   \* servers
          gcs, drone, other,         \* units of account a, group 1
          guest,                     \* a unit of account b, also group 1
          a, b

Tree == [s \in Servers |-> CASE s = root -> None
                             [] s = leaf -> left
                             [] OTHER -> root]
Subtree == [s \in Servers |-> CASE s = root -> Servers
                                [] s = left -> {left, leaf} \cap Servers
                                [] OTHER -> {s}]
OwnId == [s \in Servers |-> s]

HomeOf == [u \in Units |-> CASE u = gcs -> root
                             [] u = drone -> leaf
                             [] u = other -> right
                             [] OTHER -> right]
OwnName == [u \in Units |-> u]
AccountOf == [u \in Units |-> IF u = guest THEN b ELSE a]
GroupOne == [u \in Units |-> 1]
TypeOf == [u \in Units |-> IF u = gcs THEN "g" ELSE "d"]
BroadcastKinds == {"group", "gcs", "all", "agents", "untargeted"}
=============================================================================
