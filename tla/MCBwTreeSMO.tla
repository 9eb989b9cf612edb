---------------------------- MODULE MCBwTreeSMO ----------------------------
(* BwTreeSMO for TLC: the trees it starts from.                             *)
EXTENDS BwTreeSMO

(* Three levels, one leaf emptied by earlier calls.                         *)
Emptied  == [pages |-> <<<<0, {1}>>, <<2, {2}>>, <<3, {}>>>>, parents |-> <<1, 3>>,
             inner |-> "base"]

(* A leaf that splits twice; the root splits once it has both separators.   *)
FullLeaf == [pages |-> <<<<0, {1, 2, 3, 4}>>, <<5, {5}>>, <<6, {6}>>>>, parents |-> <<1>>,
             inner |-> "base"]

(* The root splits when it is consolidated, and the child its upper half    *)
(* begins with is empty.                                                    *)
FullRoot == [pages |-> <<<<0, {1}>>, <<2, {2}>>, <<3, {}>>, <<4, {4}>>, <<5, {5}>>>>,
             parents |-> <<1>>, inner |-> "delta"]

OneEmptied == {Emptied}
OneFullLeaf == {FullLeaf}
OneFullRoot == {FullRoot}
AllTrees == {Emptied, FullLeaf, FullRoot}
=============================================================================
