------------------------------ MODULE MCBlock ------------------------------
(***************************************************************************)
(* The instance of BlockXshard that is checked: two shards with a key      *)
(* each.  Connection x of shard 0 blocks twice, on both keys or on the     *)
(* remote one; connection y of shard 1 blocks once, on its shard's key.    *)
(***************************************************************************)
EXTENDS BlockXshard

MCOwner == [k \in Key |-> IF k = "a" THEN 0 ELSE 1]
MCHome == [c \in Conn |-> IF c = "x" THEN 0 ELSE 1]
MCWatches == [c \in Conn |-> IF c = "x" THEN {<<"a", "b">>, <<"b">>} ELSE {<<"b">>}]
MCMaxAsk == [c \in Conn |-> IF c = "x" THEN 2 ELSE 1]
=============================================================================
