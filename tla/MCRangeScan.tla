---------------------------- MODULE MCRangeScan ----------------------------
(* RangeScan for TLC: the checksum of rcode_t.                              *)
EXTENDS RangeScan, Bitwise, Folds

(* get_items and update_query: checksum ^= skey, here for every batch.      *)
XorTable ==
  [s \in UNION {[1 .. n -> Keys] : n \in 0 .. Cap} |->
     MapThenFoldSet(LAMBDA x, y : x ^^ y, 0, LAMBDA i : s[i],
                    LAMBDA S : CHOOSE x \in S : TRUE, DOMAIN s)]
XorChecksum(s) == XorTable[s]

(* It notices every cut batch that can come about in the runs. *)
ASSUME ChecksumAssumed == ChecksumTells
=============================================================================
