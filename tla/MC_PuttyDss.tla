------------------------------ MODULE MC_PuttyDss ------------------------------
(* PuttyDss over the group p = 23, q = 11, g = 4 (4 has order 11 mod 23),  *)
(* and two groups with p = 0 and q = 0, which the loaders reject.  y = 4   *)
(* and y = 18 are g^1 and g^3; y = 5 lies outside the group g generates.   *)
(* Digests 0..12 exceed q, so the unreduced digest of dss_sign matters.    *)
EXTENDS PuttyDss

MCGroups == {<<23, 11, 4>>, <<0, 11, 4>>, <<23, 0, 4>>}
MCYValues == {4, 18, 5}
MCXValues == {1, 3}
MCHashes == 0..12

\* Keys whose y is g^x for the one x offered: no inconsistent key loads.
MCConsistentY == {4}
MCConsistentX == {1}

=============================================================================
