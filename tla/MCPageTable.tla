----------------------------- MODULE MCPageTable -----------------------------
(* Four lines in a tree of three levels: two with a common parent, one     *)
(* that shares only the first node with them, one that shares none.  There *)
(* are two buckets, and like hash2 of the code the second of a line is the *)
(* complement of its first.                                                *)
EXTENDS PageTable

MCLines == {<<0, 0, 0>>, <<0, 0, 1>>, <<0, 1, 0>>, <<1, 1, 1>>}

MCHash1 == [l \in MCLines |-> (l[1] + l[2] + l[3]) % 2]
MCHash2 == [l \in MCLines |-> 1 - MCHash1[l]]
=============================================================================
