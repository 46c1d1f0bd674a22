------------------------------ MODULE MCWindow ------------------------------
(* One window of each type, small enough to see every wrap of the buffer   *)
(* and every shape of the heap.                                            *)
EXTENDS AdamantWindow
=============================================================================
