---------------------------- MODULE MCRuntimeInit ----------------------------
(* One program with every form that can be split, and one that cannot.     *)
EXTENDS RuntimeInit

MCPrograms ==
    {<<"LOAD_UPDATE", "STORE_INDEXED_UPDATE", "OTHER">>,
     <<"OTHER", "STORE_UPDATE", "LOAD_INDEXED_UPDATE">>}
=============================================================================
