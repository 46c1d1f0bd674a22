----------------------------- MODULE MCDdOutput -----------------------------
(* Values for TLC: one diagram, two, and those of system calls. *)
EXTENDS DdOutput

MCChoices == {{"dinrdy"}, {"dindin"}, {"dinrdy", "dindin"}, {"dinsys"}}
=============================================================================
