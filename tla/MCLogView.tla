----------------------------- MODULE MCLogView ------------------------------
(* The older deployment has one line, numbered 0.                           *)
EXTENDS LogView

MCOldRows == {[line |-> 0, stamp |-> 1]}
=============================================================================
