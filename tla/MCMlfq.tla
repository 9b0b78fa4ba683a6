------------------------------- MODULE MCMlfq -------------------------------
(* Instance of Mlfq for TLC: how often each slot may be taken.             *)
EXTENDS Mlfq

ReuseThrice == [s \in Slots |-> IF s = initproc THEN 1 ELSE 3]
=============================================================================
