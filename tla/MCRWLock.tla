------------------------------- MODULE MCRWLock -------------------------------
(* Model-checking instance of RWLock, for host threads t1, t2, ....        *)
EXTENDS RWLock
===============================================================================
