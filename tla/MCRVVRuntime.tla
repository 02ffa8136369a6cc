---------------------------- MODULE MCRVVRuntime ----------------------------
(* The dispatch with two threads and two calls each. *)
EXTENDS RVVRuntime

CONSTANTS t1, t2
MCThreads == {t1, t2}
=============================================================================
