----------------------------- MODULE MCPhoneCalls -----------------------------
(* The instances of MCSipCalls, with the history of their calls.             *)
EXTENDS MCSipCalls, CallHistory
===============================================================================
