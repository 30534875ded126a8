---------------------------- MODULE MCCodexRoute ----------------------------
(* Two route calls that start again and again, few accounts, a bounded clock. *)
EXTENDS CodexRoute

MCFailures == {[category |-> "rate_limited", hint |-> NoHint]}
=============================================================================
