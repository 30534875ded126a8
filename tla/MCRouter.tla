------------------------------ MODULE MCRouter ------------------------------
(* Small instances of the router: each cfg keeps the actors one question is *)
(* about and bounds the clock, the file writes, the faults and the toggles. *)
EXTENDS Router, TLC

Cand(id) == [id |-> id, priority |-> 0, weight |-> -1, claude |-> TRUE]
MCCandidates == {<<Cand(1)>>}
MCModels == {[name |-> "sonnet", family |-> "unknown"]}

\* A document without overage fallback, so that the gate is active, one with
\* another cutoff, one that disables the router, and two that are refused.
Plain == [enabled |-> {}, protected |-> {}, cutoff |-> {}, pollInterval |-> {},
          requestTimeout |-> {}, overage |-> {}]
MCDefaults == {Plain}
MCStrict == {[Plain EXCEPT !.overage = {FALSE}]}
MCReconfigured ==
    {[Plain EXCEPT !.overage = {FALSE}],
     [Plain EXCEPT !.overage = {FALSE}, !.cutoff = {2}, !.protected = {<<"sonnet", "sonnet">>}],
     [Plain EXCEPT !.enabled = {FALSE}],
     [Plain EXCEPT !.cutoff = {101}], [Plain EXCEPT !.protected = {<<"">>}]}

MCFailures == {[category |-> "unauthorized", hint |-> NoHint],
               [category |-> "rate_limited", hint |-> 2]}
GateSymmetry == Permutations(Gates)

\* The bound of the evidence run: while a request is at the gate, only the
\* first request is under way beside it.
GateOrSecond ==
    \/ \A gate \in Gates : gates[gate].pc = "idle"
    \/ \A r \in Requests \ {1} : requests[r].pc = "idle"
=============================================================================
