---------------------------- MODULE Configuration ----------------------------
(***************************************************************************)
(* The configuration of the plugin and how decodeLifecycleConfig reads it. *)
(* A document maps the fields of the YAML to sets: {} for a field that is  *)
(* not there (or blank), {value} otherwise.  Numbers are whole, durations  *)
(* are ticks, and one that does not parse is no better than a negative     *)
(* one.  A model name is lower-cased and trimmed, "" if nothing is left.   *)
(* Fields that no decision reads (user agent, quota API keys) are left out.*)
(***************************************************************************)
EXTENDS Integers, Sequences, Functions

CONSTANTS DefaultCutoff, DefaultPollInterval, DefaultRequestTimeout

ASSUME DefaultsAssumption ==
    /\ DefaultCutoff \in 0..100
    /\ DefaultPollInterval \in Nat \ {0} /\ DefaultRequestTimeout \in Nat \ {0}

DefaultPluginConfig ==
    [enabled |-> TRUE, protected |-> {}, cutoff |-> DefaultCutoff,
     pollInterval |-> DefaultPollInterval, overage |-> TRUE]

Given(field, default) == IF field = {} THEN default ELSE CHOOSE value \in field : TRUE

\* What makes decodeLifecycleConfig return an error.
Accepted(document) ==
    /\ \A models \in document.protected : "" \notin Range(models)
    /\ Given(document.cutoff, DefaultCutoff) \in 0..100
    /\ Given(document.pollInterval, DefaultPollInterval) > 0
    /\ Given(document.requestTimeout, DefaultRequestTimeout) > 0

\* A field that is not there takes its default, whatever it was before.
Decoded(document) ==
    [enabled |-> Given(document.enabled, DefaultPluginConfig.enabled),
     protected |-> Range(Given(document.protected, <<>>)),
     cutoff |-> Given(document.cutoff, DefaultPluginConfig.cutoff),
     pollInterval |-> Given(document.pollInterval, DefaultPluginConfig.pollInterval),
     overage |-> Given(document.overage, DefaultPluginConfig.overage)]

\* An empty list of protected models protects all of them.
IsProtectedModel(model, protected) == model # "" /\ (protected = {} \/ model \in protected)
=============================================================================
