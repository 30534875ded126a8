-------------------------- MODULE CredentialLedger --------------------------
(***************************************************************************)
(* What the quota cache promises its callers, whatever they call and in    *)
(* whatever order: every credential lifetime has a number that is never    *)
(* used again, and within a lifetime the evidence for each quota window    *)
(* only gets newer.                                                        *)
(***************************************************************************)
EXTENDS Naturals

CONSTANTS Ids,      \* credential IDs
          Windows   \* quota windows

VARIABLES lifetime,   \* the number of the current lifetime; 0 = not held
          evidence,   \* when each window was last evidenced; 0 = never
          allocated   \* the highest lifetime number given out

ledgerVars == <<lifetime, evidence, allocated>>

NoEvidence == [w \in Windows |-> 0]

LedgerInit ==
    /\ lifetime = [i \in Ids |-> 0]
    /\ evidence = [i \in Ids |-> NoEvidence]
    /\ allocated = 0

Evidence == [Ids -> [Windows -> Nat]]

\* Some credentials leave, and some begin a new lifetime without evidence.
Turnover ==
    /\ allocated' \in Nat /\ allocated' >= allocated
    /\ lifetime' \in [Ids -> Nat] /\ evidence' \in Evidence
    /\ \E left, begun \in SUBSET Ids :
          /\ \A i \in left : lifetime'[i] = 0
          /\ \A i \in begun : lifetime'[i] \in (allocated + 1)..allocated'
          /\ \A i, j \in begun : lifetime'[i] = lifetime'[j] => i = j
          /\ \A i \in left \cup begun : evidence'[i] = NoEvidence
          /\ \A i \in Ids \ (left \cup begun) :
                lifetime'[i] = lifetime[i] /\ evidence'[i] = evidence[i]

\* The windows of a held credential are observed again.
Observe ==
    /\ evidence' \in Evidence
    /\ \E i \in Ids :
          /\ lifetime[i] # 0
          /\ \A w \in Windows : evidence'[i][w] >= evidence[i][w]
          /\ \A j \in Ids \ {i} : evidence'[j] = evidence[j]
    /\ UNCHANGED <<lifetime, allocated>>

LedgerNext == Turnover \/ Observe

LedgerSpec == LedgerInit /\ [][LedgerNext]_ledgerVars
=============================================================================
