--------------------------- MODULE MCCacheClients ---------------------------
EXTENDS CacheClients, TLC

MCListings ==
    UNION {[ids -> [identity : Identities, listRevision : ListRevisions]] : ids \in SUBSET AuthIDs}

MCTokens ==
    [identity : Identities, revision : Revisions \cup {None},
     generation : 0..MaxGeneration, incarnation : 1..MaxIncarnation]
    \cup [identity : {None}, revision : {None},
          generation : 0..MaxGeneration, incarnation : 1..MaxIncarnation]

W(percent) == [valid |-> TRUE, percent |-> percent, resetAt |-> NoTime, sampledAt |-> NoTime]
MCBatches == {[NoWindows EXCEPT !["five_hour"] = W(0)], [NoWindows EXCEPT !["weekly"] = W(0)]}
=============================================================================
