---------------------------- MODULE MCTransport ------------------------------
EXTENDS Transport, TLC

\* One code per branch of raise_for_status.
MCCodes == {-32000, -5, -1}

AllReplies == Responses

\* What a router that keeps to its envelope answers, with objects as results.
GoodReplies ==
    {r \in Responses :
        WellFormed(r) /\ (r.body.kind = "result" => r.body.result.value \in DictValues)}

Symmetry == Permutations(Tasks) \cup Permutations(Sessions) \cup Permutations(Sids)
=============================================================================
