------------------------- MODULE MCAdaptiveCoverage -------------------------
(* Two services: a fault of the one with two stronger levels, and a fault of *)
(* the other without any.                                                    *)
EXTENDS AdaptiveCoverage

Candidate(target, family, level) == [target |-> target, family |-> family, level |-> level]
Api == Candidate(1, 1, 0)
SomeCandidates == {Api, Candidate(1, 1, 1), Candidate(1, 1, 3), Candidate(2, 1, 0)}

NoRows == [c \in SomeCandidates |-> [o \in Outcomes |-> 0]]
With(of, c, outcome, n) == [of EXCEPT ![c] = [@ EXCEPT ![outcome] = n]]

\* No earlier campaign, and one that has seen an anomaly twice.
SomeHistories == {NoRows, With(NoRows, Api, "confirmed", 2)}
=============================================================================
