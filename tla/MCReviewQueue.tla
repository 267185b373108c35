---------------------------- MODULE MCReviewQueue ----------------------------
(* Small instances of ReviewQueue and AdapterEndpoints. *)
EXTENDS AdapterEndpoints, TLC

AllPlatforms == {"freelancer", "upwork", "fiverr", "manual"}

\* The drafts, the approvals and the handlers are interchangeable.
Symmetric == Permutations(Requests) \cup Permutations(Texts) \cup Permutations(Tokens)
=============================================================================
