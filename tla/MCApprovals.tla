---------------------------- MODULE MCApprovals ----------------------------
(***************************************************************************)
(* Instances of Approvals for TLC.                                         *)
(***************************************************************************)
EXTENDS Approvals, TLC

CONSTANTS c1, s1, s2, o1, o2

\* One site connects and signs; a site that never connects asks as well.
SignerOrigins == (c1 :> o1) @@ (s1 :> o1) @@ (s2 :> o2)
OneOrigin == (c1 :> o1) @@ (s1 :> o1)

\* Every request has an id of its own.
OwnIds == [r \in Requests |-> r]

\* The site approves its own connect() and its first signAndSend().
PageApprovals == {c1, s1} \X {TRUE}
NoPosts == {}
=============================================================================
