--------------------------- MODULE MCSignFindings ---------------------------
(***************************************************************************)
(* Instances of SignFindings for TLC.                                      *)
(***************************************************************************)
EXTENDS SignFindings, TLC

CONSTANTS o0, o1, o2, a0, a1, a2, a3, b1, A, B

\* A holding at keychain 0 and two anchors, of which one may have three allocations.
Places == (a0 :> o0) @@ (a1 :> o1) @@ (a2 :> o2) @@ (a3 :> o1) @@ (b1 :> o1)
Kinds == (a0 :> A) @@ (a1 :> A) @@ (a2 :> A) @@ (a3 :> A) @@ (b1 :> B)
Sizes == (a0 :> 1) @@ (a1 :> 1) @@ (a2 :> 2) @@ (a3 :> 2) @@ (b1 :> 1)
InOrder == (a0 :> 0) @@ (a1 :> 1) @@ (a2 :> 2) @@ (a3 :> 3) @@ (b1 :> 4)
AThenB == (A :> 1) @@ (B :> 2)

\* Two anchors of a contract each; an anchor with two allocations (the amount 3 takes
\* one there and one elsewhere, though it has that much); RGB at keychain 0.
Shares == {{b1, a2}, {a1, a2, a3}, {a0, a2}}

\* What a page may send: buys and sales with and without change, sends of either
\* kind, under a quote, against it or without one, and all that may be wrong with a
\* consignment, one thing at a time.
Given(gives) == [graph |-> TRUE, gives |-> gives, mined |-> TRUE]
Faulty == {[Given(None) EXCEPT !.graph = FALSE], [Given(None) EXCEPT !.mined = FALSE]}
Forwarded == {None, Given(None)} \cup Faulty
Flows == {<<"pays", FALSE>>, <<"pays", TRUE>>, <<"earns", TRUE>>}
Plausible ==
  {q \in [spends : {{}, {o0, o1}, {o1, o2}}, btc : {"pays", "earns"}, payout : BOOLEAN,
          receives : BOOLEAN, expected : {"none", "same", "other"},
          consignment : Forwarded \cup {Given(A), Given(B), [Given(A) EXCEPT !.mined = FALSE]}] :
     /\ <<q.btc, q.payout>> \in Flows
     /\ q.receives => q.payout
     /\ ~q.receives => q.consignment \in Forwarded
     /\ q.consignment \in Faulty => q.expected = "none"}

\* Bound: what is exported after the request was made is left out; it only adds to
\* what was offered.
OffersFirst == {"none"}

\* Bound: a lock and an unlock, or one of them and a change of the stock.
TwoEvents == locks + drains <= 2
=============================================================================
