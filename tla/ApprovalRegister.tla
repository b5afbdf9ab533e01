-------------------------- MODULE ApprovalRegister --------------------------
(***************************************************************************)
(* What the approval machinery of the service worker promises: a request   *)
(* of a dApp is answered once, and it is granted (an origin connected, a   *)
(* transaction signed) only if the user consented to that very request, or *)
(* a page's own message said so, and the wallet's findings do not veto it. *)
(* Implemented by Approvals.                                               *)
(***************************************************************************)

CONSTANT Requests

VARIABLES
  status,   \* of each request: "new", "open", "granted" or "denied"
  consent,  \* the requests the user has approved
  relayed,  \* the requests a page has approved
  vetoed    \* the requests the wallet refuses to grant

vars == <<status, consent, relayed, vetoed>>

Init ==
  /\ status = [r \in Requests |-> "new"]
  /\ consent = {}
  /\ relayed = {}
  /\ vetoed = {}

Open(r) ==
  /\ status[r] = "new"
  /\ status' = [status EXCEPT ![r] = "open"]
  /\ UNCHANGED <<consent, relayed, vetoed>>

\* Found before the user is asked.
Veto(r) ==
  /\ status[r] = "open"
  /\ r \notin consent
  /\ vetoed' = vetoed \cup {r}
  /\ UNCHANGED <<status, consent, relayed>>

\* A user may consent to a request that is no longer open: it has no effect.
Consent(r) ==
  /\ status[r] # "new"
  /\ consent' = consent \cup {r}
  /\ UNCHANGED <<status, relayed, vetoed>>

\* The worker does not tell a page's decision from its own window's.
Relay(r) ==
  /\ relayed' = relayed \cup {r}
  /\ UNCHANGED <<status, consent, vetoed>>

Grant(r) ==
  /\ status[r] = "open"
  /\ r \in (consent \cup relayed) \ vetoed
  /\ status' = [status EXCEPT ![r] = "granted"]
  /\ UNCHANGED <<consent, relayed, vetoed>>

\* The end of the worker denies every open request at once.
Deny(R) ==
  /\ \A r \in R : status[r] = "open"
  /\ status' = [r \in Requests |-> IF r \in R THEN "denied" ELSE status[r]]
  /\ UNCHANGED <<consent, relayed, vetoed>>

Next ==
  \/ \E r \in Requests : Open(r) \/ Veto(r) \/ Consent(r) \/ Relay(r) \/ Grant(r)
  \/ \E R \in SUBSET Requests : Deny(R)

RegisterSpec == Init /\ [][Next]_vars
=============================================================================
