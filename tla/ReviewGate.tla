----------------------------- MODULE ReviewGate -----------------------------
(***************************************************************************)
(* What the review of strategy versions promises its user, apart from how  *)
(* a session carries it out: versions are built one after the other, each  *)
(* is reviewed once, and only a version that passed its review is ever     *)
(* approved.  An approval may be withdrawn at any time: by a new review,   *)
(* by a change of preferences, by going live.                              *)
(***************************************************************************)
EXTENDS Naturals

VARIABLES version,   \* the latest version built; 0 before the first one
          verdict,   \* what the review said of that version
          approved   \* whether the session stands approved

gateVars == <<version, verdict, approved>>

Init ==
    /\ version = 0
    /\ verdict = "none"
    /\ approved = FALSE

Build ==
    /\ version' = version + 1
    /\ verdict' = "none"
    /\ UNCHANGED approved

Review ==
    /\ version > 0
    /\ verdict = "none"
    /\ verdict' \in {"pass", "fail"}
    /\ UNCHANGED <<version, approved>>

Approve ==
    /\ verdict = "pass"
    /\ approved' = TRUE
    /\ UNCHANGED <<version, verdict>>

Withdraw ==
    /\ approved' = FALSE
    /\ UNCHANGED <<version, verdict>>

Next == Build \/ Review \/ Approve \/ Withdraw

\* A version that was built is reviewed, whatever else goes on.
Spec == Init /\ [][Next]_gateVars /\ WF_gateVars(Review)
=============================================================================
