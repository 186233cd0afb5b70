------------------------------ MODULE Issuance ------------------------------
(***************************************************************************)
(* What the certificate authority promises of each call, whatever happens  *)
(* to the containers that serve it and to their requests: a call under a   *)
(* fail-closed audit is signed for only once its request is on record, and *)
(* gets its certificate only once the approval is on record too; what is   *)
(* signed after a call's result was asked for before it; and a call gets a *)
(* certificate or an error, never one after the other.                     *)
(***************************************************************************)
CONSTANT Calls

VARIABLES
    admitted,          \* the calls that reached the handler
    promised,          \* those that came under a fail-closed audit
    recorded,          \* the calls whose request is on record
    asked,             \* the calls for which the CA key was asked to sign
    signed,            \* the calls for which it has signed
    approved,          \* the calls whose approval is on record
    granted,           \* the calls answered with a certificate
    refused            \* the calls answered with an error
vars == <<admitted, promised, recorded, asked, signed, approved, granted, refused>>

Init ==
    /\ admitted = {} /\ promised = {} /\ recorded = {} /\ asked = {}
    /\ signed = {} /\ approved = {} /\ granted = {} /\ refused = {}

Answered == granted \cup refused

Admit(k) ==
    /\ k \notin admitted
    /\ admitted' = admitted \cup {k}
    /\ promised' \in {promised, promised \cup {k}}
    /\ UNCHANGED <<recorded, asked, signed, approved, granted, refused>>

\* A record may come late, after the call is answered even.
Record(k) ==
    /\ k \in admitted
    /\ recorded' = recorded \cup {k}
    /\ UNCHANGED <<admitted, promised, asked, signed, approved, granted, refused>>

MayAsk(k) ==
    /\ k \in admitted \ (approved \cup Answered)
    /\ k \in promised => k \in recorded

Ask(k) ==
    /\ MayAsk(k)
    /\ asked' = asked \cup {k}
    /\ UNCHANGED <<admitted, promised, recorded, signed, approved, granted, refused>>

SignFor(k) ==
    /\ k \in asked \/ MayAsk(k)
    /\ asked' = asked \cup {k}
    /\ signed' = signed \cup {k}
    /\ UNCHANGED <<admitted, promised, recorded, approved, granted, refused>>

Approve(k) ==
    /\ k \in signed
    /\ approved' = approved \cup {k}
    /\ UNCHANGED <<admitted, promised, recorded, asked, signed, granted, refused>>

Grant(k) ==
    /\ k \in signed \ Answered
    /\ k \in promised => k \in approved
    /\ granted' = granted \cup {k}
    /\ UNCHANGED <<admitted, promised, recorded, asked, signed, approved, refused>>

Refuse(k) ==
    /\ k \notin Answered
    /\ refused' = refused \cup {k}
    /\ UNCHANGED <<admitted, promised, recorded, asked, signed, approved, granted>>

Next ==
    \E k \in Calls :
        Admit(k) \/ Record(k) \/ Ask(k) \/ SignFor(k) \/ Approve(k) \/ Grant(k) \/ Refuse(k)

Spec == Init /\ [][Next]_vars
-----------------------------------------------------------------------------
\* What follows for a reader of the audit table: a promised call leaves no
\* signature, nor a request for one, without its own request on record, and
\* no certificate without an approval.
Accountable ==
    /\ asked \cap promised \subseteq recorded
    /\ approved \subseteq signed
    /\ signed \subseteq asked
    /\ granted \cap promised \subseteq approved
    /\ granted \subseteq signed
    /\ granted \cap refused = {}
=============================================================================
