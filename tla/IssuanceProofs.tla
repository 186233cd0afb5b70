--------------------------- MODULE IssuanceProofs ---------------------------
(***************************************************************************)
(* What an auditor may conclude from the promises of Issuance.             *)
(***************************************************************************)
EXTENDS Issuance, TLAPS

\* Only for calls that reached the handler is there a request to sign, so a
\* promise comes before the request it is about.
IInv == Accountable /\ asked \subseteq admitted

(***************************************************************************)
(* The order of the steps makes every promised signature, and every        *)
(* promised certificate, one that the audit table accounts for.            *)
(***************************************************************************)
THEOREM Accountability == Spec => []Accountable
<1>1. Init => IInv
    BY DEF Init, IInv, Accountable
<1>2. IInv /\ [Next]_vars => IInv'
    <2> SUFFICES ASSUME IInv, [Next]_vars PROVE IInv'
        OBVIOUS
    <2> USE DEF IInv, Accountable, Answered
    <2>1. ASSUME NEW k \in Calls, Admit(k) PROVE IInv'
        BY <2>1 DEF Admit
    <2>2. ASSUME NEW k \in Calls, Record(k) PROVE IInv'
        BY <2>2 DEF Record
    <2>3. ASSUME NEW k \in Calls, SignFor(k) PROVE IInv'
        BY <2>3 DEF SignFor, MayAsk
    <2>4. ASSUME NEW k \in Calls, Approve(k) PROVE IInv'
        BY <2>4 DEF Approve
    <2>5. ASSUME NEW k \in Calls, Grant(k) PROVE IInv'
        BY <2>5 DEF Grant
    <2>6. ASSUME NEW k \in Calls, Refuse(k) PROVE IInv'
        BY <2>6 DEF Refuse
    <2>7. ASSUME NEW k \in Calls, Ask(k) PROVE IInv'
        BY <2>7 DEF Ask, MayAsk
    <2>8. CASE UNCHANGED vars
        BY <2>8 DEF vars
    <2>9. QED
        BY <2>1, <2>2, <2>3, <2>4, <2>5, <2>6, <2>7, <2>8 DEF Next
<1>3. IInv => Accountable
    BY DEF IInv
<1>4. QED
    BY <1>1, <1>2, <1>3, PTL DEF Spec
=============================================================================
