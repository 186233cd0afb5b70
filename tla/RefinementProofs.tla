-------------------------- MODULE RefinementProofs --------------------------
(***************************************************************************)
(* Handler implements Issuance: the proof.  Each step of the handler is    *)
(* one of Issuance's for the same call, or changes nothing it speaks of.   *)
(***************************************************************************)
EXTENDS HandlerProofs

PromiseStep == Promise!Next \/ UNCHANGED Promise!vars

\* The handler starts as Issuance does.
LEMMA InitPromise == Init => Promise!Init
BY DEF Init, Promise!Init, AdmittedCalls, PromisedCalls, RecordedCalls, SignedCalls,
       AskedCalls, ApprovedCalls, GrantedCalls, RefusedCalls, UnderFailClosed

(***************************************************************************)
(* Who was admitted, and under which promise, changes only with inputs.    *)
(***************************************************************************)
LEMMA SameInputs ==
    ASSUME \A j \in Calls : input'[j] = input[j]
    PROVE  UNCHANGED <<AdmittedCalls, PromisedCalls>>
BY DEF AdmittedCalls, PromisedCalls, UnderFailClosed

\* Who was answered, and how, changes only at the end of a call.
LEMMA SameAnswers ==
    ASSUME \A j \in Calls : pc'[j] = "done" <=> pc[j] = "done",
           \A j \in Calls : pc[j] = "done" => reply'[j] = reply[j]
    PROVE  UNCHANGED <<GrantedCalls, RefusedCalls>>
BY DEF GrantedCalls, RefusedCalls

\* What is on record changes only with the table.
LEMMA SameTable ==
    ASSUME UNCHANGED table
    PROVE  UNCHANGED <<RecordedCalls, ApprovedCalls>>
BY DEF RecordedCalls, ApprovedCalls

\* Who was asked and signed for changes only with the requests and signatures.
LEMMA SameSignatures ==
    ASSUME UNCHANGED <<signed, asks>>
    PROVE  UNCHANGED <<AskedCalls, SignedCalls>>
BY DEF AskedCalls, SignedCalls

(***************************************************************************)
(* A step that does none of this is none of Issuance's.                    *)
(***************************************************************************)
LEMMA Unseen ==
    ASSUME \A j \in Calls : input'[j] = input[j],
           \A j \in Calls : pc'[j] = "done" <=> pc[j] = "done",
           \A j \in Calls : pc[j] = "done" => reply'[j] = reply[j],
           UNCHANGED <<table, signed, asks>>
    PROVE  PromiseStep
BY SameInputs, SameAnswers, SameTable, SameSignatures DEF PromiseStep, Promise!vars
-----------------------------------------------------------------------------
(* The steps that Issuance sees.                                           *)

\* A call that comes is admitted, promised a record or not.
LEMMA InvokeAdmits ==
    ASSUME IInv, NEW c \in Containers, NEW k \in Calls,
           NEW iam \in Identities, NEW req \in Requests, Invoke(c, k, iam, req)
    PROVE  PromiseStep
<1> USE DEF Invoke, Accept, Goto, remoteVars
<1>1. TypeOK /\ CallInv(k) /\ pc[k] = "new"
    BY DEF IInv
<1>2. input[k] = None /\ input'[k] # None
    <2>1. [cfg |-> loaded[c], iam |-> iam, req |-> req] \in Inputs
        BY <1>1 DEF TypeOK, Inputs
    <2>2. QED
        BY <1>1, <2>1, HandlerAssumption DEF TypeOK, CallInv, Staged
<1>3. \A j \in Calls \ {k} : input'[j] = input[j]
    BY <1>1 DEF TypeOK
<1>4. k \notin AdmittedCalls /\ AdmittedCalls' = AdmittedCalls \cup {k}
    BY <1>2, <1>3 DEF AdmittedCalls
<1>5. PromisedCalls' \in {PromisedCalls, PromisedCalls \cup {k}}
    <2>1. k \notin PromisedCalls
        BY <1>2 DEF PromisedCalls, UnderFailClosed
    <2>2. \A j \in Calls \ {k} : j \in PromisedCalls' <=> j \in PromisedCalls
        BY <1>3 DEF PromisedCalls, UnderFailClosed
    <2>3. PromisedCalls \subseteq Calls /\ PromisedCalls' \subseteq Calls
        BY DEF PromisedCalls
    <2>4. CASE k \in PromisedCalls'
        <3>1. PromisedCalls' = PromisedCalls \cup {k}
            BY <2>2, <2>3, <2>4
        <3>2. QED
            BY <3>1
    <2>5. CASE k \notin PromisedCalls'
        <3>1. PromisedCalls' = PromisedCalls
            BY <2>1, <2>2, <2>3, <2>5
        <3>2. QED
            BY <3>1
    <2>6. QED
        BY <2>4, <2>5
<1>6. UNCHANGED <<RecordedCalls, ApprovedCalls, AskedCalls, SignedCalls>>
    BY SameTable, SameSignatures
<1>7. UNCHANGED <<GrantedCalls, RefusedCalls>>
    BY <1>1, SameAnswers DEF TypeOK
<1>8. Promise!Admit(k)
    BY <1>4, <1>5, <1>6, <1>7 DEF Promise!Admit
<1>9. QED
    BY <1>8 DEF PromiseStep, Promise!Next

\* A response is a grant or a refusal.
LEMMA DeliverAnswers ==
    ASSUME IInv, NEW c \in Containers, NEW k \in Calls, Deliver(c, k)
    PROVE  PromiseStep
<1> USE DEF Deliver, Goto, remoteVars
<1>1. TypeOK /\ CallInv(k) /\ pc[k] = "reply" /\ pc'[k] = "done"
    BY DEF IInv, TypeOK
<1>2. \A j \in Calls \ {k} : pc'[j] = pc[j]
    BY <1>1 DEF TypeOK
<1>3. UNCHANGED <<AdmittedCalls, PromisedCalls, RecordedCalls, ApprovedCalls, AskedCalls,
                  SignedCalls>>
    BY SameInputs, SameTable, SameSignatures
<1>4. k \notin GrantedCalls \cup RefusedCalls
    BY <1>1 DEF GrantedCalls, RefusedCalls
<1>5. CASE reply[k] = Certificate
    <2>1. GrantedCalls' = GrantedCalls \cup {k} /\ RefusedCalls' = RefusedCalls
        BY <1>1, <1>2, <1>5 DEF GrantedCalls, RefusedCalls
    <2>2. verdict[k] = "approved" /\ k \in SignedCalls
        BY <1>1, <1>5 DEF CallInv, Settled, SignedCalls
    <2>3. k \in PromisedCalls => k \in ApprovedCalls
        <3>1. ResultRecord(k).call = k /\ ResultRecord(k).event = "signing_approved"
            BY <2>2 DEF ResultRecord, EventOf
        <3>2. UnderFailClosed(k) => ResultRecord(k) \in table
            BY <1>1, <1>5 DEF CallInv, OnRecord
        <3>3. QED
            BY <3>1, <3>2 DEF PromisedCalls, ApprovedCalls
    <2>4. Promise!Grant(k)
        BY <1>3, <1>4, <2>1, <2>2, <2>3 DEF Promise!Grant, Promise!Answered
    <2>5. QED
        BY <2>4 DEF PromiseStep, Promise!Next
<1>6. CASE reply[k] # Certificate
    <2>1. GrantedCalls' = GrantedCalls /\ RefusedCalls' = RefusedCalls \cup {k}
        BY <1>1, <1>2, <1>6 DEF GrantedCalls, RefusedCalls
    <2>2. Promise!Refuse(k)
        BY <1>3, <1>4, <2>1 DEF Promise!Refuse, Promise!Answered
    <2>3. QED
        BY <2>2 DEF PromiseStep, Promise!Next
<1>7. QED
    BY <1>5, <1>6

(***************************************************************************)
(* A request event that is stored, when it is sent or later, is the record *)
(* of its call.                                                            *)
(***************************************************************************)
LEMMA RequestStored ==
    ASSUME NEW k \in AdmittedCalls, table' = table \cup {RequestRecord(k)},
           \A j \in Calls : input'[j] = input[j],
           \A j \in Calls : pc'[j] = "done" <=> pc[j] = "done",
           \A j \in Calls : pc[j] = "done" => reply'[j] = reply[j],
           UNCHANGED <<signed, asks>>
    PROVE  PromiseStep
<1>1. UNCHANGED <<AdmittedCalls, PromisedCalls, GrantedCalls, RefusedCalls, AskedCalls,
                  SignedCalls>>
    BY SameInputs, SameAnswers, SameSignatures
<1>2. k \in Calls
    BY DEF AdmittedCalls
<1>3. RecordedCalls' = RecordedCalls \cup {k}
    BY <1>2 DEF RecordedCalls, RequestRecord
<1>4. ApprovedCalls' = ApprovedCalls
    BY DEF ApprovedCalls, RequestRecord
<1>5. Promise!Record(k)
    BY <1>1, <1>3, <1>4 DEF Promise!Record
<1>6. QED
    BY <1>2, <1>5 DEF PromiseStep, Promise!Next

(***************************************************************************)
(* A result event that is stored, when it is sent or later, is the         *)
(* approval of a call that was signed for, or nothing that Issuance sees.  *)
(***************************************************************************)
LEMMA ResultStored ==
    ASSUME NEW k \in Calls, CallInv(k), verdict[k] # "none",
           table' = table \cup {ResultRecord(k)},
           \A j \in Calls : input'[j] = input[j],
           \A j \in Calls : pc'[j] = "done" <=> pc[j] = "done",
           \A j \in Calls : pc[j] = "done" => reply'[j] = reply[j],
           UNCHANGED <<signed, asks>>
    PROVE  PromiseStep
<1>1. UNCHANGED <<AdmittedCalls, PromisedCalls, GrantedCalls, RefusedCalls, AskedCalls,
                  SignedCalls>>
    BY SameInputs, SameAnswers, SameSignatures
<1>2. ResultRecord(k).call = k /\ ResultRecord(k).event = EventOf(verdict[k])
    BY DEF ResultRecord
<1>3. RecordedCalls' = RecordedCalls
    <2>1. ResultRecord(k).event # "signing_request"
        BY <1>2 DEF EventOf
    <2>2. \A j \in Calls : ResultRecord(k) # RequestRecord(j)
        BY <2>1 DEF RequestRecord
    <2>3. QED
        BY <2>2 DEF RecordedCalls
<1>4. CASE verdict[k] # "approved"
    <2>1. ResultRecord(k).event # "signing_approved"
        BY <1>2, <1>4 DEF EventOf
    <2>2. ApprovedCalls' = ApprovedCalls
        BY <2>1 DEF ApprovedCalls
    <2>3. QED
        BY <1>1, <1>3, <2>2 DEF PromiseStep, Promise!vars
<1>5. CASE verdict[k] = "approved"
    <2>1. ResultRecord(k).event = "signing_approved"
        BY <1>2, <1>5 DEF EventOf
    <2>2. ApprovedCalls' = ApprovedCalls \cup {k}
        BY <1>2, <2>1 DEF ApprovedCalls
    <2>3. k \in SignedCalls
        BY <1>5 DEF SignedCalls, CallInv, Settled
    <2>4. Promise!Approve(k)
        BY <1>1, <1>3, <2>2, <2>3 DEF Promise!Approve
    <2>5. QED
        BY <2>4 DEF PromiseStep, Promise!Next
<1>6. QED
    BY <1>4, <1>5

\* The first write of a call is of its request event.
LEMMA WriteRequestEventRecords ==
    ASSUME IInv, NEW k \in Calls, NEW o \in WriteOutcomes, WriteRequestEvent(k, o)
    PROVE  PromiseStep
<1> USE DEF WriteRequestEvent, Goto, worldVars, Put
<1>1. TypeOK /\ CallInv(k) /\ pc[k] = "received"
    BY DEF IInv
<1>2. /\ \A j \in Calls : pc'[j] = "done" <=> pc[j] = "done"
      /\ \A j \in Calls : pc[j] = "done" => reply'[j] = reply[j]
      /\ UNCHANGED <<input, signed, asks>>
    BY <1>1 DEF TypeOK
<1>3. table' = table \/ table' = table \cup {RequestRecord(k)}
    OBVIOUS
<1>4. k \in AdmittedCalls
    BY <1>1 DEF AdmittedCalls, CallInv, Staged, Serving
<1>5. QED
    BY <1>2, <1>3, <1>4, RequestStored, Unseen

\* The last one is of its result event.
LEMMA WriteResultEventApproves ==
    ASSUME IInv, NEW k \in Calls, NEW o \in WriteOutcomes, WriteResultEvent(k, o)
    PROVE  PromiseStep
<1> USE DEF WriteResultEvent, Goto, worldVars, Put
<1>1. TypeOK /\ CallInv(k) /\ pc[k] = "result"
    BY DEF IInv
<1>2. /\ \A j \in Calls : pc'[j] = "done" <=> pc[j] = "done"
      /\ \A j \in Calls : pc[j] = "done" => reply'[j] = reply[j]
      /\ UNCHANGED <<input, signed, asks>>
    BY <1>1 DEF TypeOK
<1>3. table' = table \/ table' = table \cup {ResultRecord(k)}
    OBVIOUS
<1>4. verdict[k] # "none"
    BY <1>1 DEF CallInv, Staged
<1>5. QED
    BY <1>1, <1>2, <1>3, <1>4, ResultStored, Unseen

\* What is stored late is one of the two.
LEMMA StoreLateRecords ==
    ASSUME IInv, NEW item \in puts, StoreLate(item)
    PROVE  PromiseStep
<1> USE DEF StoreLate, worldVars, callVars
<1>1. PICK k \in Calls : k = item.call
    BY DEF IInv, TypeOK
<1>2. CallInv(k) /\ Explained(item)
    BY <1>1 DEF IInv, CallInv
<1>3. CASE item = RequestRecord(k) /\ input[k] # None
    <2>1. k \in AdmittedCalls
        BY <1>3 DEF AdmittedCalls
    <2>2. QED
        BY <1>3, <2>1, RequestStored
<1>4. CASE item = ResultRecord(k) /\ verdict[k] # "none"
    BY <1>2, <1>4, ResultStored
<1>5. QED
    BY <1>1, <1>2, <1>3, <1>4 DEF Explained

(***************************************************************************)
(* A call about to be signed for is on record, if it was promised that,    *)
(* and has no result yet: KMS may be asked.                                *)
(***************************************************************************)
LEMMA AskingAllowed ==
    ASSUME IInv, NEW k \in Calls, pc[k] = "sign"
    PROVE  Promise!MayAsk(k)
<1>1. TypeOK /\ CallInv(k)
    BY DEF IInv
<1>2. k \in AdmittedCalls
    BY <1>1 DEF AdmittedCalls, CallInv, Staged, Serving
<1>3. k \notin ApprovedCalls
    BY <1>1 DEF ApprovedCalls, CallInv, Explained, RequestRecord
<1>4. k \notin GrantedCalls \cup RefusedCalls
    BY <1>1 DEF GrantedCalls, RefusedCalls
<1>5. k \in PromisedCalls => k \in RecordedCalls
    BY <1>1 DEF PromisedCalls, RecordedCalls, CallInv, OnRecord
<1>6. QED
    BY <1>2, <1>3, <1>4, <1>5 DEF Promise!MayAsk, Promise!Answered

\* A request that is left without an answer is one to sign for its call.
LEMMA AskUnansweredAsks ==
    ASSUME IInv, NEW k \in Calls, AskUnanswered(k)
    PROVE  PromiseStep
<1> USE DEF AskUnanswered, worldVars, callVars
<1>1. UNCHANGED <<AdmittedCalls, PromisedCalls, GrantedCalls, RefusedCalls, RecordedCalls,
                  ApprovedCalls, SignedCalls>>
    BY SameInputs, SameAnswers, SameTable DEF SignedCalls
<1>2. PICK new : new = SignRequest(k)
    OBVIOUS
<1>3. asks' = asks \cup {new} /\ new.call = k
    BY <1>2 DEF SignRequest
<1>4. AskedCalls' = AskedCalls \cup {k}
    BY <1>1, <1>3 DEF AskedCalls
<1>5. Promise!MayAsk(k)
    BY AskingAllowed
<1>6. Promise!Ask(k)
    BY <1>1, <1>4, <1>5 DEF Promise!Ask
<1>7. QED
    BY <1>6 DEF PromiseStep, Promise!Next

\* A signature is for a call that may be asked for, or was.
LEMMA SigningSigns ==
    ASSUME NEW k \in Calls, NEW new, new.call = k, signed' = signed \cup {new},
           Promise!MayAsk(k) \/ k \in AskedCalls,
           \A j \in Calls : pc'[j] = "done" <=> pc[j] = "done",
           UNCHANGED <<input, reply, table, asks>>
    PROVE  PromiseStep
<1>1. UNCHANGED <<AdmittedCalls, PromisedCalls, GrantedCalls, RefusedCalls, RecordedCalls,
                  ApprovedCalls>>
    BY SameInputs, SameAnswers, SameTable
<1>2. SignedCalls' = SignedCalls \cup {k}
    BY DEF SignedCalls
<1>3. AskedCalls' = AskedCalls \cup {k}
    BY <1>2 DEF AskedCalls
<1>4. Promise!SignFor(k)
    BY <1>1, <1>2, <1>3 DEF Promise!SignFor
<1>5. QED
    BY <1>4 DEF PromiseStep, Promise!Next

\* The signature that KMS answers with.
LEMMA SignSigns ==
    ASSUME IInv, NEW k \in Calls, Sign(k)
    PROVE  PromiseStep
<1> USE DEF Sign, Conclude, Goto, SignedAtKMS, SignRequest, worldVars
<1>1. TypeOK /\ pc[k] = "sign"
    BY DEF IInv
<1>2. PICK new : new = [call |-> k, by |-> KeyOf(k), cert |-> cert[k]]
    OBVIOUS
<1>3. signed' = signed \cup {new} /\ new.call = k
    BY <1>2
<1>4. \A j \in Calls : pc'[j] = "done" <=> pc[j] = "done"
    BY <1>1 DEF TypeOK
<1>5. QED
    BY <1>1, <1>3, <1>4, AskingAllowed, SigningSigns

\* One that nobody waits for.
LEMMA SignLateSigns ==
    ASSUME IInv, NEW ask \in asks, SignLate(ask)
    PROVE  PromiseStep
<1> USE DEF SignLate, SignedAtKMS, worldVars, callVars
<1>1. ask.call \in Calls /\ ask.call \in AskedCalls
    BY DEF IInv, TypeOK, AskedCalls
<1>2. PICK new : new = [call |-> ask.call, by |-> KeyOf(ask.call), cert |-> ask.cert]
    OBVIOUS
<1>3. signed' = signed \cup {new} /\ new.call = ask.call
    BY <1>2
<1>4. QED
    BY <1>1, <1>3, SigningSigns
-----------------------------------------------------------------------------
(* The steps that Issuance does not see.                                   *)

\* A step of Handle that neither writes an event nor signs.
LEMMA HandleUnseen ==
    ASSUME IInv, NEW k \in Calls,
           \/ PolicyFails(k) \/ Deny(k) \/ RejectCert(k)
           \/ \E serial \in Serials : BuildCert(k, serial)
           \/ FetchKey(k) \/ FetchFails(k) \/ SignFails(k)
    PROVE  PromiseStep
<1>1. TypeOK
    BY DEF IInv
<1>2. ASSUME NEW from \in {"evaluate", "getkey", "sign"}, NEW v, Conclude(k, from, v),
             UNCHANGED signed
      PROVE  PromiseStep
    <2>1. /\ \A j \in Calls : pc'[j] = "done" <=> pc[j] = "done"
          /\ UNCHANGED <<input, reply, table, signed, asks>>
        BY <1>1, <1>2 DEF TypeOK, Conclude, Goto
    <2>2. QED
        BY <2>1, Unseen
<1>3. CASE PolicyFails(k) \/ Deny(k) \/ RejectCert(k) \/ FetchFails(k) \/ SignFails(k)
    BY <1>2, <1>3 DEF PolicyFails, Deny, RejectCert, FetchFails, SignFails
<1>4. CASE FetchKey(k) \/ \E serial \in Serials : BuildCert(k, serial)
    <2>1. /\ \A j \in Calls : pc'[j] = "done" <=> pc[j] = "done"
          /\ UNCHANGED <<input, reply, table, signed, asks>>
        BY <1>1, <1>4 DEF TypeOK, FetchKey, BuildCert, Goto, worldVars, remoteVars
    <2>2. QED
        BY <2>1, Unseen
<1>5. QED
    BY <1>3, <1>4

\* A call whose body cannot be decoded is not yet answered.
LEMMA MalformedUnseen ==
    ASSUME IInv, NEW k \in Calls, NEW c \in Containers, InvokeMalformed(c, k)
    PROVE  PromiseStep
<1>1. /\ \A j \in Calls : pc'[j] = "done" <=> pc[j] = "done"
      /\ \A j \in Calls : pc[j] = "done" => reply'[j] = reply[j]
      /\ UNCHANGED <<input, table, signed, asks>>
    BY DEF IInv, TypeOK, InvokeMalformed, Accept, Goto, remoteVars
<1>2. QED
    BY <1>1, Unseen

\* A killed container was serving a call that is not yet answered.
LEMMA KillUnseen ==
    ASSUME IInv, NEW c \in Containers, Kill(c)
    PROVE  PromiseStep
<1>1. \A j \in Calls : pc'[j] = "done" <=> pc[j] = "done"
    BY HandlerAssumption DEF IInv, TypeOK, JobInv, Kill, Serving
<1>2. UNCHANGED <<input, reply, table, signed, asks>>
    BY DEF Kill, remoteVars
<1>3. QED
    BY <1>1, <1>2, Unseen

(***************************************************************************)
(* Every step of the handler is one of Issuance or a stuttering step.      *)
(***************************************************************************)
LEMMA NextPromise == IInv /\ [Next]_vars => PromiseStep
<1> SUFFICES ASSUME IInv, [Next]_vars PROVE PromiseStep
    OBVIOUS
<1>1. ASSUME NEW c \in Containers, ColdStart(c) \/ Kill(c) PROVE PromiseStep
    BY <1>1, KillUnseen, Unseen DEF ColdStart, callVars, remoteVars
<1>2. ASSUME NEW c \in Containers, NEW k \in Calls, NEW iam \in Identities,
             NEW req \in Requests, Invoke(c, k, iam, req)
      PROVE  PromiseStep
    BY <1>2, InvokeAdmits
<1>3. ASSUME NEW c \in Containers, NEW k \in Calls,
             InvokeMalformed(c, k) \/ Deliver(c, k)
      PROVE  PromiseStep
    BY <1>3, MalformedUnseen, DeliverAnswers
<1>4. ASSUME NEW k \in Calls, Handle(k) PROVE PromiseStep
    BY <1>4, WriteRequestEventRecords, WriteResultEventApproves, SignSigns, HandleUnseen
       DEF Handle
<1>5. ASSUME \/ \E k \in Calls : AskUnanswered(k)
             \/ \E ask \in asks : SignLate(ask)
             \/ \E item \in puts : StoreLate(item)
      PROVE  PromiseStep
    BY <1>5, AskUnansweredAsks, SignLateSigns, StoreLateRecords
<1>6. ASSUME \/ \E cfg \in Configs : Deploy(cfg)
             \/ \E alias \in Aliases, key \in Keys : Repoint(alias, key)
      PROVE  PromiseStep
    BY <1>6, Unseen DEF Deploy, Repoint, callVars, remoteVars
<1>7. CASE UNCHANGED vars
    BY <1>7, Unseen DEF vars
<1>8. QED
    BY <1>1, <1>2, <1>3, <1>4, <1>5, <1>6, <1>7 DEF Next

(***************************************************************************)
(* The handler, with its containers, its redeployments and its faults,     *)
(* keeps the promises of Issuance.                                         *)
(***************************************************************************)
THEOREM Implements == Spec => KeepsPromise
<1>1. Init => Promise!Init
    BY InitPromise
<1>2. IInv /\ [Next]_vars => [Promise!Next]_Promise!vars
    BY NextPromise DEF PromiseStep
<1>3. QED
    BY <1>1, <1>2, Invariance, PTL DEF KeepsPromise, Promise!Spec, Spec

\* Issuance, with what is proved of it, in the handler's state.
Ledger ==
    INSTANCE IssuanceProofs WITH
        admitted <- AdmittedCalls, promised <- PromisedCalls,
        recorded <- RecordedCalls, asked <- AskedCalls, signed <- SignedCalls,
        approved <- ApprovedCalls, granted <- GrantedCalls, refused <- RefusedCalls

(***************************************************************************)
(* So the calls are accounted for as Issuance has it: under a fail-closed  *)
(* audit KMS is asked to sign for none without its request on record, and  *)
(* none gets a certificate without its approval on record; what is signed  *)
(* was asked for, what is approved or granted was signed for; and none is  *)
(* both granted and refused.                                               *)
(***************************************************************************)
THEOREM CallsAccountedFor == Spec => []Promise!Accountable
<1>1. Promise!Init <=> Ledger!Init
    BY DEF Promise!Init, Ledger!Init
<1>2. [Promise!Next]_Promise!vars <=> [Ledger!Next]_Ledger!vars
    BY Zenon DEF Promise!Next, Promise!vars, Ledger!Next, Ledger!vars,
        Promise!Admit, Promise!Record, Promise!MayAsk, Promise!Ask, Promise!SignFor,
        Promise!Approve, Promise!Grant, Promise!Refuse, Promise!Answered, Ledger!Admit,
        Ledger!Record, Ledger!MayAsk, Ledger!Ask, Ledger!SignFor, Ledger!Approve,
        Ledger!Grant, Ledger!Refuse, Ledger!Answered
<1>3. Promise!Accountable <=> Ledger!Accountable
    BY Zenon DEF Promise!Accountable, Ledger!Accountable
<1>4. Ledger!Spec => []Ledger!Accountable
    BY Ledger!Accountability
<1>5. QED
    BY <1>1, <1>2, <1>3, <1>4, Implements, PTL
       DEF KeepsPromise, Ledger!Spec, Promise!Spec
=============================================================================
