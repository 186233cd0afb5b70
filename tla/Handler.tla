------------------------------ MODULE Handler ------------------------------
(***************************************************************************)
(* The certificate authority at work: Lambda execution environments        *)
(* (containers) that each load a configuration when they start and then    *)
(* serve one call at a time, sharing an audit table and KMS.               *)
(*                                                                         *)
(* A call goes through Handle one externally visible effect at a time:     *)
(* request event, policy and certificate body, KMS GetPublicKey, KMS Sign, *)
(* result event, response.  A container may be killed between any two of   *)
(* them, another deployment may come up, and an alias may be moved.        *)
(***************************************************************************)
EXTENDS Policy, Audit, KMS

CONSTANTS
    Containers,        \* execution environments Lambda may run
    Calls,             \* invocations of the function
    Configs,           \* configurations that may be deployed
    Callers,           \* request contexts: [userArn, accountID]
    Requests,          \* decoded request bodies
    Serials,           \* numbers randomSerial may draw, of which 0 is no serial
    Cold,              \* a container that is not running
    None               \* no call, no input, no certificate

\* The callers as Handle gets them.
Identities == {ExtractIAMContext(context) : context \in Callers}

Inputs == [cfg : Configs, iam : Identities, req : Requests]

CertTypes == {UserCert, HostCert}

KeyIDs == [certType : CertTypes, principal : ValidNames, nonce : Calls]

\* The certificates of approved requests.
Certificates ==
    [serial     : Serials \ {0},
     certType   : CertTypes,
     key        : {r.key : r \in Requests},
     keyID      : KeyIDs,
     principals : {r.principals : r \in Requests},
     lifetime   : Int,
     source     : {r.source : r \in Requests},
     force      : {r.force : r \in Requests},
     exts       : {r.exts : r \in Requests} \cup {{}, DefaultExtensions},
     caKey      : Keys \cup {Unsigned},
     signedBy   : Keys \cup {Unsigned}]

ASSUME HandlerAssumption ==
    /\ \A cfg \in Configs :
          /\ ValidConfig(cfg) /\ cfg.maxTTL \in Int
          /\ cfg.kmsKeyID \in Keys \cup Aliases
    /\ \A r \in Requests : r.ttl \in Int /\ r.principals \in Seq(DOMAIN Fold)
    /\ Serials \subseteq Nat
    /\ Cold \notin Configs
    /\ None \notin Calls \cup KeyIDs
    /\ None \notin Inputs
    /\ None \notin Certificates

VARIABLES
    deployed,          \* the configuration a new container loads
    target,            \* where each alias points
    loaded,            \* container -> the configuration it loaded, or Cold
    job,               \* container -> the call it is serving, or None
    pc,                \* call -> what it does next
    input,             \* call -> its configuration, caller and request
    cert,              \* call -> the certificate it is building, or None
    verdict,           \* call -> which result event it has come to write
    reply,             \* call -> the error type of its response
    table,             \* the items in the audit table
    puts,              \* the PutItems without an answer still under way
    signed,            \* the signatures KMS has made
    asks               \* the Sign requests left without an answer

callVars == <<pc, input, cert, verdict, reply>>
worldVars == <<deployed, target, loaded, job>>
remoteVars == <<table, puts, signed, asks>>
vars == <<deployed, target, loaded, job, pc, input, cert, verdict, reply,
          table, puts, signed, asks>>

Verdicts == {"none", "policy error", "denied", "sign error", "approved"}

\* The event type and, but for an approval, the error type of each verdict.
EventOf(v) ==
    CASE v = "denied"   -> "signing_denied"
      [] v = "approved" -> "signing_approved"
      [] OTHER          -> "signing_error"

ErrorOf(v) ==
    CASE v = "denied"       -> "Denied"
      [] v = "policy error" -> "InternalError"
      [] OTHER              -> "SigningError"

Certificate == "certificate"     \* a response without an error

Replies == {"none", Certificate, "BadRequest", "AuditError", "Denied",
            "InternalError", "SigningError"}

Events == {"signing_request", "signing_approved", "signing_denied", "signing_error"}

Stages == {"new", "received", "evaluate", "getkey", "sign", "result",
           "reply", "done", "lost"}

Init ==
    /\ deployed \in Configs
    /\ target \in [Aliases -> Keys]
    /\ loaded = [c \in Containers |-> Cold]
    /\ job = [c \in Containers |-> None]
    /\ pc = [k \in Calls |-> "new"]
    /\ input = [k \in Calls |-> None]
    /\ cert = [k \in Calls |-> None]
    /\ verdict = [k \in Calls |-> "none"]
    /\ reply = [k \in Calls |-> "none"]
    /\ table = {} /\ puts = {}
    /\ signed = {} /\ asks = {}

Goto(k, from, to) ==
    /\ pc[k] = from
    /\ pc' = [pc EXCEPT ![k] = to]

DecisionOf(k) == Decision(input[k].req, k)
-----------------------------------------------------------------------------
(* The containers and what surrounds them.                                 *)

\* runLambda: Load, mustSigner and mustAuditRepo, then wait for calls.
ColdStart(c) ==
    /\ loaded[c] = Cold
    /\ loaded' = [loaded EXCEPT ![c] = deployed]
    /\ UNCHANGED <<deployed, target, job, callVars, remoteVars>>

Accept(c, k) ==
    /\ loaded[c] # Cold
    /\ job[c] = None
    /\ job' = [job EXCEPT ![c] = k]
    /\ UNCHANGED <<deployed, target, loaded, cert, verdict, remoteVars>>

Invoke(c, k, iam, req) ==
    /\ Accept(c, k)
    /\ Goto(k, "new", "received")
    /\ input' = [input EXCEPT ![k] = [cfg |-> loaded[c], iam |-> iam, req |-> req]]
    /\ UNCHANGED reply

\* LambdaHandler cannot decode the body: no event is written.
InvokeMalformed(c, k) ==
    /\ Accept(c, k)
    /\ Goto(k, "new", "reply")
    /\ reply' = [reply EXCEPT ![k] = "BadRequest"]
    /\ UNCHANGED input

Deliver(c, k) ==
    /\ job[c] = k
    /\ Goto(k, "reply", "done")
    /\ job' = [job EXCEPT ![c] = None]
    /\ UNCHANGED <<deployed, target, loaded, input, cert, verdict, reply, remoteVars>>

\* Lambda stops a container: at its timeout, for a crash, to scale in.
Kill(c) ==
    /\ loaded[c] # Cold
    /\ loaded' = [loaded EXCEPT ![c] = Cold]
    /\ job' = [job EXCEPT ![c] = None]
    /\ pc' = [k \in Calls |-> IF k = job[c] THEN "lost" ELSE pc[k]]
    /\ UNCHANGED <<deployed, target, input, cert, verdict, reply, remoteVars>>

\* An operator deploys another configuration; warm containers keep theirs.
Deploy(cfg) ==
    /\ deployed' = cfg
    /\ UNCHANGED <<target, loaded, job, callVars, remoteVars>>

\* An operator points an alias at another key.
Repoint(alias, key) ==
    /\ target' = [target EXCEPT ![alias] = key]
    /\ UNCHANGED <<deployed, loaded, job, callVars, remoteVars>>
-----------------------------------------------------------------------------
(* The steps of Handle.                                                    *)

\* The item is stored, or may be stored later on.
Put(k, item, o) ==
    /\ table' = table \cup {r \in {item} : Stores(input[k].cfg, o)}
    /\ puts' = puts \cup {r \in {item} : LeavesUnderWay(input[k].cfg, o)}

RequestRecord(k) ==
    [call |-> k, event |-> "signing_request", keyID |-> None, serial |-> 0]

WriteRequestEvent(k, o) ==
    /\ pc[k] = "received"
    /\ Put(k, RequestRecord(k), o)
    /\ \/ /\ RequestEventStops(input[k].cfg, o)
          /\ reply' = [reply EXCEPT ![k] = "AuditError"]
          /\ Goto(k, "received", "reply")
       \/ /\ ~RequestEventStops(input[k].cfg, o)
          /\ Goto(k, "received", "evaluate")
          /\ UNCHANGED reply
    /\ UNCHANGED <<worldVars, input, cert, verdict, signed, asks>>

\* Come to a result that the result event is to record.
Conclude(k, from, v) ==
    /\ Goto(k, from, "result")
    /\ verdict' = [verdict EXCEPT ![k] = v]
    /\ UNCHANGED <<worldVars, input, reply, table, puts, asks>>

\* Mutant: the policy is that of the latest deployment.
ApprovedNow(k) == Approves(deployed, input[k].iam, input[k].req)

Approved(k) == Approves(input[k].cfg, input[k].iam, input[k].req)

\* Evaluate returns an error: no random bytes for the key ID it gives last.
PolicyFails(k) ==
    /\ Conclude(k, "evaluate", "policy error")
    /\ Approved(k)
    /\ UNCHANGED <<cert, signed>>

Deny(k) ==
    /\ Conclude(k, "evaluate", "denied")
    /\ ~Approved(k)
    /\ UNCHANGED <<cert, signed>>

\* cert.Sign refuses the request, or finds no random bytes for a serial.
RejectCert(k) ==
    /\ Conclude(k, "evaluate", "sign error")
    /\ Approved(k)
    /\ UNCHANGED <<cert, signed>>

\* Mutant: randomSerial does not draw again when it draws zero.
BuildCertZero(k, serial) ==
    /\ Goto(k, "evaluate", "getkey")
    /\ Approved(k)
    /\ ~Rejects(DecisionOf(k))
    /\ cert' = [cert EXCEPT ![k] = Build(DecisionOf(k), serial)]
    /\ UNCHANGED <<worldVars, input, verdict, reply, remoteVars>>

\* cert.Sign up to its signer.  serial is what randomSerial draws last.
BuildCert(k, serial) ==
    /\ serial # 0
    /\ Goto(k, "evaluate", "getkey")
    /\ Approved(k)
    /\ ~Rejects(DecisionOf(k))
    /\ cert' = [cert EXCEPT ![k] = Build(DecisionOf(k), serial)]
    /\ UNCHANGED <<worldVars, input, verdict, reply, remoteVars>>

\* Mutant: the key ID is read again from the latest deployment.
KeyOfNow(k) == Resolve(target, deployed.kmsKeyID)

KeyOf(k) == Resolve(target, input[k].cfg.kmsKeyID)

\* KMS GetPublicKey; SignCert then puts that key in the certificate.
FetchKey(k) ==
    /\ Goto(k, "getkey", "sign")
    /\ Supported(KeyOf(k))
    /\ cert' = [cert EXCEPT ![k] = Naming(cert[k], KeyOf(k))]
    /\ UNCHANGED <<worldVars, input, verdict, reply, remoteVars>>

\* Mutant: a key of another kind has no branch of its own.
FetchFailsSupported(k) ==
    /\ Conclude(k, "getkey", "sign error")
    /\ Supported(KeyOf(k))
    /\ UNCHANGED <<cert, signed>>

\* GetPublicKey fails, or its key has no place in an SSH certificate.
FetchFails(k) ==
    /\ Conclude(k, "getkey", "sign error")
    /\ UNCHANGED <<cert, signed>>

SignRequest(k) == [call |-> k, cert |-> cert[k]]

\* KMS Sign, under the key ID and with the algorithm of the key fetched.
SignedAtKMS(ask) ==
    /\ Signs(target, input[ask.call].cfg.kmsKeyID, ask.cert.caKey)
    /\ signed' = signed \cup
          {[call |-> ask.call, by |-> KeyOf(ask.call), cert |-> ask.cert]}

Sign(k) ==
    /\ Conclude(k, "sign", "approved")
    /\ SignedAtKMS(SignRequest(k))
    /\ cert' = [cert EXCEPT ![k] = SignedBy(cert[k], KeyOf(k))]

\* Mutant: what is tried again is all of cert.Sign.
AskFromTheTop(k) ==
    /\ Goto(k, "sign", "evaluate")
    /\ asks' = asks \cup {SignRequest(k)}
    /\ UNCHANGED <<worldVars, input, cert, verdict, reply, table, puts, signed>>

\* Mutant: Sign is called in the background, and not waited for.
AskInBackground(k) ==
    /\ pc[k] \in {"sign", "reply"}
    /\ cert[k] # None /\ cert[k].caKey # Unsigned
    /\ asks' = asks \cup {SignRequest(k)}
    /\ UNCHANGED <<worldVars, callVars, table, puts, signed>>

\* An attempt at KMS Sign has no answer, and the SDK will try again.
AskUnanswered(k) ==
    /\ pc[k] = "sign"
    /\ asks' = asks \cup {SignRequest(k)}
    /\ UNCHANGED <<worldVars, callVars, table, puts, signed>>

\* Mutant: the error of SignCert is not looked at.
SignFailsUnseen(k) ==
    /\ Conclude(k, "sign", "approved")
    /\ UNCHANGED <<cert, signed>>

\* KMS refuses, or the SDK has no attempt left.
SignFails(k) ==
    /\ Conclude(k, "sign", "sign error")
    /\ UNCHANGED <<cert, signed>>

\* Only events after an approval of the policy have its key ID, and only
\* an approved event a serial.
ResultRecord(k) ==
    [call   |-> k,
     event  |-> EventOf(verdict[k]),
     keyID  |-> IF verdict[k] \in {"sign error", "approved"}
                THEN DecisionOf(k).keyID ELSE None,
     serial |-> IF verdict[k] = "approved" THEN cert[k].serial ELSE 0]

\* Mutant: an approved event that fails is taken for a failed signature.
ResponseToBlamingSigner(k, o) ==
    IF verdict[k] # "approved" THEN ErrorOf(verdict[k])
    ELSE IF ResultEventFails(input[k].cfg, o) THEN "SigningError"
    ELSE Certificate

\* The response: only an approval depends on the fate of its event.
ResponseTo(k, o) ==
    IF verdict[k] # "approved" THEN ErrorOf(verdict[k])
    ELSE IF ResultEventFails(input[k].cfg, o) THEN "AuditError"
    ELSE Certificate

WriteResultEvent(k, o) ==
    /\ Goto(k, "result", "reply")
    /\ Put(k, ResultRecord(k), o)
    /\ reply' = [reply EXCEPT ![k] = ResponseTo(k, o)]
    /\ UNCHANGED <<worldVars, input, cert, verdict, signed, asks>>
-----------------------------------------------------------------------------
(* What was asked for over the network and given up may still happen.      *)

\* KMS carries out a request that nobody waits for any more; there may be
\* others like it.
SignLate(ask) ==
    /\ SignedAtKMS(ask)
    /\ UNCHANGED <<worldVars, callVars, table, puts, asks>>

StoreLate(item) ==
    /\ table' = table \cup {item}
    /\ puts' = puts \ {item}
    /\ UNCHANGED <<worldVars, callVars, signed, asks>>
-----------------------------------------------------------------------------
\* A call does not stop by itself before it has a response.
Handle(k) ==
    \/ \E o \in WriteOutcomes : WriteRequestEvent(k, o) \/ WriteResultEvent(k, o)
    \/ PolicyFails(k) \/ Deny(k) \/ RejectCert(k)
    \/ \E serial \in Serials : BuildCert(k, serial)
    \/ FetchKey(k) \/ FetchFails(k)
    \/ Sign(k) \/ SignFails(k)

Next ==
    \/ \E c \in Containers :
          \/ ColdStart(c)
          \/ Kill(c)
          \/ \E k \in Calls :
                \/ \E iam \in Identities, req \in Requests : Invoke(c, k, iam, req)
                \/ InvokeMalformed(c, k)
                \/ Deliver(c, k)
    \/ \E k \in Calls : Handle(k) \/ AskUnanswered(k)
    \/ \E ask \in asks : SignLate(ask)
    \/ \E item \in puts : StoreLate(item)
    \/ \E cfg \in Configs : Deploy(cfg)
    \/ \E alias \in Aliases, key \in Keys : Repoint(alias, key)

Spec == Init /\ [][Next]_vars

(***************************************************************************)
(* The runtime schedules a running container, and the SDK's attempts at a  *)
(* call are bounded, so a call goes on unless its container is killed.     *)
(* Nothing makes a container start, a call come or a kill happen.          *)
(***************************************************************************)
Fairness ==
    \A k \in Calls :
        /\ WF_vars(Handle(k))
        /\ \A c \in Containers : WF_vars(Deliver(c, k))

LiveSpec == Spec /\ Fairness
-----------------------------------------------------------------------------
(* Types.                                                                  *)

TypeOK ==
    /\ deployed \in Configs
    /\ target \in [Aliases -> Keys]
    /\ loaded \in [Containers -> Configs \cup {Cold}]
    /\ job \in [Containers -> Calls \cup {None}]
    /\ pc \in [Calls -> Stages]
    /\ input \in [Calls -> Inputs \cup {None}]
    /\ cert \in [Calls -> Certificates \cup {None}]
    /\ verdict \in [Calls -> Verdicts]
    /\ reply \in [Calls -> Replies]
    /\ table \cup puts \subseteq
          [call : Calls, event : Events, keyID : KeyIDs \cup {None}, serial : Nat]
    /\ signed \subseteq [call : Calls, by : Keys, cert : Certificates]
    /\ asks \subseteq [call : Calls, cert : Certificates]
-----------------------------------------------------------------------------
(* Safety.                                                                 *)

UnderFailClosed(k) == input[k] # None /\ FailClosed(input[k].cfg)

ResultsOf(k) == {r \in table : r.call = k /\ r.event # "signing_request"}

(***************************************************************************)
(* The CA key never signs for a call whose request is not on record, when  *)
(* the configuration its container loaded is fail-closed: neither a killed *)
(* container, nor a lost answer, nor a redeployment leaves one behind.     *)
(***************************************************************************)
SignedIsRecorded ==
    \A s \in signed : UnderFailClosed(s.call) => RequestRecord(s.call) \in table

(***************************************************************************)
(* A caller who gets a certificate under a fail-closed audit is on record  *)
(* with it: the table has an approved event with the serial and the key ID *)
(* that sshd will log.                                                     *)
(***************************************************************************)
DeliveredIsRecorded ==
    \A k \in Calls :
        reply[k] = Certificate /\ UnderFailClosed(k) =>
            [call |-> k, event |-> "signing_approved",
             keyID |-> cert[k].keyID, serial |-> cert[k].serial] \in table

(***************************************************************************)
(* An approved event always tells of a signature that was made, over the   *)
(* certificate it names; and a denied event of a call for which none was.  *)
(***************************************************************************)
ResultsTellTheTruth ==
    \A r \in table :
        /\ r.event = "signing_approved" =>
              \E s \in signed : /\ s.call = r.call
                               /\ s.cert.serial = r.serial
                               /\ s.cert.keyID = r.keyID
        /\ r.event = "signing_denied" => \A s \in signed : s.call # r.call

(***************************************************************************)
(* So does the response: a certificate handed out is one the CA key signed *)
(* for that very call, with KMS's signature over it; a call refused before *)
(* the signer was never signed for; and a call answered with an error has  *)
(* no approved event, unless it is that event that failed.                 *)
(***************************************************************************)
AnswersTellTheTruth ==
    \A k \in Calls :
        /\ reply[k] = Certificate =>
              \E s \in signed : s.call = k /\ cert[k] = SignedBy(s.cert, s.by)
        /\ reply[k] \in {"BadRequest", "Denied", "InternalError"} =>
              \A s \in signed : s.call # k
        /\ reply[k] \in {"BadRequest", "Denied", "InternalError", "SigningError"} =>
              \A r \in ResultsOf(k) : r.event # "signing_approved"

(***************************************************************************)
(* Only an approved event has a serial, and it always has one: zero is how *)
(* the table says that no certificate was made, so no certificate has it.  *)
(***************************************************************************)
SerialTellsApproval ==
    \A r \in table : r.serial # 0 <=> r.event = "signing_approved"

(***************************************************************************)
(* Whatever the CA key signs is within the policy of the configuration the *)
(* container loaded, whether or not anyone ever received it.               *)
(***************************************************************************)
SignedWithinPolicy ==
    \A s \in signed :
        WithinPolicy(input[s.call].cfg, input[s.call].iam, s.cert)

(***************************************************************************)
(* However often the SDK asks KMS again, a call gets signatures over one   *)
(* certificate: one serial, one key ID, one CA key.                        *)
(***************************************************************************)
RetriesSignOneCertificate ==
    \A s, t \in signed : s.call = t.call => s.cert = t.cert

(***************************************************************************)
(* Fail-open: once the CA key has signed for a call, no trouble with the   *)
(* audit table keeps the certificate from its caller.                      *)
(***************************************************************************)
FailOpenNeverWithholds ==
    \A s \in signed :
        input[s.call].cfg.auditFailOpen => reply[s.call] # "AuditError"

(***************************************************************************)
(* With a key, not an alias, for kms_key_id, a certificate that is handed  *)
(* out names that key as its signer and is signed by it, whatever has been *)
(* deployed since the container started.                                   *)
(***************************************************************************)
DirectKeyVerifies ==
    \A k \in Calls :
        reply[k] = Certificate /\ input[k].cfg.kmsKeyID \in Keys =>
            /\ cert[k].caKey = input[k].cfg.kmsKeyID
            /\ cert[k].signedBy = input[k].cfg.kmsKeyID
-----------------------------------------------------------------------------
(* What a step may never do.                                               *)

\* Nothing has come out of the call yet: no result event, no response, and
\* its container is alive.
Open(k) == ResultsOf(k) = {} /\ reply[k] = "none" /\ pc[k] # "lost"

(***************************************************************************)
(* KMS is asked to sign for a call only while its result is open.  It may  *)
(* sign after that, when a request is carried out that the SDK has given   *)
(* up; but then it does just what it was asked before.                     *)
(***************************************************************************)
AskedBeforeResult ==
    [][/\ \A ask \in asks' \ asks : Open(ask.call)
       /\ \A s \in signed' \ signed :
             Open(s.call) \/ [call |-> s.call, cert |-> s.cert] \in asks]_vars
-----------------------------------------------------------------------------
(* Liveness.                                                               *)

\* A call the handler took on is answered, unless its container is killed.
EveryCallEnds ==
    \A k \in Calls : pc[k] = "received" ~> pc[k] \in {"done", "lost"}

\* Under fail-open a certificate that is ready reaches its caller, unless
\* the container is killed.
FailOpenDelivers ==
    \A k \in Calls :
        verdict[k] = "approved" /\ input[k].cfg.auditFailOpen
            ~> \/ pc[k] = "done" /\ reply[k] = Certificate
               \/ pc[k] = "lost"
-----------------------------------------------------------------------------
(* The abstract specification this one implements.                         *)

\* What each variable of Issuance is, in the handler's state.
AdmittedCalls == {k \in Calls : input[k] # None}
PromisedCalls == {k \in Calls : UnderFailClosed(k)}
RecordedCalls == {k \in Calls : RequestRecord(k) \in table}
SignedCalls == {k \in Calls : \E s \in signed : s.call = k}
AskedCalls == SignedCalls \cup {k \in Calls : \E ask \in asks : ask.call = k}
ApprovedCalls ==
    {k \in Calls : \E r \in table : r.call = k /\ r.event = "signing_approved"}
GrantedCalls == {k \in Calls : pc[k] = "done" /\ reply[k] = Certificate}
RefusedCalls == {k \in Calls : pc[k] = "done" /\ reply[k] # Certificate}

Promise ==
    INSTANCE Issuance WITH
        admitted <- AdmittedCalls, promised <- PromisedCalls,
        recorded <- RecordedCalls, asked <- AskedCalls, signed <- SignedCalls,
        approved <- ApprovedCalls, granted <- GrantedCalls, refused <- RefusedCalls

\* Every behaviour of the handler is one that Issuance allows.
KeepsPromise == Promise!Spec
-----------------------------------------------------------------------------
(* What the repository's documents say, and the code does not do.          *)

\* A call that got past its request event and was turned down.
TurnedDown(k) ==
    pc[k] = "done" /\ reply[k] \in {"Denied", "InternalError", "SigningError"}

\* docs/ARCHITECTURE.md: the audit records every decision, rejections too;
\* docs/adr/002: rejected decisions must be audited.  An event that may still
\* be stored is not held against the code.
RejectionsAudited ==
    \A k \in Calls :
        TurnedDown(k) /\ UnderFailClosed(k) =>
            \E r \in table \cup puts : r.call = k /\ r.event # "signing_request"

\* docs/COMPATIBILITY.md: the signature key of a certificate is the CA's
\* public key, and kms_key_id may be an alias.  A certificate handed out is
\* signed by the key it names.
CertificateVerifies ==
    \A k \in Calls : reply[k] = Certificate => cert[k].caKey = cert[k].signedBy
=============================================================================
