--------------------------- MODULE HandlerProofs ---------------------------
(***************************************************************************)
(* Proofs about Handler: that IInv is an invariant, and what follows.      *)
(***************************************************************************)
EXTENDS HandlerInv, PolicyProofs

\* Nothing has happened yet.
LEMMA InitIInv == Init => IInv
<1> SUFFICES ASSUME Init PROVE IInv
    OBVIOUS
<1>1. TypeOK
    BY DEF Init, TypeOK, Stages, Verdicts, Replies
<1>2. JobInv
    BY DEF Init, JobInv
<1>3. \A k \in Calls : CallInv(k)
    BY DEF Init, CallInv, Staged, Settled, Derived, OnRecord, Serving, Certificate
<1>4. QED
    BY <1>1, <1>2, <1>3 DEF IInv
-----------------------------------------------------------------------------
(***************************************************************************)
(* The lifetime of a certificate is a whole number of seconds.             *)
(***************************************************************************)
LEMMA LifetimeInt ==
    ASSUME NEW ttl \in Int
    PROVE  Duration(ttl) \in Int /\ Duration(ttl) \div Second \in Int
<1>1. Second \in Nat \ {0} /\ Int64Max \in Nat
    BY SecondAssumption, PolicyAssumption
<1>2. ttl * Second \in Int
    BY <1>1
<1> DEFINE m == ttl * Second
<1> HIDE DEF m
<1>3. Wrap(m) \in Int
    BY <1>1, <1>2 DEF Wrap, m
<1>4. Wrap(m) \div Second \in Int
    BY <1>1, <1>3
<1>5. QED
    BY <1>3, <1>4 DEF Duration, m

(***************************************************************************)
(* An approved request has a type and a key ID a certificate can have.     *)
(***************************************************************************)
LEMMA KeyIDOfApproved ==
    ASSUME NEW k \in Calls, input[k] \in Inputs, Approved(k)
    PROVE  /\ DecisionOf(k).certType \in CertTypes
           /\ DecisionOf(k).keyID \in KeyIDs
<1> DEFINE req == input[k].req
<1>1. req.principals \in Seq(DOMAIN Fold)
    BY HandlerAssumption DEF Inputs
<1>2. NormType[req.certType] \in CertTypes /\ req.principals # <<>>
    BY ApprovedPasses DEF Approved, CertTypes
<1>3. Head(req.principals) \in ValidNames
    <2>1. 1 \in DOMAIN req.principals /\ Head(req.principals) = req.principals[1]
        BY <1>1, <1>2
    <2>2. QED
        BY <2>1, ApprovedNamesValid DEF Approved
<1>4. QED
    BY <1>2, <1>3 DEF KeyIDs, DecisionOf, Decision, KeyID

(***************************************************************************)
(* What an approved request is built into is a certificate.                *)
(***************************************************************************)
LEMMA BuiltIsCertificate ==
    ASSUME NEW k \in Calls, input[k] \in Inputs, Approved(k), NEW serial \in Serials \ {0}
    PROVE  Build(DecisionOf(k), serial) \in Certificates
<1> DEFINE req == input[k].req
           d   == DecisionOf(k)
<1>1. /\ req \in Requests
      /\ req.ttl \in Int
    BY HandlerAssumption DEF Inputs
<1>2. Lifetime(d) \in Int
    BY <1>1, LifetimeInt DEF Lifetime, DecisionOf, Decision
<1>3. Extensions(d) \in {r.exts : r \in Requests} \cup {{}, DefaultExtensions}
    BY <1>1 DEF Extensions, DecisionOf, Decision
<1>4. /\ d.certType \in CertTypes
      /\ d.keyID \in KeyIDs
      /\ d.key \in {r.key : r \in Requests}
      /\ d.principals \in {r.principals : r \in Requests}
      /\ d.source \in {r.source : r \in Requests}
      /\ d.force \in {r.force : r \in Requests}
    BY <1>1, KeyIDOfApproved DEF DecisionOf, Decision
<1> HIDE DEF d
<1>5. Build(d, serial) \in Certificates
    BY <1>2, <1>3, <1>4 DEF Build, Certificates
<1>6. QED
    BY <1>5 DEF d

(***************************************************************************)
(* SignCert keeps a certificate one, whatever key it names.                *)
(***************************************************************************)
LEMMA NamingIsCertificate ==
    ASSUME NEW body \in Certificates, NEW key \in Keys
    PROVE  /\ Naming(body, key) \in Certificates
           /\ Naming(body, key).signedBy = body.signedBy
           /\ Naming(body, key).caKey = key
BY DEF Certificates, Naming

\* KMS's signature leaves every other field of a certificate as it is.
LEMMA SignedByIsCertificate ==
    ASSUME NEW body \in Certificates, NEW key \in Keys \cup {Unsigned}
    PROVE  /\ SignedBy(body, key) \in Certificates
           /\ SignedBy(body, key).signedBy = key
           /\ SignedBy(SignedBy(body, key), Unsigned) = SignedBy(body, Unsigned)
           /\ body.signedBy = Unsigned => SignedBy(body, Unsigned) = body
           /\ SignedBy(body, key).serial = body.serial
           /\ SignedBy(body, key).keyID = body.keyID
           /\ SignedBy(body, key).caKey = body.caKey
BY DEF Certificates, SignedBy

(***************************************************************************)
(* What a call may build, it may still have built after each half of       *)
(* SignCert.                                                               *)
(***************************************************************************)
LEMMA BuildThenSign ==
    ASSUME NEW d, NEW serial, NEW ca, NEW by, NEW key
    PROVE  /\ SignedBy(Naming(Build(d, serial), Unsigned), Unsigned) = Build(d, serial)
           /\ Naming(SignedBy(Naming(Build(d, serial), ca), by), key)
                = SignedBy(Naming(Build(d, serial), key), by)
           /\ SignedBy(SignedBy(Naming(Build(d, serial), ca), by), key)
                = SignedBy(Naming(Build(d, serial), ca), key)
<1>1. SignedBy(Naming(Build(d, serial), Unsigned), Unsigned) = Build(d, serial)
    <2>1. Naming(Build(d, serial), Unsigned) = Build(d, serial)
        BY DEF Build, Naming
    <2>2. SignedBy(Build(d, serial), Unsigned) = Build(d, serial)
        BY DEF Build, SignedBy
    <2>3. QED
        BY <2>1, <2>2
<1>2. Naming(SignedBy(Naming(Build(d, serial), ca), by), key)
                = SignedBy(Naming(Build(d, serial), key), by)
    BY DEF Build, Naming, SignedBy
<1>3. SignedBy(SignedBy(Naming(Build(d, serial), ca), by), key)
                = SignedBy(Naming(Build(d, serial), ca), key)
    BY DEF Build, Naming, SignedBy
<1>4. QED
    BY <1>1, <1>2, <1>3

\* Building, naming a key and signing keep a certificate among those that the
\* input of its call leads to.
LEMMA PossibleSteps ==
    ASSUME NEW k, NEW key \in Keys, NEW serial \in Serials \ {0}
    PROVE  /\ Possible(k, Build(DecisionOf(k), serial))
           /\ \A body : Possible(k, body) => /\ Possible(k, Naming(body, key))
                                             /\ Possible(k, SignedBy(body, key))
<1>1. Possible(k, Build(DecisionOf(k), serial))
    <2>1. SignedBy(Naming(Build(DecisionOf(k), serial), Unsigned), Unsigned)
            = Build(DecisionOf(k), serial)
        BY BuildThenSign
    <2>2. QED
        BY <2>1 DEF Possible
<1>2. ASSUME NEW body, Possible(k, body)
      PROVE  Possible(k, Naming(body, key)) /\ Possible(k, SignedBy(body, key))
    <2>1. PICK s \in Serials \ {0}, ca, by \in Keys \cup {Unsigned} :
              body = SignedBy(Naming(Build(DecisionOf(k), s), ca), by)
        BY <1>2 DEF Possible
    <2>2. /\ Naming(body, key) = SignedBy(Naming(Build(DecisionOf(k), s), key), by)
          /\ SignedBy(body, key) = SignedBy(Naming(Build(DecisionOf(k), s), ca), key)
        BY <2>1, BuildThenSign
    <2>3. QED
        BY <2>2 DEF Possible
<1>3. QED
    BY <1>1, <1>2
(***************************************************************************)
(* A certificate keeps the key ID of the decision it comes from.           *)
(***************************************************************************)
LEMMA KeyIDKept ==
    ASSUME NEW k, NEW body, Possible(k, body)
    PROVE  body.keyID = DecisionOf(k).keyID
BY DEF Possible, Build, Naming, SignedBy

-----------------------------------------------------------------------------
(* What a step leaves alone.                                               *)

\* The step changes nothing of call k's own state.
Same(k) ==
    /\ pc'[k] = pc[k]
    /\ input'[k] = input[k]
    /\ cert'[k] = cert[k]
    /\ verdict'[k] = verdict[k]
    /\ reply'[k] = reply[k]

\* The step forgets neither an item nor a signature.
Grows == table \subseteq table' /\ signed \subseteq signed'

\* What it adds to the items, stored or under way, and to the signatures,
\* made or asked for.
NewItems == (table' \cup puts') \ (table \cup puts)
NewSignings == (signed' \cup asks') \ (signed \cup asks)

\* The step adds to these for call k at most.
AddsFor(k) ==
    /\ Grows
    /\ \A r \in NewItems : r.call = k
    /\ \A s \in NewSignings : s.call = k

(***************************************************************************)
(* A call keeps its part of the invariant when a step leaves it alone, and *)
(* what is added to the table and the signatures for it is accounted for   *)
(* already.                                                                *)
(***************************************************************************)
LEMMA CallInvFrame ==
    ASSUME NEW k \in Calls, CallInv(k), Same(k), Grows,
           \A r \in NewItems : r.call = k => Explained(r),
           \A s \in NewSignings : s.call = k => Founded(s)
    PROVE  CallInv(k)'
<1> USE DEF Grows
<1>1. Staged(k)'
    BY DEF CallInv, Staged, Same
<1>2. Settled(k)'
    BY DEF CallInv, Settled, Same, Approved, DecisionOf
<1>3. Derived(k)'
    <2>1. DecisionOf(k)' = DecisionOf(k)
        BY DEF Same, DecisionOf
    <2>2. QED
        BY <2>1 DEF CallInv, Derived, Possible, Same
<1>4. ResultRecord(k)' = ResultRecord(k) /\ UnderFailClosed(k)' = UnderFailClosed(k)
    BY DEF Same, ResultRecord, UnderFailClosed, DecisionOf
<1>5. OnRecord(k)'
    BY <1>4 DEF CallInv, OnRecord, Same
<1>6. ASSUME NEW r \in table' \cup puts', r.call = k PROVE Explained(r)'
    <2>1. Explained(r)
        BY <1>6 DEF CallInv, NewItems
    <2>2. QED
        BY <1>4, <1>6, <2>1 DEF Explained, Same
<1>7. ASSUME NEW s \in signed' \cup asks', s.call = k PROVE Founded(s)'
    <2>1. Founded(s)
        BY <1>7 DEF CallInv, NewSignings
    <2>2. QED
        BY <1>4, <1>7, <2>1 DEF Founded, Same
<1>8. QED
    BY <1>1, <1>2, <1>3, <1>5, <1>6, <1>7 DEF CallInv

(***************************************************************************)
(* A step of one call keeps the invariant when it keeps that call's part.  *)
(***************************************************************************)
LEMMA OneCallStep ==
    ASSUME IInv, NEW k \in Calls, TypeOK', JobInv', CallInv(k)',
           \A j \in Calls \ {k} : Same(j), AddsFor(k)
    PROVE  IInv'
<1>1. ASSUME NEW j \in Calls \ {k} PROVE CallInv(j)'
    <2>1. CallInv(j) /\ Same(j)
        BY DEF IInv
    <2>2. /\ \A r \in NewItems : r.call = j => Explained(r)
          /\ \A s \in NewSignings : s.call = j => Founded(s)
        BY DEF AddsFor
    <2>3. QED
        BY <2>1, <2>2, CallInvFrame DEF AddsFor
<1>2. QED
    BY <1>1 DEF IInv

(***************************************************************************)
(* So does a step that is no call's, when it adds only what is accounted   *)
(* for: one of KMS, of DynamoDB or of the SDK's.                           *)
(***************************************************************************)
LEMMA RemoteStep ==
    ASSUME IInv, TypeOK', JobInv', \A j \in Calls : Same(j), Grows,
           \A r \in NewItems : Explained(r), \A s \in NewSignings : Founded(s)
    PROVE  IInv'
<1>1. ASSUME NEW j \in Calls PROVE CallInv(j)'
    BY CallInvFrame DEF IInv
<1>2. QED
    BY <1>1 DEF IInv

\* Or when it adds nothing: one of the containers' surroundings.
LEMMA NoCallStep ==
    ASSUME IInv, TypeOK', JobInv', \A j \in Calls : Same(j), UNCHANGED remoteVars
    PROVE  IInv'
<1>1. Grows /\ NewItems = {} /\ NewSignings = {}
    BY DEF remoteVars, Grows, NewItems, NewSignings
<1>2. QED
    BY <1>1, RemoteStep

(***************************************************************************)
(* A step of Handle takes its call to a stage at which it still has its    *)
(* container.                                                              *)
(***************************************************************************)
LEMMA StillServed ==
    ASSUME TypeOK, JobInv, NEW k \in Calls, UNCHANGED <<job, loaded>>,
           \A j \in Calls \ {k} : Same(j), pc'[k] \in Serving
    PROVE  JobInv'
BY DEF TypeOK, JobInv, Same
-----------------------------------------------------------------------------
(* The containers and what surrounds them.                                 *)

\* A container that starts serves no call yet.
LEMMA ColdStartKeeps ==
    ASSUME IInv, NEW c \in Containers, ColdStart(c)
    PROVE  IInv'
<1> USE DEF ColdStart, callVars, remoteVars
<1>1. TypeOK'
    BY DEF IInv, TypeOK
<1>2. JobInv'
    BY HandlerAssumption DEF IInv, TypeOK, JobInv
<1>3. \A j \in Calls : Same(j)
    BY DEF Same
<1>4. QED
    BY <1>1, <1>2, <1>3, NoCallStep

\* A deployment changes nothing that has already been loaded.
LEMMA DeployKeeps ==
    ASSUME IInv, NEW cfg \in Configs, Deploy(cfg)
    PROVE  IInv'
<1> USE DEF Deploy, callVars, remoteVars
<1>1. TypeOK'
    BY DEF IInv, TypeOK
<1>2. JobInv'
    BY DEF IInv, JobInv
<1>3. \A j \in Calls : Same(j)
    BY DEF Same
<1>4. QED
    BY <1>1, <1>2, <1>3, NoCallStep

\* A moved alias changes nothing that has already been built or signed.
LEMMA RepointKeeps ==
    ASSUME IInv, NEW alias \in Aliases, NEW key \in Keys, Repoint(alias, key)
    PROVE  IInv'
<1> USE DEF Repoint, callVars, remoteVars
<1>1. TypeOK'
    BY DEF IInv, TypeOK
<1>2. JobInv'
    BY DEF IInv, JobInv
<1>3. \A j \in Calls : Same(j)
    BY DEF Same
<1>4. QED
    BY <1>1, <1>2, <1>3, NoCallStep

\* A call that comes has neither an item in the table nor a signature.
LEMMA InvokeKeeps ==
    ASSUME IInv, NEW c \in Containers, NEW k \in Calls,
           NEW iam \in Identities, NEW req \in Requests, Invoke(c, k, iam, req)
    PROVE  IInv'
<1> USE DEF Invoke, Accept, Goto, remoteVars
<1> DEFINE in == [cfg |-> loaded[c], iam |-> iam, req |-> req]
<1>1. in \in Inputs
    BY DEF IInv, TypeOK, Inputs
<1>2. TypeOK /\ CallInv(k)
    BY DEF IInv
<1>3. /\ pc[k] = "new" /\ pc'[k] = "received"
      /\ input'[k] = in /\ in # None
      /\ cert'[k] = None /\ verdict'[k] = "none" /\ reply'[k] = "none"
    BY <1>1, <1>2, HandlerAssumption DEF TypeOK, CallInv, Staged
<1>4. /\ \A j \in Calls \ {k} : Same(j)
      /\ AddsFor(k)
    BY <1>2 DEF TypeOK, Same, AddsFor, Grows, NewItems, NewSignings
<1>5. TypeOK'
    <2>1. input' \in [Calls -> Inputs \cup {None}]
        BY <1>1, <1>2 DEF TypeOK
    <2>2. QED
        BY <1>2, <2>1 DEF TypeOK, Stages
<1>6. JobInv'
    <2>1. \A d \in Containers : job[d] # k
        BY <1>3, HandlerAssumption DEF IInv, JobInv, Serving
    <2>2. QED
        BY <1>2, <1>3, <2>1 DEF IInv, JobInv, TypeOK, Serving
<1>7. CallInv(k)'
    <2>1. Staged(k)' /\ Settled(k)' /\ Derived(k)' /\ OnRecord(k)'
        BY <1>3 DEF Staged, Settled, Derived, OnRecord, Serving, Certificate
    <2>2. ASSUME NEW r \in table \cup puts, r.call = k PROVE FALSE
        BY <1>2, <1>3, <2>2 DEF CallInv, Explained
    <2>3. ASSUME NEW s \in signed \cup asks, s.call = k PROVE FALSE
        BY <1>2, <1>3, <2>3 DEF CallInv, Founded
    <2>4. QED
        BY <2>1, <2>2, <2>3 DEF CallInv
<1>8. QED
    BY <1>4, <1>5, <1>6, <1>7, OneCallStep

\* Nor has one whose body cannot be decoded; it gets its response at once.
LEMMA InvokeMalformedKeeps ==
    ASSUME IInv, NEW c \in Containers, NEW k \in Calls, InvokeMalformed(c, k)
    PROVE  IInv'
<1> USE DEF InvokeMalformed, Accept, Goto, remoteVars
<1>1. TypeOK /\ CallInv(k)
    BY DEF IInv
<1>2. /\ pc[k] = "new" /\ pc'[k] = "reply"
      /\ input'[k] = None /\ input[k] = None
      /\ cert'[k] = None /\ verdict'[k] = "none" /\ reply'[k] = "BadRequest"
    BY <1>1 DEF TypeOK, CallInv, Staged
<1>3. /\ \A j \in Calls \ {k} : Same(j)
      /\ AddsFor(k)
    BY <1>1 DEF TypeOK, Same, AddsFor, Grows, NewItems, NewSignings
<1>4. TypeOK'
    BY <1>1 DEF TypeOK, Stages, Replies
<1>5. JobInv'
    <2>1. \A d \in Containers : job[d] # k
        BY <1>2, HandlerAssumption DEF IInv, JobInv, Serving
    <2>2. QED
        BY <1>1, <1>2, <2>1 DEF IInv, JobInv, TypeOK, Serving
<1>6. CallInv(k)'
    <2>1. Staged(k)' /\ Settled(k)' /\ Derived(k)' /\ OnRecord(k)'
        BY <1>2 DEF Staged, Settled, Derived, OnRecord, Serving, Certificate
    <2>2. ASSUME NEW r \in table \cup puts, r.call = k PROVE FALSE
        BY <1>1, <1>2, <2>2 DEF CallInv, Explained
    <2>3. ASSUME NEW s \in signed \cup asks, s.call = k PROVE FALSE
        BY <1>1, <1>2, <2>3 DEF CallInv, Founded
    <2>4. QED
        BY <2>1, <2>2, <2>3 DEF CallInv
<1>7. QED
    BY <1>3, <1>4, <1>5, <1>6, OneCallStep

(***************************************************************************)
(* A call that ends, with or without its response, keeps what it left.     *)
(***************************************************************************)
LEMMA EndKeeps ==
    ASSUME TypeOK, NEW k \in Calls, CallInv(k), pc[k] \in Serving,
           pc'[k] \in {"done", "lost"},
           UNCHANGED <<input, cert, verdict, reply, table, puts, signed, asks>>
    PROVE  CallInv(k)'
<1>1. Staged(k)'
    BY DEF Staged, Serving
<1>2. Settled(k)' /\ Derived(k)'
    <2>1. DecisionOf(k)' = DecisionOf(k) /\ Approved(k)' = Approved(k)
        BY DEF DecisionOf, Approved
    <2>2. QED
        BY <2>1 DEF CallInv, Settled, Derived, Possible
<1>3. ResultRecord(k)' = ResultRecord(k) /\ UnderFailClosed(k)' = UnderFailClosed(k)
    BY DEF ResultRecord, UnderFailClosed, DecisionOf
<1>4. OnRecord(k)'
    BY <1>3 DEF CallInv, OnRecord
<1>5. ASSUME NEW r \in table' \cup puts', r.call = k PROVE Explained(r)'
    BY <1>3, <1>5 DEF CallInv, Explained
<1>6. ASSUME NEW s \in signed' \cup asks', s.call = k PROVE Founded(s)'
    BY <1>3, <1>6 DEF CallInv, Founded
<1>7. QED
    BY <1>1, <1>2, <1>4, <1>5, <1>6 DEF CallInv

\* A response that is handed back ends its call and frees its container.
LEMMA DeliverKeeps ==
    ASSUME IInv, NEW c \in Containers, NEW k \in Calls, Deliver(c, k)
    PROVE  IInv'
<1> USE DEF Deliver, Goto, remoteVars
<1>1. TypeOK /\ JobInv /\ CallInv(k)
    BY DEF IInv
<1>2. pc[k] = "reply" /\ pc'[k] = "done"
    BY <1>1 DEF TypeOK
<1>3. /\ \A j \in Calls \ {k} : Same(j)
      /\ AddsFor(k)
    BY <1>1 DEF TypeOK, Same, AddsFor, Grows, NewItems, NewSignings
<1>4. TypeOK'
    BY <1>1 DEF TypeOK, Stages
<1>5. JobInv'
    BY <1>1 DEF JobInv, TypeOK
<1>6. CallInv(k)'
    BY <1>1, <1>2, EndKeeps DEF Serving
<1>7. QED
    BY <1>3, <1>4, <1>5, <1>6, OneCallStep

\* A killed container takes the call it serves with it, and no other.
LEMMA KillKeeps ==
    ASSUME IInv, NEW c \in Containers, Kill(c)
    PROVE  IInv'
<1> USE DEF Kill, remoteVars
<1>1. TypeOK /\ JobInv
    BY DEF IInv
<1>2. TypeOK'
    BY <1>1 DEF TypeOK, Stages
<1>3. JobInv'
    BY <1>1, HandlerAssumption DEF JobInv, TypeOK
<1>4. CASE job[c] = None
    <2>1. \A j \in Calls : Same(j)
        BY <1>1, <1>4, HandlerAssumption DEF Same, TypeOK
    <2>2. QED
        BY <1>2, <1>3, <2>1, NoCallStep
<1>5. CASE job[c] # None
    <2>1. PICK k \in Calls : k = job[c]
        BY <1>1, <1>5 DEF TypeOK
    <2>2. pc[k] \in Serving /\ pc'[k] = "lost"
        BY <1>1, <1>5, <2>1 DEF JobInv
    <2>3. \A j \in Calls \ {k} : Same(j)
        BY <1>1, <2>1 DEF Same, TypeOK
    <2>4. AddsFor(k)
        BY DEF AddsFor, Grows, NewItems, NewSignings
    <2>5. CallInv(k)'
        BY <1>1, <2>2, EndKeeps DEF IInv
    <2>6. QED
        BY <1>2, <1>3, <2>3, <2>4, <2>5, OneCallStep
<1>6. QED
    BY <1>4, <1>5
-----------------------------------------------------------------------------
(* The steps of Handle.                                                    *)

\* Past its request event a fail-closed call has it on record.
LEMMA WriteRequestEventKeeps ==
    ASSUME IInv, NEW k \in Calls, NEW o \in WriteOutcomes, WriteRequestEvent(k, o)
    PROVE  IInv'
<1> USE DEF WriteRequestEvent, Goto, worldVars
<1>1. TypeOK /\ JobInv /\ CallInv(k)
    BY DEF IInv
<1>2. /\ pc[k] = "received"
      /\ input[k] # None /\ cert[k] = None /\ verdict[k] = "none" /\ reply[k] = "none"
    BY <1>1 DEF CallInv, Staged, Serving
<1>3. \/ pc'[k] = "reply" /\ reply'[k] = "AuditError"
      \/ /\ pc'[k] = "evaluate" /\ reply'[k] = "none"
         /\ ~RequestEventStops(input[k].cfg, o)
    BY <1>1, <1>2 DEF TypeOK
<1>4. /\ table \subseteq table' /\ table' \cup puts' \subseteq table \cup puts \cup {RequestRecord(k)}
      /\ Stores(input[k].cfg, o) => RequestRecord(k) \in table'
    BY DEF Put
<1>5. \A j \in Calls \ {k} : Same(j)
    BY <1>1 DEF TypeOK, Same
<1>6. AddsFor(k)
    BY <1>4 DEF AddsFor, Grows, NewItems, NewSignings, RequestRecord
<1>7. TypeOK'
    <2>1. /\ pc' \in [Calls -> Stages]
          /\ reply' \in [Calls -> Replies]
        BY <1>1 DEF TypeOK, Stages, Replies
    <2>2. RequestRecord(k) \in [call : Calls, event : Events, keyID : KeyIDs \cup {None},
                               serial : Nat]
        BY DEF RequestRecord, Events
    <2>3. QED
        BY <1>1, <1>4, <2>1, <2>2 DEF TypeOK
<1>8. JobInv'
    BY <1>1, <1>3, <1>5, StillServed DEF Serving
<1>9. CallInv(k)'
    <2>1. Staged(k)' /\ Settled(k)' /\ Derived(k)'
        BY <1>2, <1>3 DEF Staged, Settled, Derived, Serving, Certificate
    <2>2. OnRecord(k)'
        <3>1. CASE pc'[k] = "reply" /\ reply'[k] = "AuditError"
            BY <3>1 DEF OnRecord, Certificate
        <3>2. CASE /\ pc'[k] = "evaluate" /\ reply'[k] = "none"
                   /\ ~RequestEventStops(input[k].cfg, o)
            <4>1. FailClosed(input[k].cfg) => Stores(input[k].cfg, o)
                BY <3>2 DEF RequestEventStops, NoEvent, RepositoryFails, Stores, FailClosed,
                            WriteOutcomes
            <4>2. QED
                BY <1>4, <3>2, <4>1 DEF OnRecord, UnderFailClosed, Certificate
        <3>3. QED
            BY <1>3, <3>1, <3>2
    <2>3. ASSUME NEW r \in table' \cup puts', r.call = k PROVE Explained(r)'
        <3>1. r = RequestRecord(k)
            BY <1>1, <1>2, <1>4, <2>3 DEF CallInv, Explained
        <3>2. QED
            BY <1>2, <1>3, <2>3, <3>1 DEF Explained
    <2>4. ASSUME NEW s \in signed' \cup asks', s.call = k PROVE FALSE
        BY <1>1, <1>2, <2>4 DEF CallInv, Founded
    <2>5. QED
        BY <2>1, <2>2, <2>3, <2>4 DEF CallInv
<1>10. QED
    BY <1>5, <1>6, <1>7, <1>8, <1>9, OneCallStep

(***************************************************************************)
(* Coming to a result other than an approval.                              *)
(***************************************************************************)
LEMMA ConcludeKeeps ==
    ASSUME IInv, NEW k \in Calls, NEW from \in {"evaluate", "getkey", "sign"},
           NEW v \in {"policy error", "denied", "sign error"}, Conclude(k, from, v),
           UNCHANGED <<cert, signed>>,
           v # "sign error" => from = "evaluate",
           v = "sign error" => Approved(k)
    PROVE  IInv'
<1> USE DEF Conclude, Goto, worldVars
<1>1. TypeOK /\ JobInv /\ CallInv(k)
    BY DEF IInv
<1>2. /\ pc[k] = from /\ pc'[k] = "result"
      /\ verdict[k] = "none" /\ verdict'[k] = v
      /\ reply[k] = "none" /\ input[k] # None
      /\ from = "evaluate" => cert[k] = None
    BY <1>1 DEF TypeOK, CallInv, Staged, Serving
<1>3. \A j \in Calls \ {k} : Same(j)
    BY <1>1 DEF TypeOK, Same
<1>4. AddsFor(k)
    BY DEF AddsFor, Grows, NewItems, NewSignings
<1>5. TypeOK'
    BY <1>1 DEF TypeOK, Stages, Verdicts
<1>6. JobInv'
    BY <1>1, <1>2, <1>3, StillServed DEF Serving
<1>7. CallInv(k)'
    <2>1. DecisionOf(k)' = DecisionOf(k) /\ Approved(k)' = Approved(k)
        BY DEF DecisionOf, Approved
    <2>2. Staged(k)'
        BY <1>2 DEF Staged, Serving
    <2>3. Settled(k)'
        BY <1>1, <1>2, <2>1 DEF CallInv, Settled, Certificate
    <2>4. Derived(k)'
        BY <1>1, <2>1 DEF CallInv, Derived, Possible
    <2>5. OnRecord(k)'
        <3>1. UnderFailClosed(k) => RequestRecord(k) \in table
            <4>1. CASE pc[k] = "evaluate"
                BY <1>1, <4>1 DEF CallInv, OnRecord
            <4>2. CASE pc[k] \in {"getkey", "sign"}
                BY <1>1, <4>2 DEF CallInv, OnRecord
            <4>3. QED
                BY <1>2, <4>1, <4>2
        <3>2. QED
            BY <1>2, <3>1 DEF OnRecord, UnderFailClosed, Certificate
    <2>6. ASSUME NEW r \in table' \cup puts', r.call = k PROVE Explained(r)'
        BY <1>1, <1>2, <2>6 DEF CallInv, Explained
    <2>7. ASSUME NEW s \in signed' \cup asks', s.call = k PROVE Founded(s)'
        BY <1>1, <1>2, <2>7 DEF CallInv, Founded, UnderFailClosed
    <2>8. QED
        BY <2>2, <2>3, <2>4, <2>5, <2>6, <2>7 DEF CallInv
<1>8. QED
    BY <1>3, <1>4, <1>5, <1>6, <1>7, OneCallStep

\* An error of Evaluate is a result without a certificate.
LEMMA PolicyFailsKeeps ==
    ASSUME IInv, NEW k \in Calls, PolicyFails(k)
    PROVE  IInv'
BY ConcludeKeeps DEF PolicyFails

\* So is a denial.
LEMMA DenyKeeps ==
    ASSUME IInv, NEW k \in Calls, Deny(k)
    PROVE  IInv'
BY ConcludeKeeps DEF Deny

\* A refusal by cert.Sign is one, of an approved request.
LEMMA RejectCertKeeps ==
    ASSUME IInv, NEW k \in Calls, RejectCert(k)
    PROVE  IInv'
BY ConcludeKeeps DEF RejectCert

\* Past BuildCert there is a certificate, so the policy has approved.
LEMMA FetchFailsKeeps ==
    ASSUME IInv, NEW k \in Calls, FetchFails(k)
    PROVE  IInv'
<1>1. pc[k] = "getkey" /\ CallInv(k)
    BY DEF FetchFails, Conclude, Goto, IInv
<1>2. Approved(k)
    BY <1>1 DEF CallInv, Staged, Settled
<1>3. QED
    BY <1>2, ConcludeKeeps DEF FetchFails

\* At KMS Sign there is a certificate, so the policy has approved.
LEMMA SignFailsKeeps ==
    ASSUME IInv, NEW k \in Calls, SignFails(k)
    PROVE  IInv'
<1>1. pc[k] = "sign" /\ CallInv(k)
    BY DEF SignFails, Conclude, Goto, IInv
<1>2. Approved(k)
    BY <1>1 DEF CallInv, Staged, Settled
<1>3. QED
    BY <1>2, ConcludeKeeps DEF SignFails

(***************************************************************************)
(* The key that a configured key ID stands for is a key, and itself when   *)
(* it is not an alias.                                                     *)
(***************************************************************************)
LEMMA KeyOfIsKey ==
    ASSUME TypeOK, NEW k \in Calls, input[k] # None
    PROVE  /\ KeyOf(k) \in Keys
           /\ input[k].cfg.kmsKeyID \in Keys => KeyOf(k) = input[k].cfg.kmsKeyID
<1>1. input[k].cfg.kmsKeyID \in Keys \cup Aliases
    BY HandlerAssumption DEF TypeOK, Inputs
<1>2. QED
    BY <1>1, KMSAssumption DEF TypeOK, KeyOf, Resolve

\* cert.Sign builds a certificate that its call's input leads to.
LEMMA BuildCertKeeps ==
    ASSUME IInv, NEW k \in Calls, NEW serial \in Serials, BuildCert(k, serial)
    PROVE  IInv'
<1> USE DEF BuildCert, Goto, worldVars, remoteVars
<1>1. TypeOK /\ JobInv /\ CallInv(k)
    BY DEF IInv
<1>2. PICK body : body = Build(DecisionOf(k), serial)
    OBVIOUS
<1>3. /\ pc[k] = "evaluate" /\ pc'[k] = "getkey"
      /\ input[k] # None /\ verdict[k] = "none" /\ reply[k] = "none"
      /\ cert'[k] = body
      /\ Approved(k) /\ ~Rejects(DecisionOf(k))
    BY <1>1, <1>2 DEF TypeOK, CallInv, Staged, Serving
<1>4. body \in Certificates /\ body # None /\ body.signedBy = Unsigned
    <2>1. input[k] \in Inputs
        BY <1>1, <1>3 DEF TypeOK
    <2>2. body \in Certificates
        BY <1>2, <1>3, <2>1, BuiltIsCertificate
    <2>3. body.signedBy = Unsigned
        BY <1>2 DEF Build
    <2>4. QED
        BY <2>2, <2>3, HandlerAssumption
<1>5. \A j \in Calls \ {k} : Same(j)
    BY <1>1 DEF TypeOK, Same
<1>6. AddsFor(k)
    BY DEF AddsFor, Grows, NewItems, NewSignings
<1>7. TypeOK'
    <2>1. cert' = [cert EXCEPT ![k] = body]
        BY <1>2
    <2>2. QED
        BY <1>1, <1>4, <2>1 DEF TypeOK, Stages
<1>8. JobInv'
    BY <1>1, <1>3, <1>5, StillServed DEF Serving
<1>9. CallInv(k)'
    <2>1. DecisionOf(k)' = DecisionOf(k) /\ Approved(k)' = Approved(k)
        BY DEF DecisionOf, Approved
    <2>2. Staged(k)'
        BY <1>3, <1>4 DEF Staged, Serving
    <2>3. Settled(k)'
        BY <1>3, <2>1 DEF Settled, Certificate
    <2>4. Derived(k)'
        <3>1. \E ca, by \in Keys \cup {Unsigned} :
                  body = SignedBy(Naming(Build(DecisionOf(k), serial), ca), by)
            BY <1>2, BuildThenSign
        <3>2. QED
            BY <1>3, <2>1, <3>1 DEF Derived, Possible
    <2>5. OnRecord(k)'
        BY <1>1, <1>3 DEF CallInv, OnRecord, UnderFailClosed, Certificate
    <2>6. ASSUME NEW r \in table' \cup puts', r.call = k PROVE Explained(r)'
        BY <1>1, <1>3, <2>6 DEF CallInv, Explained
    <2>7. ASSUME NEW s \in signed' \cup asks', s.call = k PROVE FALSE
        BY <1>1, <1>3, <2>7 DEF CallInv, Founded
    <2>8. QED
        BY <2>2, <2>3, <2>4, <2>5, <2>6, <2>7 DEF CallInv
<1>10. QED
    BY <1>5, <1>6, <1>7, <1>8, <1>9, OneCallStep

\* Naming the CA key in the certificate leaves it one of them.
LEMMA FetchKeyKeeps ==
    ASSUME IInv, NEW k \in Calls, FetchKey(k)
    PROVE  IInv'
<1> USE DEF FetchKey, Goto, worldVars, remoteVars
<1>1. TypeOK /\ JobInv /\ CallInv(k)
    BY DEF IInv
<1>2. PICK key, body : key = KeyOf(k) /\ body = Naming(cert[k], key)
    OBVIOUS
<1>3. /\ pc[k] = "getkey" /\ pc'[k] = "sign"
      /\ input[k] # None /\ verdict[k] = "none" /\ reply[k] = "none"
      /\ cert[k] # None /\ cert[k].signedBy = Unsigned
      /\ cert'[k] = body
    BY <1>1, <1>2 DEF TypeOK, CallInv, Staged, Serving
<1>4. key \in Keys /\ (input[k].cfg.kmsKeyID \in Keys => key = input[k].cfg.kmsKeyID)
    BY <1>1, <1>2, <1>3, KeyOfIsKey
<1>5. /\ body \in Certificates /\ body # None
      /\ body.signedBy = Unsigned /\ body.caKey = key
    <2>1. cert[k] \in Certificates
        BY <1>1, <1>3 DEF TypeOK
    <2>2. QED
        BY <1>2, <1>3, <1>4, <2>1, NamingIsCertificate, HandlerAssumption
<1>6. \A j \in Calls \ {k} : Same(j)
    BY <1>1 DEF TypeOK, Same
<1>7. AddsFor(k)
    BY DEF AddsFor, Grows, NewItems, NewSignings
<1>8. TypeOK'
    <2>1. cert' = [cert EXCEPT ![k] = body]
        BY <1>2
    <2>2. QED
        BY <1>1, <1>5, <2>1 DEF TypeOK, Stages
<1>9. JobInv'
    BY <1>1, <1>3, <1>6, StillServed DEF Serving
<1>10. CallInv(k)'
    <2>1. DecisionOf(k)' = DecisionOf(k) /\ Approved(k)' = Approved(k)
        BY DEF DecisionOf, Approved
    <2>2. Staged(k)'
        BY <1>3, <1>5 DEF Staged, Serving
    <2>3. Settled(k)'
        BY <1>1, <1>3, <1>4, <1>5, <2>1 DEF CallInv, Settled, Certificate
    <2>4. Derived(k)'
        <3>1. PICK serial \in Serials \ {0}, ca, by \in Keys \cup {Unsigned} :
                  cert[k] = SignedBy(Naming(Build(DecisionOf(k), serial), ca), by)
            BY <1>1, <1>3 DEF CallInv, Derived, Possible
        <3>2. body = SignedBy(Naming(Build(DecisionOf(k), serial), key), by)
            BY <1>2, <3>1, BuildThenSign
        <3>3. QED
            BY <1>3, <1>4, <2>1, <3>2 DEF Derived, Possible
    <2>5. OnRecord(k)'
        BY <1>1, <1>3 DEF CallInv, OnRecord, UnderFailClosed, Certificate
    <2>6. ASSUME NEW r \in table' \cup puts', r.call = k PROVE Explained(r)'
        BY <1>1, <1>3, <2>6 DEF CallInv, Explained
    <2>7. ASSUME NEW s \in signed' \cup asks', s.call = k PROVE FALSE
        BY <1>1, <1>3, <2>7 DEF CallInv, Founded
    <2>8. QED
        BY <2>2, <2>3, <2>4, <2>5, <2>6, <2>7 DEF CallInv
<1>11. QED
    BY <1>6, <1>7, <1>8, <1>9, <1>10, OneCallStep

(***************************************************************************)
(* What KMS is asked to sign for a call is the certificate built for it,   *)
(* as it is before its signature is put in.                                *)
(***************************************************************************)
LEMMA RequestFounded ==
    ASSUME TypeOK, NEW k \in Calls, CallInv(k), pc[k] = "sign"
    PROVE  /\ input[k] # None /\ cert[k] # None
           /\ cert[k] \in Certificates /\ KeyOf(k) \in Keys
           /\ SignRequest(k) \in [call : Calls, cert : Certificates]
           /\ SignRequest(k).call = k /\ SignRequest(k).cert = cert[k]
           /\ cert[k] = SignedBy(cert[k], Unsigned)
           /\ UnderFailClosed(k) => RequestRecord(k) \in table
           /\ Founded(SignRequest(k))
<1>1. input[k] # None /\ cert[k] # None /\ cert[k].signedBy = Unsigned
    BY DEF CallInv, Staged, Serving
<1>2. cert[k] \in Certificates /\ KeyOf(k) \in Keys
    BY <1>1, KeyOfIsKey DEF TypeOK
<1>3. SignedBy(cert[k], Unsigned) = cert[k]
    BY <1>1, <1>2, SignedByIsCertificate
<1>4. UnderFailClosed(k) => RequestRecord(k) \in table
    BY DEF CallInv, OnRecord
<1>5. SignRequest(k).call = k /\ SignRequest(k).cert = cert[k]
    BY DEF SignRequest
<1>6. Founded(SignRequest(k))
    BY <1>1, <1>3, <1>4, <1>5 DEF Founded
<1>7. QED
    BY <1>1, <1>2, <1>3, <1>4, <1>5, <1>6 DEF SignRequest

\* A request without an answer is for the certificate of its call.
LEMMA AskUnansweredKeeps ==
    ASSUME IInv, NEW k \in Calls, AskUnanswered(k)
    PROVE  IInv'
<1> USE DEF AskUnanswered, worldVars, callVars
<1>1. TypeOK /\ JobInv /\ CallInv(k) /\ pc[k] = "sign"
    BY DEF IInv
<1>2. PICK new : new = SignRequest(k)
    OBVIOUS
<1>3. new \in [call : Calls, cert : Certificates] /\ Founded(new)
    BY <1>1, <1>2, RequestFounded
<1>4. asks' = asks \cup {new}
    BY <1>2
<1>5. TypeOK'
    BY <1>1, <1>3, <1>4 DEF TypeOK
<1>6. JobInv'
    BY <1>1 DEF JobInv
<1>7. \A j \in Calls : Same(j)
    BY DEF Same
<1>8. /\ Grows /\ NewItems = {}
      /\ \A s \in NewSignings : Founded(s)
    BY <1>3, <1>4 DEF Grows, NewItems, NewSignings
<1>9. QED
    BY <1>5, <1>6, <1>7, <1>8, RemoteStep

\* What KMS signs late is what it was asked to sign.
LEMMA SignLateKeeps ==
    ASSUME IInv, NEW ask \in asks, SignLate(ask)
    PROVE  IInv'
<1> USE DEF SignLate, SignedAtKMS, worldVars, callVars
<1>1. TypeOK /\ JobInv
    BY DEF IInv
<1>2. PICK k \in Calls : k = ask.call
    BY <1>1 DEF TypeOK
<1>3. CallInv(k) /\ Founded(ask)
    BY <1>2 DEF IInv, CallInv
<1>4. PICK key : key = KeyOf(k)
    OBVIOUS
<1>5. ask.cert \in Certificates /\ key \in Keys
    <2>1. input[k] # None
        BY <1>2, <1>3 DEF CallInv, Settled, Founded
    <2>2. QED
        BY <1>1, <1>4, <2>1, KeyOfIsKey DEF TypeOK
<1>6. PICK new : new = [call |-> k, by |-> key, cert |-> ask.cert]
    OBVIOUS
<1>7. /\ signed' = signed \cup {new}
      /\ new \in [call : Calls, by : Keys, cert : Certificates]
      /\ new.call = ask.call /\ new.cert = ask.cert
    BY <1>2, <1>4, <1>5, <1>6
<1>8. TypeOK'
    BY <1>1, <1>7 DEF TypeOK
<1>9. JobInv'
    BY <1>1 DEF JobInv
<1>10. \A j \in Calls : Same(j)
    BY DEF Same
<1>11. Founded(new)
    BY <1>3, <1>7 DEF Founded
<1>12. Grows /\ NewItems = {} /\ \A s \in NewSignings : Founded(s)
    BY <1>7, <1>11 DEF Grows, NewItems, NewSignings
<1>13. QED
    BY <1>8, <1>9, <1>10, <1>12, RemoteStep

\* An item that is stored late is no other than was sent.
LEMMA StoreLateKeeps ==
    ASSUME IInv, NEW item \in puts, StoreLate(item)
    PROVE  IInv'
<1> USE DEF StoreLate, worldVars, callVars
<1>1. TypeOK /\ JobInv
    BY DEF IInv
<1>2. TypeOK'
    BY <1>1 DEF TypeOK
<1>3. JobInv'
    BY <1>1 DEF JobInv
<1>4. \A j \in Calls : Same(j)
    BY DEF Same
<1>5. Grows /\ NewItems = {} /\ NewSignings = {}
    BY DEF Grows, NewItems, NewSignings
<1>6. QED
    BY <1>2, <1>3, <1>4, <1>5, RemoteStep

\* The signature that makes a result an approval is in KMS's past.
LEMMA SignKeeps ==
    ASSUME IInv, NEW k \in Calls, Sign(k)
    PROVE  IInv'
<1> USE DEF Sign, Conclude, Goto, SignedAtKMS, worldVars
<1>1. TypeOK /\ JobInv /\ CallInv(k) /\ pc[k] = "sign"
    BY DEF IInv
<1>2. PICK new, key, body :
          /\ key = KeyOf(k) /\ body = SignedBy(cert[k], key)
          /\ new = [call |-> k, by |-> key, cert |-> cert[k]]
    OBVIOUS
<1>3. /\ new \in [call : Calls, by : Keys, cert : Certificates]
      /\ new.call = k /\ new.cert = cert[k] /\ new.by = key
      /\ new.cert = SignedBy(cert[k], Unsigned)
      /\ UnderFailClosed(k) => RequestRecord(k) \in table
      /\ signed' = signed \cup {new}
      /\ cert[k] \in Certificates /\ key \in Keys
    BY <1>1, <1>2, RequestFounded
<1>4. /\ body \in Certificates /\ body # None
      /\ SignedBy(body, Unsigned) = SignedBy(cert[k], Unsigned)
      /\ body.signedBy = key /\ body.caKey = cert[k].caKey
    BY <1>2, <1>3, SignedByIsCertificate, HandlerAssumption
<1>5. /\ pc'[k] = "result" /\ verdict'[k] = "approved" /\ cert'[k] = body
      /\ input[k] # None /\ cert[k] # None /\ reply[k] = "none" /\ verdict[k] = "none"
    BY <1>1, <1>2 DEF TypeOK, CallInv, Staged, Serving
<1>6. \A j \in Calls \ {k} : Same(j)
    BY <1>1 DEF TypeOK, Same
<1>7. AddsFor(k)
    BY <1>3 DEF AddsFor, Grows, NewItems, NewSignings
<1>8. TypeOK'
    <2>1. cert' = [cert EXCEPT ![k] = body]
        BY <1>2
    <2>2. cert' \in [Calls -> Certificates \cup {None}]
        BY <1>1, <1>4, <2>1 DEF TypeOK
    <2>3. signed' \subseteq [call : Calls, by : Keys, cert : Certificates]
        BY <1>1, <1>3 DEF TypeOK
    <2>4. /\ pc' \in [Calls -> Stages]
          /\ verdict' \in [Calls -> Verdicts]
        BY <1>1 DEF TypeOK, Stages, Verdicts
    <2>5. QED
        BY <1>1, <2>2, <2>3, <2>4 DEF TypeOK
<1>9. JobInv'
    BY <1>1, <1>5, <1>6, StillServed DEF Serving
<1>10. CallInv(k)'
    <2>1. DecisionOf(k)' = DecisionOf(k) /\ Approved(k)' = Approved(k)
        BY DEF DecisionOf, Approved
    <2>2. Staged(k)'
        BY <1>5 DEF Staged, Serving
    <2>3. Settled(k)'
        <3>1. input[k].cfg.kmsKeyID \in Keys =>
                  key = input[k].cfg.kmsKeyID /\ cert[k].caKey = input[k].cfg.kmsKeyID
            BY <1>1, <1>2, <1>5, KeyOfIsKey DEF CallInv, Settled
        <3>2. new \in signed' /\ new.call = k /\ body = SignedBy(new.cert, new.by)
            BY <1>2, <1>3
        <3>3. /\ verdict'[k] = "approved"
              /\ cert'[k] # None /\ \E s \in signed' : s.call = k /\ cert'[k] = SignedBy(s.cert, s.by)
            BY <1>4, <1>5, <3>2
        <3>4. Settled(k)
            BY <1>1 DEF CallInv
        <3>5. QED
            BY <1>4, <1>5, <2>1, <3>1, <3>3, <3>4 DEF Settled, Certificate
    <2>4. Derived(k)'
        <3>1. PICK serial \in Serials \ {0}, ca, by \in Keys \cup {Unsigned} :
                  cert[k] = SignedBy(Naming(Build(DecisionOf(k), serial), ca), by)
            BY <1>1, <1>5 DEF CallInv, Derived, Possible
        <3>2. body = SignedBy(Naming(Build(DecisionOf(k), serial), ca), key)
            BY <1>2, <3>1, BuildThenSign
        <3>3. QED
            BY <1>3, <1>5, <2>1, <3>2 DEF Derived, Possible
    <2>5. OnRecord(k)'
        BY <1>3, <1>5 DEF OnRecord, UnderFailClosed, Certificate
    <2>6. ASSUME NEW r \in table' \cup puts', r.call = k PROVE Explained(r)'
        BY <1>1, <1>5, <2>6 DEF CallInv, Explained
    <2>7. ASSUME NEW s \in signed' \cup asks', s.call = k PROVE Founded(s)'
        <3>1. s.cert = SignedBy(cert[k], Unsigned)
            BY <1>1, <1>3, <2>7 DEF CallInv, Founded
        <3>2. QED
            BY <1>3, <1>4, <1>5, <2>7, <3>1 DEF Founded, UnderFailClosed
    <2>8. QED
        BY <2>2, <2>3, <2>4, <2>5, <2>6, <2>7 DEF CallInv
<1>11. QED
    BY <1>6, <1>7, <1>8, <1>9, <1>10, OneCallStep

(***************************************************************************)
(* The result event of a call is an item of the table.                     *)
(***************************************************************************)
LEMMA ResultRecordIsItem ==
    ASSUME TypeOK, NEW k \in Calls, CallInv(k), verdict[k] # "none"
    PROVE  /\ ResultRecord(k) \in [call : Calls, event : Events,
                                   keyID : KeyIDs \cup {None}, serial : Nat]
           /\ ResultRecord(k).call = k
<1>1. EventOf(verdict[k]) \in Events
    BY DEF EventOf, Events
<1>2. verdict[k] \in {"sign error", "approved"} => DecisionOf(k).keyID \in KeyIDs
    <2>1. input[k] \in Inputs
        BY DEF TypeOK, CallInv, Settled
    <2>2. verdict[k] \in {"sign error", "approved"} => Approved(k)
        BY DEF CallInv, Settled
    <2>3. QED
        BY <2>1, <2>2, KeyIDOfApproved
<1>3. verdict[k] = "approved" => cert[k].serial \in Nat
    <2>1. verdict[k] = "approved" => cert[k] \in Certificates
        BY DEF TypeOK, CallInv, Settled
    <2>2. QED
        BY <2>1, HandlerAssumption DEF Certificates
<1>4. QED
    BY <1>1, <1>2, <1>3 DEF ResultRecord

\* A certificate is the response only when its approved event is stored, or
\* need not be.
LEMMA WriteResultEventKeeps ==
    ASSUME IInv, NEW k \in Calls, NEW o \in WriteOutcomes, WriteResultEvent(k, o)
    PROVE  IInv'
<1> USE DEF WriteResultEvent, Goto, worldVars
<1>1. TypeOK /\ JobInv /\ CallInv(k)
    BY DEF IInv
<1>2. PICK new, response : new = ResultRecord(k) /\ response = ResponseTo(k, o)
    OBVIOUS
<1>3. /\ pc[k] = "result" /\ pc'[k] = "reply" /\ reply'[k] = response
      /\ input[k] # None /\ verdict[k] # "none"
    BY <1>1, <1>2 DEF TypeOK, CallInv, Staged, Serving
<1>4. /\ new \in [call : Calls, event : Events, keyID : KeyIDs \cup {None}, serial : Nat]
      /\ new.call = k
      /\ table \subseteq table' /\ table' \cup puts' \subseteq table \cup puts \cup {new}
      /\ Stores(input[k].cfg, o) => new \in table'
    BY <1>1, <1>2, <1>3, ResultRecordIsItem DEF Put
<1>5. response \in Replies
    BY <1>2 DEF ResponseTo, ErrorOf, Replies
<1>6. response = Certificate =>
          verdict[k] = "approved" /\ ~ResultEventFails(input[k].cfg, o)
    BY <1>2 DEF ResponseTo, ErrorOf, Certificate
<1>7. response = "AuditError" => ~input[k].cfg.auditFailOpen
    BY <1>2 DEF ResponseTo, ErrorOf, Certificate, ResultEventFails
<1>8. /\ response # "BadRequest"
      /\ response \in {"Denied", "InternalError", "SigningError"} =>
            verdict[k] # "approved" /\ response = ErrorOf(verdict[k])
    <2>1. CASE verdict[k] # "approved"
        BY <1>2, <2>1 DEF ResponseTo, ErrorOf
    <2>2. CASE verdict[k] = "approved"
        BY <1>2, <2>2 DEF ResponseTo, Certificate
    <2>3. QED
        BY <2>1, <2>2
<1>9. \A j \in Calls \ {k} : Same(j)
    BY <1>1 DEF TypeOK, Same
<1>10. AddsFor(k)
    BY <1>4 DEF AddsFor, Grows, NewItems, NewSignings
<1>11. TypeOK'
    <2>1. /\ pc' \in [Calls -> Stages]
          /\ reply' \in [Calls -> Replies]
        BY <1>1, <1>2, <1>5 DEF TypeOK, Stages
    <2>2. QED
        BY <1>1, <1>4, <2>1 DEF TypeOK
<1>12. JobInv'
    BY <1>1, <1>3, <1>9, StillServed DEF Serving
<1>13. CallInv(k)'
    <2>1. DecisionOf(k)' = DecisionOf(k) /\ Approved(k)' = Approved(k)
        BY DEF DecisionOf, Approved
    <2>2. ResultRecord(k)' = new
        BY <1>2, <2>1 DEF ResultRecord
    <2>3. Staged(k)'
        BY <1>3 DEF Staged, Serving
    <2>4. Settled(k)'
        BY <1>1, <1>3, <1>6, <1>7, <1>8, <2>1 DEF CallInv, Settled
    <2>5. Derived(k)'
        BY <1>1, <2>1 DEF CallInv, Derived, Possible
    <2>6. OnRecord(k)'
        <3>1. response = Certificate /\ UnderFailClosed(k) => new \in table'
            <4>1. FailClosed(input[k].cfg) /\ ~ResultEventFails(input[k].cfg, o)
                      => Stores(input[k].cfg, o)
                BY DEF ResultEventFails, NoEvent, RepositoryFails, Stores, FailClosed, WriteOutcomes
            <4>2. QED
                BY <1>4, <1>6, <4>1 DEF UnderFailClosed
        <3>2. QED
            BY <1>3, <2>2, <3>1 DEF OnRecord, UnderFailClosed
    <2>7. ASSUME NEW r \in table' \cup puts', r.call = k PROVE Explained(r)'
        <3>1. CASE r = new
            BY <1>3, <1>4, <2>2, <3>1 DEF Explained
        <3>2. CASE r \in table \cup puts
            BY <1>1, <1>3, <2>7, <3>2 DEF CallInv, Explained
        <3>3. QED
            BY <1>4, <3>1, <3>2
    <2>8. ASSUME NEW s \in signed' \cup asks', s.call = k PROVE Founded(s)'
        <3>1. Founded(s)
            BY <1>1, <2>8 DEF CallInv
        <3>2. QED
            BY <1>3, <1>4, <2>8, <3>1 DEF Founded, UnderFailClosed
    <2>9. QED
        BY <2>3, <2>4, <2>5, <2>6, <2>7, <2>8 DEF CallInv
<1>14. QED
    BY <1>9, <1>10, <1>11, <1>12, <1>13, OneCallStep
-----------------------------------------------------------------------------
(* The invariant, and the properties that follow.                          *)

(***************************************************************************)
(* Every step keeps the invariant.                                         *)
(***************************************************************************)
LEMMA NextKeeps == IInv /\ [Next]_vars => IInv'
<1> SUFFICES ASSUME IInv, [Next]_vars PROVE IInv'
    OBVIOUS
<1>1. ASSUME NEW c \in Containers, ColdStart(c) PROVE IInv'
    BY <1>1, ColdStartKeeps
<1>2. ASSUME NEW c \in Containers, Kill(c) PROVE IInv'
    BY <1>2, KillKeeps
<1>3. ASSUME NEW c \in Containers, NEW k \in Calls, NEW iam \in Identities,
             NEW req \in Requests, Invoke(c, k, iam, req)
      PROVE  IInv'
    BY <1>3, InvokeKeeps
<1>4. ASSUME NEW c \in Containers, NEW k \in Calls,
             InvokeMalformed(c, k) \/ Deliver(c, k)
      PROVE  IInv'
    BY <1>4, InvokeMalformedKeeps, DeliverKeeps
<1>5. ASSUME NEW k \in Calls, Handle(k) PROVE IInv'
    BY <1>5, WriteRequestEventKeeps, WriteResultEventKeeps, PolicyFailsKeeps, DenyKeeps,
       RejectCertKeeps, BuildCertKeeps, FetchKeyKeeps, FetchFailsKeeps, SignKeeps,
       SignFailsKeeps DEF Handle
<1>6. ASSUME \/ \E k \in Calls : AskUnanswered(k)
             \/ \E ask \in asks : SignLate(ask)
             \/ \E item \in puts : StoreLate(item)
      PROVE  IInv'
    BY <1>6, AskUnansweredKeeps, SignLateKeeps, StoreLateKeeps
<1>7. ASSUME NEW cfg \in Configs, Deploy(cfg) PROVE IInv'
    BY <1>7, DeployKeeps
<1>8. ASSUME NEW alias \in Aliases, NEW key \in Keys, Repoint(alias, key) PROVE IInv'
    BY <1>8, RepointKeeps
<1>9. CASE UNCHANGED vars
    <2>1. TypeOK' /\ JobInv'
        BY <1>9 DEF vars, IInv, TypeOK, JobInv
    <2>2. (\A j \in Calls : Same(j)) /\ UNCHANGED remoteVars
        BY <1>9 DEF vars, remoteVars, Same
    <2>3. QED
        BY <2>1, <2>2, NoCallStep
<1>10. QED
    BY <1>1, <1>2, <1>3, <1>4, <1>5, <1>6, <1>7, <1>8, <1>9 DEF Next

(***************************************************************************)
(* The inductive invariant holds in every state the handler reaches.       *)
(***************************************************************************)
THEOREM Invariance == Spec => []IInv
<1>1. Init => IInv
    BY InitIInv
<1>2. IInv /\ [Next]_vars => IInv'
    BY NextKeeps
<1>3. QED
    BY <1>1, <1>2, PTL DEF Spec

(***************************************************************************)
(* The variables keep their types.                                         *)
(***************************************************************************)
THEOREM TypeCorrect == Spec => []TypeOK
<1>1. IInv => TypeOK
    BY DEF IInv
<1>2. QED
    BY <1>1, Invariance, PTL

(***************************************************************************)
(* Whatever containers are killed, answers lost and configurations         *)
(* deployed, the CA key signs for a call under a fail-closed audit only    *)
(* when its request is on record.                                          *)
(***************************************************************************)
THEOREM SignedAfterRecord == Spec => []SignedIsRecorded
<1>1. IInv => SignedIsRecorded
    <2> SUFFICES ASSUME IInv, NEW s \in signed, UnderFailClosed(s.call)
                 PROVE  RequestRecord(s.call) \in table
        BY DEF SignedIsRecorded
    <2>1. s.call \in Calls
        BY DEF IInv, TypeOK
    <2>2. Founded(s)
        BY <2>1 DEF IInv, CallInv
    <2>3. QED
        BY <2>2 DEF Founded
<1>2. QED
    BY <1>1, Invariance, PTL

(***************************************************************************)
(* A certificate handed out under a fail-closed audit is on record, with   *)
(* the serial and the key ID it has.                                       *)
(***************************************************************************)
THEOREM DeliveredAfterRecord == Spec => []DeliveredIsRecorded
<1>1. IInv => DeliveredIsRecorded
    <2> SUFFICES ASSUME IInv, NEW k \in Calls, reply[k] = Certificate, UnderFailClosed(k)
                 PROVE  [call |-> k, event |-> "signing_approved",
                         keyID |-> cert[k].keyID, serial |-> cert[k].serial] \in table
        BY DEF DeliveredIsRecorded
    <2>1. CallInv(k)
        BY DEF IInv
    <2>2. verdict[k] = "approved" /\ ResultRecord(k) \in table
        BY <2>1 DEF CallInv, Settled, OnRecord
    <2>3. cert[k].keyID = DecisionOf(k).keyID
        BY <2>1, <2>2, KeyIDKept DEF CallInv, Settled, Derived
    <2>4. QED
        BY <2>2, <2>3 DEF ResultRecord, EventOf
<1>2. QED
    BY <1>1, Invariance, PTL

(***************************************************************************)
(* All that KMS signs for a call is one certificate, however often it is   *)
(* asked again.                                                            *)
(***************************************************************************)
THEOREM OneCertificatePerCall == Spec => []RetriesSignOneCertificate
<1>1. IInv => RetriesSignOneCertificate
    <2> SUFFICES ASSUME IInv, NEW s \in signed, NEW t \in signed, s.call = t.call
                 PROVE  s.cert = t.cert
        BY DEF RetriesSignOneCertificate
    <2>1. s.call \in Calls
        BY DEF IInv, TypeOK
    <2>2. Founded(s) /\ Founded(t)
        BY <2>1 DEF IInv, CallInv
    <2>3. QED
        BY <2>2 DEF Founded
<1>2. QED
    BY <1>1, Invariance, PTL

(***************************************************************************)
(* The result events in the table are true of what KMS has signed.         *)
(***************************************************************************)
THEOREM TruthOfResults == Spec => []ResultsTellTheTruth
<1>1. IInv => ResultsTellTheTruth
    <2> SUFFICES ASSUME IInv, NEW r \in table
                 PROVE  /\ r.event = "signing_approved" =>
                              \E s \in signed : /\ s.call = r.call
                                                /\ s.cert.serial = r.serial
                                                /\ s.cert.keyID = r.keyID
                        /\ r.event = "signing_denied" => \A s \in signed : s.call # r.call
        BY DEF ResultsTellTheTruth
    <2>1. PICK k \in Calls : k = r.call
        BY DEF IInv, TypeOK
    <2>2. TypeOK /\ CallInv(k) /\ Explained(r)
        BY <2>1 DEF IInv, CallInv
    <2>3. r.event \in {"signing_approved", "signing_denied"} =>
              r = ResultRecord(k) /\ r.event = EventOf(verdict[k])
        <3>1. r = RequestRecord(k) \/ r = ResultRecord(k)
            BY <2>1, <2>2 DEF Explained
        <3>2. RequestRecord(k).event = "signing_request"
            BY DEF RequestRecord
        <3>3. ResultRecord(k).event = EventOf(verdict[k])
            BY DEF ResultRecord
        <3>4. QED
            BY <3>1, <3>2, <3>3
    <2>4. ASSUME r.event = "signing_approved"
          PROVE  \E s \in signed : /\ s.call = r.call
                                   /\ s.cert.serial = r.serial
                                   /\ s.cert.keyID = r.keyID
        <3>1. verdict[k] = "approved"
            BY <2>3, <2>4 DEF EventOf
        <3>2. PICK s \in signed : s.call = k
            BY <2>2, <3>1 DEF CallInv, Settled
        <3>3. cert[k] \in Certificates /\ s.cert = SignedBy(cert[k], Unsigned)
            BY <2>2, <3>2 DEF TypeOK, CallInv, Founded
        <3>4. s.cert.serial = cert[k].serial /\ s.cert.keyID = cert[k].keyID
            BY <3>3, SignedByIsCertificate
        <3>5. cert[k].keyID = DecisionOf(k).keyID
            BY <2>2, <3>1, KeyIDKept DEF CallInv, Settled, Derived
        <3>6. r.serial = cert[k].serial /\ r.keyID = DecisionOf(k).keyID
            BY <2>3, <2>4, <3>1 DEF ResultRecord
        <3>7. QED
            BY <2>1, <3>2, <3>4, <3>5, <3>6
    <2>5. ASSUME r.event = "signing_denied", NEW s \in signed, s.call = k PROVE FALSE
        <3>1. verdict[k] = "denied"
            BY <2>3, <2>5 DEF EventOf
        <3>2. cert[k] = None
            BY <2>2, <3>1 DEF CallInv, Settled
        <3>3. QED
            BY <2>2, <2>5, <3>2 DEF CallInv, Founded
    <2>6. QED
        BY <2>1, <2>4, <2>5
<1>2. QED
    BY <1>1, Invariance, PTL

(***************************************************************************)
(* An item of the table has a serial just when it is an approved event.    *)
(***************************************************************************)
THEOREM SerialsTellApprovals == Spec => []SerialTellsApproval
<1>1. IInv => SerialTellsApproval
    <2> SUFFICES ASSUME IInv, NEW r \in table
                 PROVE  r.serial # 0 <=> r.event = "signing_approved"
        BY DEF SerialTellsApproval
    <2>1. PICK k \in Calls : k = r.call
        BY DEF IInv, TypeOK
    <2>2. TypeOK /\ CallInv(k) /\ Explained(r)
        BY <2>1 DEF IInv, CallInv
    <2>3. CASE r = RequestRecord(k)
        BY <2>3 DEF RequestRecord
    <2>4. CASE r = ResultRecord(k)
        <3>1. r.event = "signing_approved" <=> verdict[k] = "approved"
            BY <2>4 DEF ResultRecord, EventOf
        <3>2. ASSUME verdict[k] = "approved" PROVE r.serial # 0
            <4>1. cert[k] \in Certificates
                BY <2>2, <3>2 DEF TypeOK, CallInv, Settled
            <4>2. r.serial = cert[k].serial
                BY <2>4, <3>2 DEF ResultRecord
            <4>3. QED
                BY <4>1, <4>2 DEF Certificates
        <3>3. verdict[k] # "approved" => r.serial = 0
            BY <2>4 DEF ResultRecord
        <3>4. QED
            BY <3>1, <3>2, <3>3
    <2>5. QED
        BY <2>1, <2>2, <2>3, <2>4 DEF Explained
<1>2. QED
    BY <1>1, Invariance, PTL

(***************************************************************************)
(* Whatever the calls, crashes, lost answers and deployments, a response   *)
(* is true of what KMS has signed and of what the table says.              *)
(***************************************************************************)
THEOREM TruthOfAnswers == Spec => []AnswersTellTheTruth
<1>1. IInv => AnswersTellTheTruth
    <2> SUFFICES ASSUME IInv, NEW k \in Calls
                 PROVE  /\ reply[k] = Certificate =>
                              \E s \in signed : s.call = k /\ cert[k] = SignedBy(s.cert, s.by)
                        /\ reply[k] \in {"BadRequest", "Denied", "InternalError"} =>
                              \A s \in signed : s.call # k
                        /\ reply[k] \in {"BadRequest", "Denied", "InternalError",
                                         "SigningError"} =>
                              \A r \in ResultsOf(k) : r.event # "signing_approved"
        BY DEF AnswersTellTheTruth
    <2>1. CallInv(k) /\ Settled(k)
        BY DEF IInv, CallInv
    <2>2. ASSUME reply[k] = Certificate
          PROVE  \E s \in signed : s.call = k /\ cert[k] = SignedBy(s.cert, s.by)
        BY <2>1, <2>2 DEF Settled
    <2>3. ASSUME reply[k] \in {"BadRequest", "Denied", "InternalError"}, NEW s \in signed,
                 s.call = k
          PROVE  FALSE
        <3>1. cert[k] # None
            BY <2>1, <2>3 DEF CallInv, Founded
        <3>2. input[k] # None
            BY <2>1, <3>1 DEF Settled
        <3>3. reply[k] \in {"Denied", "InternalError"} => verdict[k] \in {"policy error", "denied"}
            BY <2>1 DEF Settled, ErrorOf, IInv, TypeOK, Verdicts
        <3>4. QED
            BY <2>1, <2>3, <3>1, <3>2, <3>3 DEF Settled
    <2>4. ASSUME reply[k] \in {"BadRequest", "Denied", "InternalError", "SigningError"},
                 NEW r \in ResultsOf(k), r.event = "signing_approved"
          PROVE  FALSE
        <3>1. r \in table /\ r.call = k /\ Explained(r)
            BY <2>1, <2>4 DEF ResultsOf, CallInv
        <3>2. r # RequestRecord(k)
            BY <2>4 DEF RequestRecord
        <3>3. r = ResultRecord(k) /\ verdict[k] # "none"
            BY <3>1, <3>2 DEF Explained
        <3>4. r.event = EventOf(verdict[k])
            BY <3>3 DEF ResultRecord
        <3>5. verdict[k] = "approved"
            BY <2>4, <3>4 DEF EventOf
        <3>6. input[k] # None
            BY <2>1, <3>3 DEF Settled
        <3>7. QED
            BY <2>1, <2>4, <3>5, <3>6 DEF Settled
    <2>5. QED
        BY <2>2, <2>3, <2>4
<1>2. QED
    BY <1>1, Invariance, PTL

(***************************************************************************)
(* Whatever KMS signed was within the policy that its container loaded.    *)
(***************************************************************************)
THEOREM SignaturesWithinPolicy == Spec => []SignedWithinPolicy
<1>1. IInv => SignedWithinPolicy
    <2> SUFFICES ASSUME IInv, NEW s \in signed
                 PROVE  WithinPolicy(input[s.call].cfg, input[s.call].iam, s.cert)
        BY DEF SignedWithinPolicy
    <2> DEFINE k == s.call
               c == input[k].cfg
               r == input[k].req
    <2>1. k \in Calls /\ CallInv(k)
        BY DEF IInv, TypeOK
    <2>2. cert[k] # None /\ s.cert = SignedBy(cert[k], Unsigned)
        BY <2>1 DEF CallInv, Founded
    <2>3. input[k] # None /\ Approved(k) /\ ~Rejects(DecisionOf(k))
        BY <2>1, <2>2 DEF CallInv, Settled
    <2>4. PICK serial \in Serials \ {0}, ca \in Keys \cup {Unsigned}, by \in Keys \cup {Unsigned} :
              cert[k] = SignedBy(Naming(Build(DecisionOf(k), serial), ca), by)
        BY <2>1, <2>2 DEF CallInv, Derived, Possible
    <2>5. s.cert = SignedBy(Naming(Build(DecisionOf(k), serial), ca), Unsigned)
        BY <2>2, <2>4, BuildThenSign
    <2>6. input[k] \in Inputs
        BY <2>1, <2>3 DEF IInv, TypeOK
    <2>7. c \in Configs /\ r \in Requests
        BY <2>6 DEF Inputs
    <2>8. /\ ValidConfig(c) /\ c.maxTTL \in Int
          /\ r.ttl \in Int /\ r.principals \in Seq(DOMAIN Fold)
        BY <2>7, HandlerAssumption
    <2>9. WithinPolicy(c, input[k].iam, Build(DecisionOf(k), serial))
        BY <2>3, <2>8, ApprovedWithinPolicy DEF Approved, DecisionOf
    <2>10. QED
        BY <2>5, <2>9, SigningKeepsPolicy
<1>2. QED
    BY <1>1, Invariance, PTL

(***************************************************************************)
(* Under fail-open, what the audit table does never keeps back a           *)
(* certificate that was signed.                                            *)
(***************************************************************************)
THEOREM FailOpenDelivered == Spec => []FailOpenNeverWithholds
<1>1. IInv => FailOpenNeverWithholds
    <2> SUFFICES ASSUME IInv, NEW s \in signed, input[s.call].cfg.auditFailOpen
                 PROVE  reply[s.call] # "AuditError"
        BY DEF FailOpenNeverWithholds
    <2>1. s.call \in Calls
        BY DEF IInv, TypeOK
    <2>2. cert[s.call] # None
        BY <2>1 DEF IInv, CallInv, Founded
    <2>3. QED
        BY <2>1, <2>2 DEF IInv, CallInv, Settled
<1>2. QED
    BY <1>1, Invariance, PTL

(***************************************************************************)
(* Without an alias, the key a certificate names is the one configured,    *)
(* and the one that signed it.                                             *)
(***************************************************************************)
THEOREM DirectKeySigns == Spec => []DirectKeyVerifies
<1>1. IInv => DirectKeyVerifies
    <2> SUFFICES ASSUME IInv, NEW k \in Calls, reply[k] = Certificate,
                        input[k].cfg.kmsKeyID \in Keys
                 PROVE  /\ cert[k].caKey = input[k].cfg.kmsKeyID
                        /\ cert[k].signedBy = input[k].cfg.kmsKeyID
        BY DEF DirectKeyVerifies
    <2>1. Settled(k)
        BY DEF IInv, CallInv
    <2>2. QED
        BY <2>1 DEF Settled
<1>2. QED
    BY <1>1, Invariance, PTL
-----------------------------------------------------------------------------
(* What a step may never do.                                               *)

(***************************************************************************)
(* Only a call about to be signed for is asked for, and only such a call,  *)
(* or one that was asked for, gets a signature.                            *)
(***************************************************************************)
LEMMA NewSigning ==
    ASSUME [Next]_vars
    PROVE  /\ \A ask \in asks' \ asks :
                 \E k \in Calls : pc[k] = "sign" /\ ask.call = k
           /\ \A s \in signed' \ signed :
                 \/ \E k \in Calls : pc[k] = "sign" /\ s.call = k
                 \/ \E ask \in asks : s.call = ask.call /\ s.cert = ask.cert
<1>1. ASSUME NEW k \in Calls, Sign(k) \/ AskUnanswered(k)
      PROVE  /\ \A ask \in asks' \ asks : pc[k] = "sign" /\ ask.call = k
             /\ \A s \in signed' \ signed : pc[k] = "sign" /\ s.call = k
    BY <1>1 DEF Sign, AskUnanswered, SignedAtKMS, SignRequest, Conclude, Goto
<1>2. ASSUME NEW ask \in asks, SignLate(ask)
      PROVE  /\ UNCHANGED asks
             /\ \A s \in signed' \ signed : s.call = ask.call /\ s.cert = ask.cert
    BY <1>2 DEF SignLate, SignedAtKMS
<1>3. CASE \/ \E k \in Calls : Sign(k) \/ AskUnanswered(k)
           \/ \E ask \in asks : SignLate(ask)
    BY <1>1, <1>2, <1>3
<1>4. CASE /\ ~\E k \in Calls : Sign(k) \/ AskUnanswered(k)
           /\ ~\E ask \in asks : SignLate(ask)
    <2>1. ASSUME NEW k \in Calls, Handle(k) PROVE UNCHANGED <<signed, asks>>
        BY <1>4, <2>1 DEF Handle, WriteRequestEvent, WriteResultEvent, PolicyFails, Deny,
                          RejectCert, BuildCert, FetchKey, FetchFails, SignFails, Conclude,
                          remoteVars
    <2>2. UNCHANGED <<signed, asks>>
        BY <1>4, <2>1 DEF Next, ColdStart, Kill, Invoke, InvokeMalformed, Accept, Deliver,
                          Deploy, Repoint, StoreLate, vars, remoteVars
    <2>3. QED
        BY <2>2
<1>5. QED
    BY <1>3, <1>4

(***************************************************************************)
(* KMS is not asked to sign for a call that has a result on record, a      *)
(* response, or no container any more; what it signs for one was asked for *)
(* before.                                                                 *)
(***************************************************************************)
THEOREM RequestPrecedesResult == Spec => AskedBeforeResult
<1>1. ASSUME IInv, NEW k \in Calls, pc[k] = "sign" PROVE Open(k)
    <2>1. CallInv(k)
        BY <1>1 DEF IInv
    <2>2. \A r \in table : r.call = k => r.event = "signing_request"
        BY <1>1, <2>1 DEF CallInv, Explained, RequestRecord
    <2>3. QED
        BY <1>1, <2>1, <2>2 DEF Open, ResultsOf, CallInv, Staged
<1>2. ASSUME IInv, [Next]_vars
      PROVE  /\ \A ask \in asks' \ asks : Open(ask.call)
             /\ \A s \in signed' \ signed :
                   Open(s.call) \/ [call |-> s.call, cert |-> s.cert] \in asks
    <2>1. \A ask \in asks : ask = [call |-> ask.call, cert |-> ask.cert]
        BY <1>2 DEF IInv, TypeOK
    <2>2. QED
        BY <1>1, <1>2, <2>1, NewSigning
<1>3. IInv /\ [Next]_vars =>
          [/\ \A ask \in asks' \ asks : Open(ask.call)
           /\ \A s \in signed' \ signed :
                 Open(s.call) \/ [call |-> s.call, cert |-> s.cert] \in asks]_vars
    BY <1>2
<1>4. QED
    BY <1>3, Invariance, PTL DEF AskedBeforeResult, Spec
=============================================================================
