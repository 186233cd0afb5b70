-------------------------- MODULE EvaluatorProofs --------------------------
(***************************************************************************)
(* Proofs about Evaluator: what it decides, for every configuration,       *)
(* caller and request.                                                     *)
(***************************************************************************)
EXTENDS Evaluator, PolicyProofs, WellFoundedInduction

\* Of some numbers there is a smallest.
LEMMA SomeSmallest ==
    ASSUME NEW S, S \subseteq Nat, S # {}
    PROVE  Min(S) \in S /\ \A y \in S : Min(S) <= y
<1> DEFINE R == OpToRel(<, Nat)
<1>1. R = {ss \in Nat \X Nat : ss[1] < ss[2]}
    BY Zenon DEF OpToRel
<1>2. IsWellFoundedOn(R, Nat)
    BY NatLessThanWellFounded, Zenon
<1> HIDE DEF R
<1>3. \E x \in S : \A y \in S : <<y, x>> \notin R
    BY <1>2, WFMin
<1>4. \E x \in S : \A y \in S : x <= y
    <2>1. PICK x \in S : \A y \in S : <<y, x>> \notin R
        BY <1>3
    <2>2. ASSUME NEW y \in S PROVE x <= y
        <3>1. <<y, x>> \in Nat \X Nat
            BY SMT
        <3>2. ~(<<y, x>>[1] < <<y, x>>[2])
            BY <1>1, <2>1, <3>1, Zenon
        <3>3. QED
            BY <3>2
    <2>3. QED
        BY <2>2
<1>5. QED
    BY <1>4 DEF Min

(***************************************************************************)
(* A denial has the reason of a check, the first that fails.               *)
(***************************************************************************)
LEMMA DenialOfCheck ==
    ASSUME NEW c, NEW i, NEW r, ~Approves(c, i, r)
    PROVE  \E n \in 1 .. 14 : /\ Checks(c, i, r)[n].fails
                              /\ n = 1 \/ ~Checks(c, i, r)[1].fails
                              /\ DenialReason(c, i, r) = Checks(c, i, r)[n].reason
<1> DEFINE checks == Checks(c, i, r)
           failed == {n \in 1 .. Len(checks) : checks[n].fails}
<1>1. Len(checks) = 14 /\ DOMAIN checks = 1 .. 14
    BY DEF Checks
<1>2. DenialReason(c, i, r) = checks[SelectInSeq(checks, LAMBDA check : check.fails)].reason
    BY DEF DenialReason
<1>3. failed # {}
    BY <1>1 DEF Approves
<1> HIDE DEF checks
<1>4. SelectInSeq(checks, LAMBDA check : check.fails) = Min(failed)
    BY <1>3 DEF SelectInSeq
<1>5. /\ Min(failed) \in 1 .. 14 /\ checks[Min(failed)].fails
      /\ \A m \in failed : Min(failed) <= m
    BY <1>1, <1>3, SomeSmallest
<1>6. Min(failed) = 1 \/ 1 \notin failed
    BY <1>5
<1>7. 1 \notin failed => ~checks[1].fails
    BY <1>1
<1> HIDE DEF failed
<1>8. QED
    BY <1>2, <1>4, <1>5, <1>6, <1>7 DEF checks

\* The checks are counted apart from the strings they carry.
LEMMA CheckNumbers ==
    /\ 1 .. 14 = {1, 2, 3, 4, 5, 6, 7, 8, 9, 10, 11, 12, 13, 14}
    /\ 2 # 1
OBVIOUS

\* The reasons of the checks, one each.
LEMMA ReasonsOfChecks ==
    ASSUME NEW c, NEW i, NEW r
    PROVE  /\ \A n \in 1 .. 14 : Checks(c, i, r)[n].reason \in Reasons
           /\ \A n \in 1 .. 14 :
                 Checks(c, i, r)[n].reason = "RSA key too small" => n = 2
           /\ Checks(c, i, r)[1].fails <=> ~r.key.parses
           /\ Checks(c, i, r)[2].fails <=> KeyTooSmall(c, r.key)
<1> DEFINE checks == Checks(c, i, r)
<1>1. /\ checks[1].reason = "invalid public key"
      /\ checks[2].reason = "RSA key too small"
      /\ checks[3].reason = "invalid certificate type"
      /\ checks[4].reason = "certificate type not allowed"
      /\ checks[5].reason = "TTL must be positive"
      /\ checks[6].reason = "TTL exceeds maximum"
      /\ checks[7].reason = "principals must not be empty"
    BY DEF Checks
<1>2. /\ checks[8].reason = "invalid principal"
      /\ checks[9].reason = "duplicate principal"
      /\ checks[10].reason = "IAM account mismatch"
      /\ checks[11].reason = "principal does not match IAM identity"
      /\ checks[12].reason = "principal not in allowed list"
      /\ checks[13].reason = "privileged principal not in allowed list"
      /\ checks[14].reason = "invalid source address"
    BY DEF Checks
<1>3. /\ checks[1].fails <=> ~r.key.parses
      /\ checks[2].fails <=> KeyTooSmall(c, r.key)
    BY DEF Checks
<1> HIDE DEF checks
<1>4. \A n \in {1, 2, 3, 4, 5, 6, 7, 8, 9, 10, 11, 12, 13, 14} : checks[n].reason \in Reasons
    <2>1. /\ checks[1].reason \in Reasons /\ checks[2].reason \in Reasons
          /\ checks[3].reason \in Reasons /\ checks[4].reason \in Reasons
          /\ checks[5].reason \in Reasons /\ checks[6].reason \in Reasons
          /\ checks[7].reason \in Reasons
        BY <1>1 DEF Reasons
    <2>2. /\ checks[8].reason \in Reasons /\ checks[9].reason \in Reasons
          /\ checks[10].reason \in Reasons /\ checks[11].reason \in Reasons
          /\ checks[12].reason \in Reasons /\ checks[13].reason \in Reasons
          /\ checks[14].reason \in Reasons
        BY <1>2 DEF Reasons
    <2>3. QED
        BY <2>1, <2>2, Zenon
<1>5. \A n \in {1, 2, 3, 4, 5, 6, 7, 8, 9, 10, 11, 12, 13, 14} :
          checks[n].reason = "RSA key too small" => n = 2
    <2>1. /\ checks[1].reason # "RSA key too small"
          /\ checks[3].reason # "RSA key too small"
          /\ checks[4].reason # "RSA key too small"
          /\ checks[5].reason # "RSA key too small"
          /\ checks[6].reason # "RSA key too small"
          /\ checks[7].reason # "RSA key too small"
        BY <1>1
    <2>2. /\ checks[8].reason # "RSA key too small"
          /\ checks[9].reason # "RSA key too small"
          /\ checks[10].reason # "RSA key too small"
          /\ checks[11].reason # "RSA key too small"
          /\ checks[12].reason # "RSA key too small"
          /\ checks[13].reason # "RSA key too small"
          /\ checks[14].reason # "RSA key too small"
        BY <1>2
    <2>3. QED
        BY <2>1, <2>2, Zenon
<1>6. \A n \in 1 .. 14 : checks[n].reason \in Reasons
    BY <1>4, CheckNumbers, Zenon
<1>7. \A n \in 1 .. 14 : checks[n].reason = "RSA key too small" => n = 2
    BY <1>5, CheckNumbers, Zenon
<1>8. QED
    BY <1>3, <1>6, <1>7, Zenon DEF checks

\* A key is refused as too small only once it has parsed.
LEMMA TooSmallDenial ==
    ASSUME NEW c, NEW i, NEW r, ~Approves(c, i, r),
           DenialReason(c, i, r) = "RSA key too small"
    PROVE  KeyTooSmall(c, r.key) /\ r.key.parses
<1>1. PICK n \in 1 .. 14 : /\ Checks(c, i, r)[n].fails
                           /\ n = 1 \/ ~Checks(c, i, r)[1].fails
                           /\ DenialReason(c, i, r) = Checks(c, i, r)[n].reason
    BY DenialOfCheck, Zenon
<1>2. n = 2
    BY <1>1, ReasonsOfChecks, Zenon
<1>3. n # 1
    BY <1>2, CheckNumbers, Zenon
<1>4. Checks(c, i, r)[2].fails /\ ~Checks(c, i, r)[1].fails
    BY <1>1, <1>2, <1>3, Zenon
<1>5. QED
    BY <1>4, ReasonsOfChecks, Zenon

-----------------------------------------------------------------------------
(* The inductive invariant: an outcome is still the one that the request,  *)
(* the caller and the configuration at hand lead to.                       *)

Decided ==
    /\ req \in Requests \cup {NoRequest}
    /\ outcome \in {"approved", "rejected"} =>
          req \in Requests /\ Approves(cfg, iam, req)
    /\ outcome = "approved" => ~Rejects(Decision(req, 0))
    /\ outcome = "rejected" => Rejects(Decision(req, 0))
    /\ outcome \in Reasons =>
          /\ req \in Requests /\ ~Approves(cfg, iam, req)
          /\ outcome = DenialReason(cfg, iam, req)

IInv == TypeOK /\ Decided

\* An outcome without a denial is none of the reasons.
LEMMA NoReason == \A reason \in Reasons : reason \notin {"none", "approved", "rejected"}
BY DEF Reasons

\* Every step keeps the invariant.
LEMMA StepIInv ==
    ASSUME IInv, [Next]_vars
    PROVE  IInv'
<1>1. ASSUME NEW i \in Identities, NEW r \in Requests,
             Deny(i, r) \/ Approve(i, r) \/ Reject(i, r)
      PROVE  cfg' = cfg /\ iam' = i /\ req' = r /\ r # NoRequest
    BY <1>1, EvaluatorAssumption DEF Deny, Approve, Reject, Submit
<1>2. ASSUME NEW i \in Identities, NEW r \in Requests, Deny(i, r)
      PROVE  IInv'
    <2>1. outcome' = DenialReason(cfg, i, r) /\ ~Approves(cfg, i, r)
        BY <1>2 DEF Deny
    <2>2. PICK n \in 1 .. 14 : DenialReason(cfg, i, r) = Checks(cfg, i, r)[n].reason
        BY <2>1, DenialOfCheck, Zenon
    <2>3. outcome' \in Reasons
        BY <2>1, <2>2, ReasonsOfChecks, Zenon
    <2>4. QED
        BY <1>1, <1>2, <2>1, <2>3, NoReason DEF IInv, TypeOK, Decided, Outcomes
<1>3. ASSUME NEW i \in Identities, NEW r \in Requests, Approve(i, r)
      PROVE  IInv'
    <2>1. outcome' = "approved" /\ Approves(cfg, i, r) /\ ~Rejects(Decision(r, 0))
        BY <1>3 DEF Approve
    <2>2. QED
        BY <1>1, <1>3, <2>1, NoReason DEF IInv, TypeOK, Decided, Outcomes
<1>4. ASSUME NEW i \in Identities, NEW r \in Requests, Reject(i, r)
      PROVE  IInv'
    <2>1. outcome' = "rejected" /\ Approves(cfg, i, r) /\ Rejects(Decision(r, 0))
        BY <1>4 DEF Reject
    <2>2. QED
        BY <1>1, <1>4, <2>1, NoReason DEF IInv, TypeOK, Decided, Outcomes
<1>5. ASSUME Return PROVE IInv'
    BY <1>5, NoReason DEF IInv, TypeOK, Decided, Outcomes, Return
<1>6. ASSUME UNCHANGED vars PROVE IInv'
    BY <1>6 DEF IInv, TypeOK, Decided, vars
<1>7. QED
    BY <1>2, <1>3, <1>4, <1>5, <1>6 DEF Next

\* The invariant holds in every state.
LEMMA Invariance == Spec => []IInv
<1>1. Init => IInv
    BY NoReason DEF Init, IInv, TypeOK, Decided, Outcomes
<1>2. QED
    BY <1>1, StepIInv, PTL DEF Spec

(***************************************************************************)
(* Whatever is asked, a denial has one of the reasons of policy.go.        *)
(***************************************************************************)
THEOREM TypeInvariant == Spec => []TypeOK
<1>1. IInv => TypeOK
    BY DEF IInv
<1>2. QED
    BY <1>1, Invariance, PTL
-----------------------------------------------------------------------------
(* What an approval is worth.                                              *)

\* What the assumptions say of the request and the configuration at hand.
LEMMA AtHand ==
    ASSUME IInv, outcome \in {"approved", "rejected"}
    PROVE  /\ ValidConfig(cfg) /\ cfg.rsaMinBits \in Int /\ cfg.maxTTL \in Int
           /\ DOMAIN req = {"key", "certType", "principals", "ttl", "source", "force", "exts"}
           /\ req.ttl \in Int /\ req.principals \in Seq(DOMAIN Fold)
           /\ req.key.type \in RSATypes => ParsedKey(req.key)
           /\ Approves(cfg, iam, req)
<1>1. cfg \in Configs /\ req \in Requests /\ Approves(cfg, iam, req)
    BY DEF IInv, TypeOK, Decided
<1>2. req.key.parses
    BY <1>1, ApprovedPasses
<1>3. QED
    BY <1>1, <1>2, EvaluatorAssumption

(***************************************************************************)
(* The two layers that validate a request disagree only on a TTL that does *)
(* not fit a time.Duration.                                                *)
(***************************************************************************)
THEOREM ApprovalBuilds == Spec => []ApprovalIsBuildable
<1>1. IInv => ApprovalIsBuildable
    <2> SUFFICES ASSUME IInv, outcome = "rejected", ~(req.ttl * Second > Int64Max)
                 PROVE  FALSE
        BY DEF ApprovalIsBuildable
    <2> DEFINE d == Decision(req, 0)
    <2>1. Rejects(d) /\ Approves(cfg, iam, req)
        BY DEF IInv, Decided
    <2>2. /\ d.principals = req.principals
          /\ d.ttl = Duration(req.ttl)
          /\ d.certType = NormType[req.certType]
          /\ d.key = req.key
          /\ d.source = req.source
        BY DEF Decision
    <2>3. ValidConfig(cfg) /\ cfg.rsaMinBits \in Int /\ req.ttl \in Int
        BY AtHand
    <2> HIDE DEF d
    <2>4. ~(d.ttl <= 0)
        <3>1. ~(req.ttl <= 0)
            BY <2>1, ApprovedPasses
        <3>2. Second \in Nat \ {0} /\ Int64Max \in Nat
            BY SecondAssumption, PolicyAssumption
        <3>3. req.ttl * Second \in Nat /\ req.ttl * Second > 0
            BY <2>3, <3>1, <3>2
        <3>4. Duration(req.ttl) = req.ttl * Second
            BY <3>2, <3>3, WrapFits DEF Duration
        <3>5. QED
            BY <2>2, <3>3, <3>4
    <2>5. ~RSAKeyTooSmall(d.key)
        <3>1. ~KeyTooSmall(cfg, d.key)
            BY <2>1, <2>2, ApprovedPasses
        <3>2. MinBits(cfg) \in Int /\ MinBits(cfg) >= 2048
            BY <2>3 DEF ValidConfig, MinBits
        <3>3. 1 .. 2047 \subseteq 1 .. (MinBits(cfg) - 1)
            BY <3>2
        <3> DEFINE bits == RSAModulusBitsFromWire(Marshal(d.key))
        <3>4. RSAKeyTooSmall(d.key) <=> d.key.type \in RSATypes /\ bits \in 1 .. 2047
            BY DEF RSAKeyTooSmall
        <3>5. d.key.type \in RSATypes => bits \notin 1 .. (MinBits(cfg) - 1)
            BY <3>1 DEF KeyTooSmall, RSAPublicKeyBits
        <3> HIDE DEF bits
        <3>6. QED
            BY <3>3, <3>4, <3>5
    <2>6. /\ d.principals # <<>>
          /\ d.certType \in {UserCert, HostCert}
          /\ ~BadSource(d.source)
        BY <2>1, <2>2, ApprovedPasses
    <2>7. QED
        BY <2>1, <2>4, <2>5, <2>6 DEF Rejects
<1>2. QED
    BY <1>1, Invariance, PTL

(***************************************************************************)
(* No certificate outlives max_ttl or what was asked for.                  *)
(***************************************************************************)
THEOREM LifetimeBounded == Spec => []LifetimeWithinMax
<1>1. IInv => LifetimeWithinMax
    <2> SUFFICES ASSUME IInv, outcome = "approved"
                 PROVE  Issued.lifetime <= cfg.maxTTL /\ Issued.lifetime <= req.ttl
        BY DEF LifetimeWithinMax, Approved
    <2>1. ValidConfig(cfg) /\ cfg.maxTTL \in Int /\ req.ttl \in Int
        BY AtHand
    <2>2. ~(req.ttl <= 0) /\ ~(cfg.maxTTL > 0 /\ req.ttl > cfg.maxTTL)
        BY AtHand, ApprovedPasses
    <2>3. req.ttl \in Nat /\ req.ttl <= cfg.maxTTL
        BY <2>1, <2>2 DEF ValidConfig
    <2>4. Issued.lifetime = Duration(req.ttl) \div Second
        BY DEF Issued, Build, Decision, Lifetime
    <2>5. QED
        BY <2>1, <2>3, <2>4, LifetimeAtMostTTL
<1>2. QED
    BY <1>1, Invariance, PTL

(***************************************************************************)
(* With a max_ttl that fits a time.Duration, for any TTL asked for, what   *)
(* is approved is built and has the lifetime asked for.                    *)
(***************************************************************************)
THEOREM LifetimeExact == Spec => []ExactWhenMaxTTLFits
<1>1. ASSUME IInv, outcome \in {"approved", "rejected"}, cfg.maxTTL * Second <= Int64Max
      PROVE  req.ttl * Second \in Nat /\ req.ttl * Second <= Int64Max
    <2>1. ValidConfig(cfg) /\ cfg.maxTTL \in Int /\ req.ttl \in Int
        BY <1>1, AtHand
    <2>2. ~(req.ttl <= 0) /\ ~(cfg.maxTTL > 0 /\ req.ttl > cfg.maxTTL)
        BY <1>1, AtHand, ApprovedPasses
    <2>3. req.ttl \in Nat /\ cfg.maxTTL \in Nat /\ req.ttl <= cfg.maxTTL
        BY <2>1, <2>2 DEF ValidConfig
    <2>4. Second \in Nat /\ Int64Max \in Nat
        BY SecondAssumption, PolicyAssumption
    <2>5. PICK more \in Nat : cfg.maxTTL = req.ttl + more
        <3>1. cfg.maxTTL - req.ttl \in Nat /\ cfg.maxTTL = req.ttl + (cfg.maxTTL - req.ttl)
            BY <2>3
        <3>2. QED
            BY <3>1
    <2>6. cfg.maxTTL * Second = req.ttl * Second + more * Second
        BY <2>3, <2>4, <2>5
    <2>7. req.ttl * Second \in Nat /\ more * Second \in Nat
        BY <2>3, <2>4
    <2>8. QED
        BY <1>1, <2>4, <2>6, <2>7
<1>2. IInv /\ ApprovalIsBuildable => ExactWhenMaxTTLFits
    <2> SUFFICES ASSUME IInv, ApprovalIsBuildable, cfg.maxTTL * Second <= Int64Max
                 PROVE  outcome # "rejected" /\ (Approved => Issued.lifetime = req.ttl)
        BY DEF ExactWhenMaxTTLFits
    <2>1. outcome # "rejected"
        BY <1>1, PolicyAssumption DEF ApprovalIsBuildable
    <2>2. ASSUME outcome = "approved" PROVE Issued.lifetime = req.ttl
        <3>1. Issued.lifetime = Duration(req.ttl) \div Second
            BY DEF Issued, Build, Decision, Lifetime
        <3>2. Duration(req.ttl) = req.ttl * Second
            BY <1>1, <2>2, WrapFits DEF Duration
        <3>3. req.ttl \in Int /\ Second \in Nat \ {0}
            BY <2>2, AtHand, SecondAssumption
        <3>4. (req.ttl * Second) \div Second = req.ttl
            BY <3>3, QuotientExact
        <3>5. QED
            BY <3>1, <3>2, <3>4
    <2>3. QED
        BY <2>1, <2>2 DEF Approved
<1>3. QED
    BY <1>2, Invariance, ApprovalBuilds, PTL

(***************************************************************************)
(* An RSA key in a certificate is as long as the configuration asks, for   *)
(* every length and every first byte of its modulus.                       *)
(***************************************************************************)
THEOREM KeysLongEnough == Spec => []KeyLongEnough
<1>1. IInv => KeyLongEnough
    <2> SUFFICES ASSUME IInv, outcome = "approved", req.key.type \in RSATypes,
                        req.key.modulus.bytes > 0
                 PROVE  Bits(req.key.modulus) >= MinBits(cfg)
        BY DEF KeyLongEnough, Approved
    <2>1. ValidConfig(cfg) /\ cfg.rsaMinBits \in Int
        BY AtHand
    <2>2. ~KeyTooSmall(cfg, req.key)
        BY AtHand, ApprovedPasses
    <2>3. /\ req.key.exponent \in Number /\ req.key.exponent.bytes \in 1 .. 3
          /\ req.key.modulus \in Number
        BY AtHand DEF ParsedKey
    <2>4. req.key.modulus.bytes # 0
        BY <2>3 DEF Number
    <2>5. QED
        BY <2>1, <2>2, <2>3, <2>4, LongEnough
<1>2. QED
    BY <1>1, Invariance, PTL

(***************************************************************************)
(* A plain RSA key refused as too small is: the parser counts no modulus   *)
(* short, whatever its length and its first byte.                          *)
(***************************************************************************)
THEOREM NoLongKeyRefused == Spec => []RefusedKeyIsShort
<1>1. IInv => RefusedKeyIsShort
    <2>1. ASSUME IInv, outcome = "RSA key too small"
          PROVE  /\ KeyTooSmall(cfg, req.key) /\ ParsedKey(req.key)
                 /\ ValidConfig(cfg) /\ cfg.rsaMinBits \in Int
        <3>1. outcome \in Reasons
            BY <2>1 DEF Reasons
        <3>2. /\ req \in Requests /\ cfg \in Configs /\ ~Approves(cfg, iam, req)
              /\ outcome = DenialReason(cfg, iam, req)
            BY <2>1, <3>1, Zenon DEF IInv, TypeOK, Decided
        <3>3. KeyTooSmall(cfg, req.key) /\ req.key.parses
            BY <2>1, <3>2, TooSmallDenial, Zenon
        <3>4. req.key.type \in RSATypes
            BY <3>3, Zenon DEF KeyTooSmall
        <3>5. QED
            BY <3>2, <3>3, <3>4, EvaluatorAssumption, Zenon
    <2>2. QED
        BY <2>1, RefusedIsShort, Zenon DEF RefusedKeyIsShort, ParsedKey
<1>2. QED
    BY <1>1, Invariance, PTL

(***************************************************************************)
(* A system account gets into a certificate by the operator's list only.   *)
(***************************************************************************)
THEOREM PrivilegedListed == Spec => []PrivilegedOnlyWhenListed
<1>1. IInv => PrivilegedOnlyWhenListed
    <2> SUFFICES ASSUME IInv, outcome = "approved", NEW p \in ToSet(req.principals),
                        Fold[p] \in PrivilegedNames
                 PROVE  \E a \in cfg.allowed : Fold[a] = Fold[p]
        BY DEF PrivilegedOnlyWhenListed, Approved
    <2>1. /\ cfg.allowed # {} => AllListed(cfg, req.principals)
          /\ cfg.allowed = {} => ~NamesPrivileged(req.principals)
        BY AtHand, ApprovedPasses
    <2>2. Fold[p] \in FoldAll(ToSet(req.principals))
        BY DEF FoldAll
    <2>3. cfg.allowed # {}
        BY <2>1, <2>2 DEF NamesPrivileged
    <2>4. QED
        BY <2>1, <2>2, <2>3 DEF AllListed, FoldAll
<1>2. QED
    BY <1>1, Invariance, PTL
-----------------------------------------------------------------------------
(* Other configurations for the same.                                      *)

(***************************************************************************)
(* A configuration with looser limits approves what this one approves.     *)
(***************************************************************************)
LEMMA LooserApproves ==
    ASSUME NEW c, ValidConfig(c), c.rsaMinBits \in Int, c.maxTTL \in Int,
           NEW d, ValidConfig(d), d.rsaMinBits \in Int, d.maxTTL \in Int,
           NEW i, NEW r, r.ttl \in Int, Looser(d, c), Approves(c, i, r)
    PROVE  Approves(d, i, r)
<1>1. ~KeyTooSmall(d, r.key)
    <2>1. MinBits(d) \in Int /\ MinBits(c) \in Int
        BY DEF ValidConfig, MinBits
    <2>2. MinBits(d) <= MinBits(c)
        BY Zenon DEF Looser
    <2>3. 1 .. (MinBits(d) - 1) \subseteq 1 .. (MinBits(c) - 1)
        BY <2>1, <2>2
    <2>4. ~KeyTooSmall(c, r.key)
        BY ApprovedPasses
    <2>5. QED
        BY <2>3, <2>4, Zenon DEF KeyTooSmall
<1>2. CertTypeAllowed(d, r.certType)
    <2>1. CertTypeAllowed(c, r.certType)
        BY ApprovedPasses
    <2>2. d.allowedTypes = {} \/ (c.allowedTypes # {} /\ c.allowedTypes \subseteq d.allowedTypes)
        BY Zenon DEF Looser
    <2>3. QED
        BY <2>1, <2>2 DEF CertTypeAllowed
<1>3. ~(r.ttl <= 0) /\ ~(d.maxTTL > 0 /\ r.ttl > d.maxTTL)
    <2>1. ~(r.ttl <= 0) /\ ~(c.maxTTL > 0 /\ r.ttl > c.maxTTL)
        BY ApprovedPasses
    <2>2. d.maxTTL >= c.maxTTL
        BY Zenon DEF Looser
    <2>3. c.maxTTL > 0
        BY DEF ValidConfig
    <2>4. QED
        BY <2>1, <2>2, <2>3
<1>4. d.accountID \in {"", i.account}
    <2>1. c.accountID \in {"", i.account}
        BY ApprovedPasses
    <2>2. d.accountID \in {"", c.accountID}
        BY Zenon DEF Looser
    <2>3. QED
        BY <2>1, <2>2, Zenon
<1>5. d.enforceBinding => Bound(i, r.principals)
    <2>1. c.enforceBinding => Bound(i, r.principals)
        BY ApprovedPasses
    <2>2. d.enforceBinding => c.enforceBinding
        BY Zenon DEF Looser
    <2>3. QED
        BY <2>1, <2>2, Zenon
<1>6. /\ d.allowed # {} => AllListed(d, r.principals)
      /\ d.allowed = {} => ~NamesPrivileged(r.principals)
    <2>1. /\ c.allowed # {} => AllListed(c, r.principals)
          /\ c.allowed = {} => ~NamesPrivileged(r.principals)
        BY ApprovedPasses
    <2>2. \/ c.allowed = {} /\ d.allowed = {}
          \/ c.allowed # {} /\ FoldAll(c.allowed) \subseteq FoldAll(d.allowed)
        BY Zenon DEF Looser
    <2>3. CASE c.allowed = {} /\ d.allowed = {}
        BY <2>1, <2>3
    <2>4. CASE c.allowed # {} /\ FoldAll(c.allowed) \subseteq FoldAll(d.allowed)
        <3>1. d.allowed # {}
            BY <2>4 DEF FoldAll
        <3>2. QED
            BY <2>1, <2>4, <3>1 DEF AllListed
    <2>5. QED
        BY <2>2, <2>3, <2>4
<1>7. /\ r.key.parses
      /\ NormType[r.certType] \in {UserCert, HostCert}
      /\ r.principals # <<>>
      /\ FaultyPrincipals(r.principals) = {}
      /\ ~BadSource(r.source)
    BY ApprovedPasses, Zenon
<1>8. QED
    BY <1>1, <1>2, <1>3, <1>4, <1>5, <1>6, <1>7, PassedIsApproved, Zenon

(***************************************************************************)
(* Loosening the limits of any configuration loses no approval.            *)
(***************************************************************************)
THEOREM LooserIsMonotone == Spec => []LooserApprovesMore
<1>1. IInv => LooserApprovesMore
    <2> SUFFICES ASSUME IInv, outcome = "approved", NEW d \in Configs, Looser(d, cfg)
                 PROVE  Approves(d, iam, req)
        BY DEF LooserApprovesMore, Approved
    <2>1. /\ ValidConfig(cfg) /\ cfg.rsaMinBits \in Int /\ cfg.maxTTL \in Int
          /\ req.ttl \in Int /\ Approves(cfg, iam, req)
        BY AtHand
    <2>2. ValidConfig(d) /\ d.rsaMinBits \in Int /\ d.maxTTL \in Int
        BY EvaluatorAssumption, Zenon
    <2>3. QED
        BY <2>1, <2>2, LooserApproves, Zenon
<1>2. QED
    BY <1>1, Invariance, PTL
-----------------------------------------------------------------------------
(* Other requests for the same.                                            *)

(***************************************************************************)
(* What the approval of one request tells of another that differs in its   *)
(* principals: they have only to pass the checks of principals.            *)
(***************************************************************************)
LEMMA OtherPrincipals ==
    ASSUME IInv, outcome = "approved", NEW qs,
           qs # <<>>, FaultyPrincipals(qs) = {},
           cfg.enforceBinding => Bound(iam, qs),
           FoldAll(ToSet(qs)) \subseteq FoldAll(ToSet(req.principals))
    PROVE  Approves(cfg, iam, [req EXCEPT !.principals = qs])
<1> DEFINE other == [req EXCEPT !.principals = qs]
<1>1. DOMAIN req = {"key", "certType", "principals", "ttl", "source", "force", "exts"}
    BY AtHand
<1>2. /\ other.key = req.key
      /\ other.certType = req.certType
      /\ other.ttl = req.ttl
      /\ other.source = req.source
      /\ other.principals = qs
    BY <1>1
<1> HIDE DEF other
<1>3. /\ cfg.allowed # {} => AllListed(cfg, qs)
      /\ cfg.allowed = {} => ~NamesPrivileged(qs)
    <2>1. /\ cfg.allowed # {} => AllListed(cfg, req.principals)
          /\ cfg.allowed = {} => ~NamesPrivileged(req.principals)
        BY AtHand, ApprovedPasses
    <2>2. QED
        BY <2>1 DEF AllListed, NamesPrivileged
<1>4. /\ req.key.parses
      /\ ~KeyTooSmall(cfg, req.key)
      /\ NormType[req.certType] \in {UserCert, HostCert}
      /\ CertTypeAllowed(cfg, req.certType)
      /\ ~(req.ttl <= 0)
      /\ ~(cfg.maxTTL > 0 /\ req.ttl > cfg.maxTTL)
      /\ cfg.accountID \in {"", iam.account}
      /\ ~BadSource(req.source)
    BY AtHand, ApprovedPasses, Zenon
<1>5. Approves(cfg, iam, other)
    BY <1>2, <1>3, <1>4, PassedIsApproved, Zenon
<1>6. QED
    BY <1>5 DEF other

(***************************************************************************)
(* Each principal that was approved in a list is approved alone.           *)
(***************************************************************************)
THEOREM PrincipalsStandAlone == Spec => []EachPrincipalStandsAlone
<1>1. IInv => EachPrincipalStandsAlone
    <2> SUFFICES ASSUME IInv, outcome = "approved", ~cfg.enforceBinding,
                        NEW p \in ToSet(req.principals)
                 PROVE  Approves(cfg, iam, [req EXCEPT !.principals = <<p>>])
        BY DEF EachPrincipalStandsAlone, Approved
    <2>1. p \in ValidNames
        <3>1. PICK i \in DOMAIN req.principals : p = req.principals[i]
            BY DEF ToSet
        <3>2. QED
            BY <3>1, AtHand, ApprovedNamesValid
    <2>2. <<p>> # <<>> /\ DOMAIN <<p>> = {1} /\ <<p>>[1] = p
        OBVIOUS
    <2>3. FaultyPrincipals(<<p>>) = {}
        <3>1. 1 .. (1 - 1) = {}
            OBVIOUS
        <3>2. QED
            BY <2>1, <2>2, <3>1, Zenon DEF FaultyPrincipals, Invalid, Duplicate
    <2>4. ToSet(<<p>>) = {p}
        BY <2>2 DEF ToSet
    <2>5. FoldAll(ToSet(<<p>>)) \subseteq FoldAll(ToSet(req.principals))
        BY <2>4 DEF FoldAll
    <2>6. QED
        BY <2>2, <2>3, <2>5, OtherPrincipals, Zenon
<1>2. QED
    BY <1>1, Invariance, PTL

(***************************************************************************)
(* A request is approved in every order and every spelling, if in one.     *)
(***************************************************************************)
THEOREM SpellingIrrelevant == Spec => []SpellingAndOrderIrrelevant
<1>1. IInv => SpellingAndOrderIrrelevant
    <2> DEFINE ps == req.principals
    <2> SUFFICES ASSUME IInv, outcome = "approved",
                        NEW qs \in [DOMAIN ps -> ValidNames],
                        NEW pi \in Bijection(DOMAIN ps, DOMAIN ps),
                        \A i \in DOMAIN ps : Fold[qs[i]] = Fold[ps[pi[i]]]
                 PROVE  Approves(cfg, iam, [req EXCEPT !.principals = qs])
        BY DEF SpellingAndOrderIrrelevant, Approved, Respellings
    <2>1. /\ ps # <<>> /\ FaultyPrincipals(ps) = {}
          /\ cfg.enforceBinding => Bound(iam, ps)
        BY AtHand, ApprovedPasses
    <2>2. ps \in Seq(DOMAIN Fold)
        BY AtHand
    <2>3. DOMAIN ps = 1 .. Len(ps) /\ Len(ps) \in Nat /\ Len(ps) # 0
        BY <2>1, <2>2
    <2>4. /\ pi \in [DOMAIN ps -> DOMAIN ps]
          /\ \A i, j \in DOMAIN ps : pi[i] = pi[j] => i = j
          /\ \A w \in DOMAIN ps : \E v \in DOMAIN ps : pi[v] = w
        BY DEF Bijection, Injection, Surjection, IsInjective
    <2>5. qs # <<>>
        <3>1. 1 \in DOMAIN qs
            BY <2>3
        <3>2. QED
            BY <3>1
    <2> HIDE DEF ps
    <2>6. \A i \in DOMAIN ps : \A j \in 1 .. (i - 1) : Fold[ps[j]] # Fold[ps[i]]
        BY <2>1 DEF FaultyPrincipals, Duplicate
    <2>7. ASSUME NEW i \in DOMAIN ps, NEW j \in 1 .. (i - 1), Fold[qs[j]] = Fold[qs[i]]
          PROVE  FALSE
        <3>1. i \in 1 .. Len(ps) /\ j \in 1 .. Len(ps) /\ i # j
            BY <2>3, <2>7
        <3>2. pi[i] # pi[j]
            BY <2>3, <2>4, <3>1
        <3>3. Fold[ps[pi[i]]] = Fold[ps[pi[j]]]
            BY <2>3, <2>7, <3>1
        <3>4. pi[i] \in 1 .. Len(ps) /\ pi[j] \in 1 .. Len(ps)
            BY <2>3, <2>4, <3>1
        <3>5. pi[i] \in 1 .. (pi[j] - 1) \/ pi[j] \in 1 .. (pi[i] - 1)
            BY <2>3, <3>2, <3>4
        <3>6. QED
            BY <2>3, <2>6, <3>3, <3>4, <3>5
    <2>8. FaultyPrincipals(qs) = {}
        BY <2>7 DEF FaultyPrincipals, Invalid, Duplicate
    <2>9. FoldAll(ToSet(qs)) = FoldAll(ToSet(ps))
        <3>1. ASSUME NEW x \in FoldAll(ToSet(qs)) PROVE x \in FoldAll(ToSet(ps))
            BY <2>4, <3>1 DEF FoldAll, ToSet
        <3>2. ASSUME NEW x \in FoldAll(ToSet(ps)) PROVE x \in FoldAll(ToSet(qs))
            <4>1. PICK w \in DOMAIN ps : x = Fold[ps[w]]
                BY <3>2 DEF FoldAll, ToSet
            <4>2. PICK v \in DOMAIN ps : pi[v] = w
                BY <2>4
            <4>3. QED
                BY <4>1, <4>2 DEF FoldAll, ToSet
        <3>3. QED
            BY <3>1, <3>2
    <2>10. cfg.enforceBinding => Bound(iam, qs)
        BY <2>1, <2>9 DEF Bound
    <2>11. QED
        BY <2>5, <2>8, <2>9, <2>10, OtherPrincipals DEF ps
<1>2. QED
    BY <1>1, Invariance, PTL
=============================================================================
