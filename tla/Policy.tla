------------------------------ MODULE Policy ------------------------------
(***************************************************************************)
(* internal/policy: Evaluate, the decision to approve a request or to deny *)
(* it with a reason the caller sees.                                       *)
(*                                                                         *)
(* A request is [key, certType, principals, ttl, source, force, exts], an  *)
(* identity [arn, account, username] and a configuration holds the fields  *)
(* of config.Config that Evaluate reads.  An ARN is the sequence of its    *)
(* parts between slashes, <<>> being the empty string.  strings.ToLower on *)
(* principals and the trimming and lowering of certificate types are given *)
(* as functions, so that two spellings may or may not be the same name.    *)
(***************************************************************************)
EXTENDS Cert

CONSTANTS
    Fold,              \* strings.ToLower on the principals and usernames
    ValidNames,        \* the principals validPrincipalRE matches
    PrivilegedNames,   \* privilegedPrincipals, in lower case
    NormType,          \* ToLower(TrimSpace(.)) on certificate types
    Int64Max           \* the largest int64

ASSUME PolicyAssumption ==
    /\ Int64Max \in Nat
    /\ ValidNames \subseteq DOMAIN Fold

(***************************************************************************)
(* extractIAMContext: the caller of an API Gateway request context, whose  *)
(* username is what follows the last slash of the ARN: the name of a user, *)
(* the session of an assumed role.                                         *)
(***************************************************************************)
ExtractIAMContext(context) ==
    [arn      |-> context.userArn,
     account  |-> context.accountID,
     username |-> IF context.userArn = <<>> THEN "" ELSE Last(context.userArn)]

(***************************************************************************)
(* time.Duration(req.TTLSeconds) * time.Second is an int64 product, which  *)
(* wraps around in silence.                                                *)
(***************************************************************************)
Wrap(n) == ((n + Int64Max + 1) % (2 * (Int64Max + 1))) - (Int64Max + 1)

Duration(seconds) == Wrap(seconds * Second)

(***************************************************************************)
(* The loop over the requested principals: the first index at which it     *)
(* returns is the first name that is invalid or repeats an earlier one.    *)
(***************************************************************************)
Invalid(ps, i) == ps[i] \notin ValidNames

Duplicate(ps, i) == \E j \in 1 .. (i - 1) : Fold[ps[j]] = Fold[ps[i]]

FaultyPrincipals(ps) == {i \in DOMAIN ps : Invalid(ps, i) \/ Duplicate(ps, i)}

FirstFaultIsInvalid(ps) ==
    \E i \in FaultyPrincipals(ps) :
        Invalid(ps, i) /\ \A j \in FaultyPrincipals(ps) : i <= j

\* Mutant: the comparison is of the strings as they came.
FoldNothing(names) == names

FoldAll(names) == {Fold[p] : p \in names}

\* Mutant: an empty list of types allows none.
CertTypeListed(cfg, certType) ==
    NormType[certType] \in {NormType[t] : t \in cfg.allowedTypes}

CertTypeAllowed(cfg, certType) ==
    \/ cfg.allowedTypes = {}
    \/ NormType[certType] \in {NormType[t] : t \in cfg.allowedTypes}

\* Mutant: the minimum of an earlier policy.
MinBitsFixed(cfg) == 1024

\* The effective rsa_min_key_bits: an unset one stands for 2048.
MinBits(cfg) == IF cfg.rsaMinBits = 0 THEN 2048 ELSE cfg.rsaMinBits

\* Mutant: all bits of the first byte count.
RSAPublicKeyBytes(key) == 8 * Marshal(key)[3].bytes

\* rsaPublicKeyBits is cert's parser once more.
RSAPublicKeyBits(key) == RSAModulusBitsFromWire(Marshal(key))

\* Mutant: a key of the minimum itself is too small.
KeyAtMostMinimum(cfg, key) ==
    key.type \in RSATypes /\ RSAPublicKeyBits(key) \in 1 .. MinBits(cfg)

KeyTooSmall(cfg, key) ==
    key.type \in RSATypes /\ RSAPublicKeyBits(key) \in 1 .. (MinBits(cfg) - 1)

\* Mutant: the check stops after the first principal.
FirstPrivileged(ps) ==
    ps # <<>> /\ Fold[Head(ps)] \in PrivilegedNames

\* Some principal is a well-known system account.
NamesPrivileged(ps) == FoldAll(ToSet(ps)) \cap PrivilegedNames # {}

\* Mutant: one listed principal carries the others.
AnyListed(cfg, ps) == FoldAll(ToSet(ps)) \cap FoldAll(cfg.allowed) # {}

\* Every principal is on the configured list.
AllListed(cfg, ps) == FoldAll(ToSet(ps)) \subseteq FoldAll(cfg.allowed)

\* EnforceIAMBinding asks that one of the principals be the caller's username.
Bound(iam, ps) == Fold[iam.username] \in FoldAll(ToSet(ps))

(***************************************************************************)
(* Evaluate's checks in the order of the code, each with its reason.       *)
(***************************************************************************)
Checks(cfg, iam, req) == <<
    [fails  |-> ~req.key.parses,
     reason |-> "invalid public key"],
    [fails  |-> KeyTooSmall(cfg, req.key),
     reason |-> "RSA key too small"],
    [fails  |-> NormType[req.certType] \notin {UserCert, HostCert},
     reason |-> "invalid certificate type"],
    [fails  |-> ~CertTypeAllowed(cfg, req.certType),
     reason |-> "certificate type not allowed"],
    [fails  |-> req.ttl <= 0,
     reason |-> "TTL must be positive"],
    [fails  |-> cfg.maxTTL > 0 /\ req.ttl > cfg.maxTTL,
     reason |-> "TTL exceeds maximum"],
    [fails  |-> req.principals = <<>>,
     reason |-> "principals must not be empty"],
    [fails  |-> FirstFaultIsInvalid(req.principals),
     reason |-> "invalid principal"],
    [fails  |-> FaultyPrincipals(req.principals) # {},
     reason |-> "duplicate principal"],
    [fails  |-> cfg.accountID \notin {"", iam.account},
     reason |-> "IAM account mismatch"],
    [fails  |-> cfg.enforceBinding /\ ~Bound(iam, req.principals),
     reason |-> "principal does not match IAM identity"],
    [fails  |-> cfg.allowed # {} /\ ~AllListed(cfg, req.principals),
     reason |-> "principal not in allowed list"],
    [fails  |-> cfg.allowed = {} /\ NamesPrivileged(req.principals),
     reason |-> "privileged principal not in allowed list"],
    [fails  |-> BadSource(req.source),
     reason |-> "invalid source address"]>>

Approves(cfg, iam, req) ==
    LET checks == Checks(cfg, iam, req)
    IN  \A i \in DOMAIN checks : ~checks[i].fails

\* The reason of a denial: that of the first check that fails.
DenialReason(cfg, iam, req) ==
    LET checks == Checks(cfg, iam, req)
    IN  checks[SelectInSeq(checks, LAMBDA check : check.fails)].reason

(***************************************************************************)
(* The cert.Request an approval leads to.  GenerateKeyID names the type,   *)
(* the first principal and a random nonce, here one no other call draws.   *)
(***************************************************************************)
KeyID(certType, principals, nonce) ==
    [certType |-> certType, principal |-> Head(principals), nonce |-> nonce]

Decision(req, nonce) ==
    [certType   |-> NormType[req.certType],
     key        |-> req.key,
     principals |-> req.principals,
     ttl        |-> Duration(req.ttl),
     source     |-> req.source,
     force      |-> req.force,
     exts       |-> req.exts,
     keyID      |-> KeyID(NormType[req.certType], req.principals, nonce)]

(***************************************************************************)
(* What config.Load lets a running handler have: it fills in rsa_min_bits  *)
(* and refuses one below 2048, or a max_ttl that is not positive.          *)
(***************************************************************************)
ValidConfig(cfg) == cfg.rsaMinBits >= 2048 /\ cfg.maxTTL > 0
-----------------------------------------------------------------------------
(***************************************************************************)
(* A certificate within the policy of a configuration, for a caller:       *)
(* stated on the certificate, not on the request it came from.             *)
(***************************************************************************)
WithinPolicy(cfg, iam, body) ==
    LET names == FoldAll(ToSet(body.principals)) IN
    /\ body.principals # <<>>
    /\ \A i, j \in DOMAIN body.principals :
          Fold[body.principals[i]] = Fold[body.principals[j]] => i = j
    /\ body.lifetime <= cfg.maxTTL
    /\ cfg.allowedTypes # {} =>
          \E t \in cfg.allowedTypes : NormType[t] = body.certType
    /\ body.certType = HostCert => body.exts = {}
    /\ IF cfg.allowed = {} THEN names \cap PrivilegedNames = {}
                           ELSE names \subseteq FoldAll(cfg.allowed)
    /\ cfg.enforceBinding => Fold[iam.username] \in names
    /\ cfg.accountID # "" => iam.account = cfg.accountID
=============================================================================
