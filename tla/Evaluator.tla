----------------------------- MODULE Evaluator -----------------------------
(***************************************************************************)
(* One configured handler deciding one request after another: what Handle  *)
(* gets from policy.Evaluate, and what cert.Sign makes of an approval      *)
(* before it reaches a signer.  No step of it is interrupted, so a         *)
(* decision is one action; Handler.tla has the interleavings.              *)
(***************************************************************************)
EXTENDS Policy

CONSTANTS
    Configs,           \* configurations config.Load may return
    Callers,           \* request contexts: [userArn, accountID]
    Requests,          \* decoded request bodies
    NoRequest          \* no request is being decided

\* The callers as Handle gets them.
Identities == {ExtractIAMContext(context) : context \in Callers}

\* What x/crypto/ssh lets through: a public exponent of at most 24 bits.
ParsedKey(key) ==
    key.modulus \in Number /\ key.exponent \in Number /\ key.exponent.bytes \in 1 .. 3

ASSUME EvaluatorAssumption ==
    /\ \A c \in Configs :
          ValidConfig(c) /\ c.rsaMinBits \in Int /\ c.maxTTL \in Int
    /\ \A r \in Requests :
          /\ DOMAIN r = {"key", "certType", "principals", "ttl", "source", "force", "exts"}
          /\ r.ttl \in Int /\ r.principals \in Seq(DOMAIN Fold)
          /\ r.key.parses /\ r.key.type \in RSATypes => ParsedKey(r.key)
    /\ NoRequest \notin Requests

VARIABLES
    cfg,               \* the configuration this process loaded
    iam,               \* the caller of the request decided
    req,               \* the request decided, or NoRequest
    outcome            \* "approved", "rejected" by cert.Sign, or a reason
vars == <<cfg, iam, req, outcome>>

Init ==
    /\ cfg \in Configs
    /\ iam \in Identities
    /\ req = NoRequest
    /\ outcome = "none"

\* Handle has a request, and nothing from an earlier one.
Submit(i, r) ==
    /\ req = NoRequest
    /\ iam' = i
    /\ req' = r
    /\ UNCHANGED cfg

\* policy.Evaluate denies.
Deny(i, r) ==
    /\ Submit(i, r)
    /\ ~Approves(cfg, i, r)
    /\ outcome' = DenialReason(cfg, i, r)

\* policy.Evaluate approves, and cert.Sign finds nothing wrong.
Approve(i, r) ==
    /\ Submit(i, r)
    /\ Approves(cfg, i, r)
    /\ ~Rejects(Decision(r, 0))
    /\ outcome' = "approved"

\* policy.Evaluate approves what cert.Sign then refuses to build.
Reject(i, r) ==
    /\ Submit(i, r)
    /\ Approves(cfg, i, r)
    /\ Rejects(Decision(r, 0))
    /\ outcome' = "rejected"

\* Mutant: a decision outlives its request.
ReturnKeepingOutcome ==
    /\ req # NoRequest
    /\ req' = NoRequest
    /\ UNCHANGED <<cfg, iam, outcome>>

\* The decision is handed back.
Return ==
    /\ req # NoRequest
    /\ req' = NoRequest
    /\ outcome' = "none"
    /\ UNCHANGED <<cfg, iam>>

Next ==
    \/ \E i \in Identities, r \in Requests :
           Deny(i, r) \/ Approve(i, r) \/ Reject(i, r)
    \/ Return

Spec == Init /\ [][Next]_vars
-----------------------------------------------------------------------------
Reasons ==
    {"invalid public key", "RSA key too small",
     "invalid certificate type", "certificate type not allowed",
     "TTL must be positive", "TTL exceeds maximum",
     "principals must not be empty", "invalid principal",
     "duplicate principal", "IAM account mismatch",
     "principal does not match IAM identity",
     "principal not in allowed list",
     "privileged principal not in allowed list", "invalid source address"}

Outcomes == {"none", "approved", "rejected"} \cup Reasons

\* The values the variables take: every denial has one of the reasons the
\* source gives to deny().
TypeOK ==
    /\ cfg \in Configs
    /\ iam \in Identities
    /\ outcome \in Outcomes
    /\ outcome = "none" <=> req = NoRequest

Approved == outcome = "approved"
Issued == Build(Decision(req, 0), 1)

(***************************************************************************)
(* The two layers that validate a request agree: cert.Sign only refuses an *)
(* approved one when its TTL does not fit a time.Duration.                 *)
(***************************************************************************)
ApprovalIsBuildable ==
    outcome = "rejected" => req.ttl * Second > Int64Max

(***************************************************************************)
(* No certificate lives longer than max_ttl or than was asked for, even    *)
(* when the conversion of the TTL wraps around.                            *)
(***************************************************************************)
LifetimeWithinMax ==
    Approved => Issued.lifetime <= cfg.maxTTL /\ Issued.lifetime <= req.ttl

(***************************************************************************)
(* Under a max_ttl that fits a time.Duration nothing wraps around: what    *)
(* the policy approves is built, and lives for just what was asked for.    *)
(***************************************************************************)
ExactWhenMaxTTLFits ==
    cfg.maxTTL * Second <= Int64Max =>
        outcome # "rejected" /\ (Approved => Issued.lifetime = req.ttl)

(***************************************************************************)
(* The RSA key in a certificate has a modulus of rsa_min_key_bits at least *)
(* (or of 0, which has no length): found in the wire encoding, the sign    *)
(* byte of the modulus and the unused bits of its first byte left out.     *)
(***************************************************************************)
KeyLongEnough ==
    Approved /\ req.key.type \in RSATypes /\ req.key.modulus.bytes > 0 =>
        Bits(req.key.modulus) >= MinBits(cfg)

(***************************************************************************)
(* Nor is a key turned away for its size that is long enough: a plain RSA  *)
(* key refused as too small has a modulus below rsa_min_key_bits.          *)
(***************************************************************************)
RefusedKeyIsShort ==
    outcome = "RSA key too small" /\ req.key.type # RSACertificate =>
        Bits(req.key.modulus) < MinBits(cfg)

(***************************************************************************)
(* A request is approved or not whichever way its principals are spelled   *)
(* and whatever order they come in: every comparison folds case, and none  *)
(* looks at one position only.                                             *)
(***************************************************************************)
Respellings(ps) ==
    {qs \in [DOMAIN ps -> ValidNames] :
        \E pi \in Bijection(DOMAIN ps, DOMAIN ps) :
            \A i \in DOMAIN ps : Fold[qs[i]] = Fold[ps[pi[i]]]}

SpellingAndOrderIrrelevant ==
    Approved =>
        \A qs \in Respellings(req.principals) :
            Approves(cfg, iam, [req EXCEPT !.principals = qs])

(***************************************************************************)
(* Asking for less is never refused: without a binding to the caller's     *)
(* name, each principal of an approved request is approved on its own.     *)
(***************************************************************************)
EachPrincipalStandsAlone ==
    Approved /\ ~cfg.enforceBinding =>
        \A p \in ToSet(req.principals) :
            Approves(cfg, iam, [req EXCEPT !.principals = <<p>>])

(***************************************************************************)
(* A certificate names a well-known system account only when the operator  *)
(* lists that account, in any spelling.                                    *)
(***************************************************************************)
PrivilegedOnlyWhenListed ==
    Approved =>
        \A p \in ToSet(req.principals) :
            Fold[p] \in PrivilegedNames =>
                \E a \in cfg.allowed : Fold[a] = Fold[p]

(***************************************************************************)
(* While containers with an old and a new configuration serve together, a  *)
(* change that only lifts limits refuses nothing that was approved.  No    *)
(* account and no list of types is the widest setting of each; no list of  *)
(* principals is neither wider nor narrower than one, which may name       *)
(* system accounts.                                                        *)
(***************************************************************************)
Looser(d, c) ==
    /\ MinBits(d) <= MinBits(c)
    /\ d.maxTTL >= c.maxTTL
    /\ \/ d.allowedTypes = {}
       \/ c.allowedTypes # {} /\ c.allowedTypes \subseteq d.allowedTypes
    /\ d.accountID \in {"", c.accountID}
    /\ d.enforceBinding => c.enforceBinding
    /\ \/ c.allowed = {} /\ d.allowed = {}
       \/ c.allowed # {} /\ FoldAll(c.allowed) \subseteq FoldAll(d.allowed)

LooserApprovesMore ==
    Approved => \A d \in Configs : Looser(d, cfg) => Approves(d, iam, req)

-----------------------------------------------------------------------------
(* What the repository's documents say, and the code does not do.          *)

(***************************************************************************)
(* docs/TEST_MATRIX.md: a TTL the policy accepts is the TTL of the         *)
(* certificate, without overflow or truncation.                            *)
(***************************************************************************)
TTLNotTruncated == Approved => Issued.lifetime = req.ttl

(***************************************************************************)
(* docs/DEPLOY_AWS.md: a request that omits its TTL, which decodes to 0,   *)
(* gets the default one, so it is approved if the same request with a TTL  *)
(* of one second is.                                                       *)
(***************************************************************************)
OmittedTTLGetsDefault ==
    req # NoRequest /\ req.ttl = 0
        /\ Approves(cfg, iam, [req EXCEPT !.ttl = 1])
    => Approved

(***************************************************************************)
(* policy.go: RSA keys below the minimum are rejected, by the bit-length   *)
(* of their modulus, so that only a short one is too small.  What is read  *)
(* of a certified key is its exponent.                                     *)
(***************************************************************************)
TooSmallIsShort ==
    outcome = "RSA key too small" => Bits(req.key.modulus) < MinBits(cfg)

(***************************************************************************)
(* docs/COMPATIBILITY.md: with callers bound to their names, a caller      *)
(* cannot request another user's principal unless a policy, here the list  *)
(* of allowed principals, says so.                                         *)
(***************************************************************************)
CallerGetsOwnNameOnly ==
    Approved /\ cfg.enforceBinding /\ cfg.allowed = {} =>
        \A p \in ToSet(req.principals) : Fold[p] = Fold[iam.username]
=============================================================================
