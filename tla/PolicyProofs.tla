--------------------------- MODULE PolicyProofs ---------------------------
(***************************************************************************)
(* What an approval by Evaluate tells of the request, for every            *)
(* configuration, caller and request.                                      *)
(***************************************************************************)
EXTENDS Policy, FiniteSetTheorems, TLAPS

\* Evaluate has fourteen reasons to deny.
LEMMA FourteenChecks ==
    ASSUME NEW cfg, NEW iam, NEW req
    PROVE  /\ DOMAIN Checks(cfg, iam, req) = 1 .. 14
           /\ 1 .. 14 = {1, 2, 3, 4, 5, 6, 7, 8, 9, 10, 11, 12, 13, 14}
<1>1. DOMAIN Checks(cfg, iam, req) = 1 .. 14
    BY DEF Checks
<1>2. 1 .. 14 = {1, 2, 3, 4, 5, 6, 7, 8, 9, 10, 11, 12, 13, 14}
    OBVIOUS
<1>3. QED
    BY <1>1, <1>2

(***************************************************************************)
(* An approved request passes every check of Evaluate.                     *)
(***************************************************************************)
LEMMA ApprovedPasses ==
    ASSUME NEW cfg, NEW iam, NEW req, Approves(cfg, iam, req)
    PROVE  /\ req.key.parses
           /\ ~KeyTooSmall(cfg, req.key)
           /\ NormType[req.certType] \in {UserCert, HostCert}
           /\ CertTypeAllowed(cfg, req.certType)
           /\ ~(req.ttl <= 0)
           /\ ~(cfg.maxTTL > 0 /\ req.ttl > cfg.maxTTL)
           /\ req.principals # <<>>
           /\ FaultyPrincipals(req.principals) = {}
           /\ cfg.accountID \in {"", iam.account}
           /\ cfg.enforceBinding => Bound(iam, req.principals)
           /\ cfg.allowed # {} => AllListed(cfg, req.principals)
           /\ cfg.allowed = {} => ~NamesPrivileged(req.principals)
           /\ ~BadSource(req.source)
<1> DEFINE checks == Checks(cfg, iam, req)
<1>1. DOMAIN checks = 1 .. 14
    BY FourteenChecks
<1>2. \A i \in 1 .. 14 : ~checks[i].fails
    BY <1>1 DEF Approves
<1>3. checks[1].fails <=> ~req.key.parses
    BY DEF Checks
<1>4. checks[2].fails <=> KeyTooSmall(cfg, req.key)
    BY DEF Checks
<1>5. checks[3].fails <=> NormType[req.certType] \notin {UserCert, HostCert}
    BY DEF Checks
<1>6. checks[4].fails <=> ~CertTypeAllowed(cfg, req.certType)
    BY DEF Checks
<1>7. checks[5].fails <=> req.ttl <= 0
    BY DEF Checks
<1>8. checks[6].fails <=> cfg.maxTTL > 0 /\ req.ttl > cfg.maxTTL
    BY DEF Checks
<1>9. checks[7].fails <=> req.principals = <<>>
    BY DEF Checks
<1>10. checks[9].fails <=> FaultyPrincipals(req.principals) # {}
    BY DEF Checks
<1>11. checks[10].fails <=> cfg.accountID \notin {"", iam.account}
    BY DEF Checks
<1>12. checks[11].fails <=> cfg.enforceBinding /\ ~Bound(iam, req.principals)
    BY DEF Checks
<1>13. checks[12].fails <=> cfg.allowed # {} /\ ~AllListed(cfg, req.principals)
    BY DEF Checks
<1>14. checks[13].fails <=> cfg.allowed = {} /\ NamesPrivileged(req.principals)
    BY DEF Checks
<1>15. checks[14].fails <=> BadSource(req.source)
    BY DEF Checks
<1> HIDE DEF checks
<1>16. QED
    <2>1. req.key.parses /\ CertTypeAllowed(cfg, req.certType)
        BY <1>2, <1>3, <1>6
    <2>2. /\ ~KeyTooSmall(cfg, req.key)
          /\ NormType[req.certType] \in {UserCert, HostCert}
        BY <1>2, <1>4, <1>5
    <2>3. ~(req.ttl <= 0) /\ ~(cfg.maxTTL > 0 /\ req.ttl > cfg.maxTTL)
        BY <1>2, <1>7, <1>8
    <2>4. req.principals # <<>> /\ FaultyPrincipals(req.principals) = {}
        BY <1>2, <1>9, <1>10
    <2>5. ~checks[10].fails /\ ~checks[11].fails
        BY <1>2
    <2>6. cfg.accountID \in {"", iam.account}
        BY <2>5, <1>11, Zenon
    <2>7. cfg.enforceBinding => Bound(iam, req.principals)
        BY <2>5, <1>12, Zenon
    <2>8. /\ cfg.allowed # {} => AllListed(cfg, req.principals)
          /\ cfg.allowed = {} => ~NamesPrivileged(req.principals)
          /\ ~BadSource(req.source)
        BY <1>2, <1>13, <1>14, <1>15
    <2>9. QED
        BY <2>1, <2>2, <2>3, <2>4, <2>6, <2>7, <2>8

(***************************************************************************)
(* A request that passes every check is approved.                          *)
(***************************************************************************)
LEMMA PassedIsApproved ==
    ASSUME NEW cfg, NEW iam, NEW req,
           req.key.parses,
           ~KeyTooSmall(cfg, req.key),
           NormType[req.certType] \in {UserCert, HostCert},
           CertTypeAllowed(cfg, req.certType),
           ~(req.ttl <= 0),
           ~(cfg.maxTTL > 0 /\ req.ttl > cfg.maxTTL),
           req.principals # <<>>,
           FaultyPrincipals(req.principals) = {},
           cfg.accountID \in {"", iam.account},
           cfg.enforceBinding => Bound(iam, req.principals),
           cfg.allowed # {} => AllListed(cfg, req.principals),
           cfg.allowed = {} => ~NamesPrivileged(req.principals),
           ~BadSource(req.source)
    PROVE  Approves(cfg, iam, req)
<1> DEFINE checks == Checks(cfg, iam, req)
<1>1. DOMAIN checks = {1, 2, 3, 4, 5, 6, 7, 8, 9, 10, 11, 12, 13, 14}
    BY FourteenChecks, Zenon
<1>2. ~FirstFaultIsInvalid(req.principals)
    BY DEF FirstFaultIsInvalid
<1>3. ~checks[1].fails /\ ~checks[2].fails /\ ~checks[3].fails /\ ~checks[4].fails
    BY DEF Checks
<1>4. ~checks[5].fails /\ ~checks[6].fails /\ ~checks[7].fails /\ ~checks[8].fails
    <2>1. /\ checks[5].fails <=> req.ttl <= 0
          /\ checks[6].fails <=> cfg.maxTTL > 0 /\ req.ttl > cfg.maxTTL
          /\ checks[7].fails <=> req.principals = <<>>
          /\ checks[8].fails <=> FirstFaultIsInvalid(req.principals)
        BY DEF Checks
    <2> HIDE DEF checks
    <2>2. QED
        BY <1>2, <2>1, Zenon
<1>5. ~checks[9].fails /\ ~checks[10].fails /\ ~checks[11].fails
    <2>1. ~checks[9].fails
        BY DEF Checks
    <2>2. checks[10].fails <=> cfg.accountID \notin {"", iam.account}
        BY DEF Checks
    <2>3. checks[11].fails <=> cfg.enforceBinding /\ ~Bound(iam, req.principals)
        BY DEF Checks
    <2> HIDE DEF checks
    <2>4. ~checks[10].fails
        BY <2>2, Zenon
    <2>5. ~checks[11].fails
        BY <2>3, Zenon
    <2>6. QED
        BY <2>1, <2>4, <2>5
<1>6. ~checks[12].fails /\ ~checks[13].fails /\ ~checks[14].fails
    BY DEF Checks
<1> HIDE DEF checks
<1>7. \A i \in DOMAIN checks : ~checks[i].fails
    BY <1>1, <1>3, <1>4, <1>5, <1>6, Zenon
<1>8. QED
    BY <1>7 DEF Approves, checks

(***************************************************************************)
(* The principals of an approved request are valid names.                  *)
(***************************************************************************)
LEMMA ApprovedNamesValid ==
    ASSUME NEW cfg, NEW iam, NEW req, Approves(cfg, iam, req)
    PROVE  \A i \in DOMAIN req.principals : req.principals[i] \in ValidNames
BY ApprovedPasses DEF FaultyPrincipals, Invalid

(***************************************************************************)
(* The TTL of an approved request whose duration fits an int64 is the      *)
(* duration asked for: nothing wraps around.                               *)
(***************************************************************************)
LEMMA WrapFits ==
    ASSUME NEW n \in Nat, n <= Int64Max
    PROVE  Wrap(n) = n
<1> DEFINE w == 2 * (Int64Max + 1)
<1>1. /\ Int64Max \in Nat
      /\ w \in Nat \ {0}
      /\ n + Int64Max + 1 \in 0 .. (w - 1)
    BY PolicyAssumption
<1> HIDE DEF w
<1>2. (n + Int64Max + 1) % w = n + Int64Max + 1
    BY <1>1
<1>3. QED
    BY <1>1, <1>2 DEF Wrap, w

(***************************************************************************)
(* Wrapping around never makes a duration longer, and a duration that is   *)
(* left positive is never longer than what was asked for.                  *)
(***************************************************************************)
LEMMA WrapShrinks ==
    ASSUME NEW n \in Nat
    PROVE  Wrap(n) \in Int /\ Wrap(n) <= n
<1> DEFINE w == 2 * (Int64Max + 1)
           m == n + Int64Max + 1
<1>1. Int64Max \in Nat /\ w \in Nat \ {0} /\ m \in Nat
    BY PolicyAssumption
<1> HIDE DEF w, m
<1>2. m % w \in Int /\ m % w <= m
    <2>1. m % w \in 0 .. (w - 1)
        BY <1>1
    <2>2. CASE m < w
        BY <1>1, <2>1, <2>2
    <2>3. CASE m >= w
        BY <1>1, <2>1, <2>3
    <2>4. QED
        BY <1>1, <2>2, <2>3
<1>3. Wrap(n) = (m % w) - (Int64Max + 1)
    BY DEF Wrap, m, w
<1>4. QED
    <2>1. m = n + Int64Max + 1
        BY DEF m
    <2>2. QED
        BY <1>1, <1>2, <1>3, <2>1

\* A product divided by one factor is the other, and a smaller dividend
\* gives no more.
LEMMA QuotientAtMost ==
    ASSUME NEW a \in Int, NEW s \in Nat \ {0}, NEW t \in Int, a <= t * s
    PROVE  a \div s \in Int /\ a \div s <= t
<1> DEFINE q == a \div s
<1>1. q \in Int /\ s * q <= a
    OBVIOUS
<1> HIDE DEF q
<1>2. ASSUME q >= t + 1 PROVE FALSE
    <2>1. s * q >= s * (t + 1)
        BY <1>1, <1>2
    <2>2. s * (t + 1) = t * s + s
        OBVIOUS
    <2>3. s * (t + 1) \in Int /\ t * s \in Int /\ s * q \in Int
        BY <1>1
    <2>4. QED
        BY <1>1, <2>1, <2>2, <2>3
<1>3. q <= t
    BY <1>1, <1>2
<1>4. QED
    BY <1>1, <1>3 DEF q

\* A multiple divided by its factor is what it is a multiple of.
LEMMA QuotientExact ==
    ASSUME NEW t \in Int, NEW s \in Nat \ {0}
    PROVE  (t * s) \div s = t
<1> DEFINE q == (t * s) \div s
<1>1. t * s \in Int /\ t * s <= t * s
    OBVIOUS
<1>2. q \in Int /\ q <= t
    BY <1>1, QuotientAtMost
<1>3. t * s < s * (q + 1)
    <2> DEFINE a == t * s
    <2>1. a \in Int
        OBVIOUS
    <2> HIDE DEF a
    <2>2. a < s * ((a \div s) + 1)
        BY <2>1
    <2>3. QED
        BY <2>2 DEF a
<1> HIDE DEF q
<1>4. ASSUME q + 1 <= t PROVE FALSE
    <2>1. PICK more \in Nat : t = (q + 1) + more
        <3>1. t - (q + 1) \in Nat /\ t = (q + 1) + (t - (q + 1))
            BY <1>2, <1>4
        <3>2. QED
            BY <3>1
    <2>2. t * s = s * (q + 1) + more * s
        BY <1>2, <2>1
    <2>3. more * s \in Nat /\ s * (q + 1) \in Int
        BY <1>2, <2>1
    <2>4. QED
        BY <1>1, <1>3, <2>2, <2>3
<1>5. QED
    BY <1>2, <1>4 DEF q

(***************************************************************************)
(* No certificate lives longer than was asked for.                         *)
(***************************************************************************)
LEMMA LifetimeAtMostTTL ==
    ASSUME NEW ttl \in Nat
    PROVE  Duration(ttl) \div Second \in Int /\ Duration(ttl) \div Second <= ttl
<1>1. Second \in Nat \ {0} /\ ttl * Second \in Nat
    BY SecondAssumption
<1>2. Duration(ttl) \in Int /\ Duration(ttl) <= ttl * Second
    BY <1>1, WrapShrinks DEF Duration
<1>3. QED
    BY <1>1, <1>2, QuotientAtMost

(***************************************************************************)
(* The two layers together keep what they build within the policy.         *)
(***************************************************************************)
LEMMA ApprovedWithinPolicy ==
    ASSUME NEW cfg, NEW iam, NEW req, NEW nonce, NEW serial,
           ValidConfig(cfg), cfg.maxTTL \in Int, req.ttl \in Int,
           req.principals \in Seq(DOMAIN Fold),
           Approves(cfg, iam, req), ~Rejects(Decision(req, nonce))
    PROVE  WithinPolicy(cfg, iam, Build(Decision(req, nonce), serial))
<1> DEFINE body == Build(Decision(req, nonce), serial)
           ps   == req.principals
<1>1. body.principals = ps /\ body.certType = NormType[req.certType]
    BY DEF Build, Decision
<1>2. ps # <<>> /\ FaultyPrincipals(ps) = {}
    BY ApprovedPasses
<1>3. \A i, j \in DOMAIN ps : Fold[ps[i]] = Fold[ps[j]] => i = j
    <2>1. \A i \in DOMAIN ps : \A j \in 1 .. (i - 1) : Fold[ps[j]] # Fold[ps[i]]
        BY <1>2 DEF FaultyPrincipals, Duplicate
    <2>2. DOMAIN ps = 1 .. Len(ps) /\ Len(ps) \in Nat
        OBVIOUS
    <2> SUFFICES ASSUME NEW i \in DOMAIN ps, NEW j \in DOMAIN ps,
                        Fold[ps[i]] = Fold[ps[j]]
                 PROVE  i = j
        OBVIOUS
    <2>3. i \notin 1 .. (j - 1) /\ j \notin 1 .. (i - 1)
        BY <2>1
    <2>4. QED
        BY <2>2, <2>3
<1>4. body.lifetime <= cfg.maxTTL
    <2>1. ~(req.ttl <= 0) /\ ~(cfg.maxTTL > 0 /\ req.ttl > cfg.maxTTL)
        BY ApprovedPasses
    <2>2. req.ttl \in Nat /\ req.ttl <= cfg.maxTTL
        BY <2>1 DEF ValidConfig
    <2>3. body.lifetime = Duration(req.ttl) \div Second
        BY DEF Build, Decision, Lifetime
    <2>4. QED
        BY <2>2, <2>3, LifetimeAtMostTTL
<1>5. cfg.allowedTypes # {} =>
          \E t \in cfg.allowedTypes : NormType[t] = body.certType
    <2>1. CertTypeAllowed(cfg, req.certType)
        BY ApprovedPasses
    <2>2. QED
        BY <1>1, <2>1 DEF CertTypeAllowed
<1>6. body.certType = HostCert => body.exts = {}
    BY DEF Build, Extensions
<1>7. IF cfg.allowed = {} THEN FoldAll(ToSet(ps)) \cap PrivilegedNames = {}
                          ELSE FoldAll(ToSet(ps)) \subseteq FoldAll(cfg.allowed)
    BY ApprovedPasses DEF NamesPrivileged, AllListed
<1>8. cfg.enforceBinding => Fold[iam.username] \in FoldAll(ToSet(ps))
    BY ApprovedPasses DEF Bound
<1>9. cfg.accountID # "" => iam.account = cfg.accountID
    <2>1. cfg.accountID \in {"", iam.account}
        BY ApprovedPasses
    <2>2. QED
        BY <2>1, Zenon
<1> HIDE DEF body
<1>10. WithinPolicy(cfg, iam, body)
    BY <1>1, <1>2, <1>3, <1>4, <1>5, <1>6, <1>7, <1>8, <1>9 DEF WithinPolicy
<1>11. QED
    BY <1>10 DEF body

\* What SignCert puts into a certificate is not the policy's concern.
LEMMA SigningKeepsPolicy ==
    ASSUME NEW cfg, NEW iam, NEW d, NEW serial, NEW ca, NEW by,
           WithinPolicy(cfg, iam, Build(d, serial))
    PROVE  WithinPolicy(cfg, iam, SignedBy(Naming(Build(d, serial), ca), by))
<1> DEFINE old == Build(d, serial)
           new == SignedBy(Naming(Build(d, serial), ca), by)
<1>1. /\ new.principals = old.principals
      /\ new.lifetime = old.lifetime
      /\ new.certType = old.certType
      /\ new.exts = old.exts
    BY DEF Build, Naming, SignedBy
<1> HIDE DEF old, new
<1>2. QED
    <2>1. WithinPolicy(cfg, iam, old) => WithinPolicy(cfg, iam, new)
        BY <1>1, Zenon DEF WithinPolicy
    <2>2. QED
        BY <2>1 DEF old, new
-----------------------------------------------------------------------------
(* The sizes of keys.                                                      *)

(***************************************************************************)
(* A byte that is not zero has from one to eight bits.                     *)
(***************************************************************************)
LEMMA BitsOfNumber ==
    ASSUME NEW n \in Number, n.bytes # 0
    PROVE  Bits(n) \in (8 * (n.bytes - 1) + 1) .. (8 * n.bytes)
<1> DEFINE T == {i \in 1 .. 8 : n.top >= PowersOfTwo[i]}
<1>1. n.bytes \in Nat \ {0} /\ n.top \in 1 .. 255
    BY DEF Number
<1>2. IsFiniteSet(1 .. 8) /\ Cardinality(1 .. 8) = 8
    <2>1. \A a, b \in Int : /\ IsFiniteSet(a .. b)
                            /\ Cardinality(a .. b) = IF a > b THEN 0 ELSE b - a + 1
        BY FS_Interval, Zenon
    <2> DEFINE one == 1
               eight == 8
    <2>2. one \in Int /\ eight \in Int /\ ~(one > eight) /\ eight - one + 1 = 8
        OBVIOUS
    <2> HIDE DEF one, eight
    <2>3. IsFiniteSet(one .. eight) /\ Cardinality(one .. eight) = 8
        BY <2>1, <2>2, Zenon
    <2>4. QED
        BY <2>3 DEF one, eight
<1>3. IsFiniteSet(T) /\ Cardinality(T) <= 8
    BY <1>2, FS_Subset
<1>4. Cardinality(T) \in Nat
    BY <1>3, FS_CardinalityType
<1>5. 1 \in T
    <2>1. PowersOfTwo[1] = 1
        BY DEF PowersOfTwo
    <2>2. QED
        BY <1>1, <2>1
<1>6. Cardinality(T) # 0
    BY <1>3, <1>5, FS_EmptySet
<1> HIDE DEF T
<1>7. Bits(n) = 8 * (n.bytes - 1) + Cardinality(T)
    BY <1>1 DEF Bits, T
<1>8. QED
    BY <1>1, <1>3, <1>4, <1>6, <1>7

(***************************************************************************)
(* The parser sees a modulus as it is: the zero byte that keeps it from    *)
(* being negative does not count.                                          *)
(***************************************************************************)
LEMMA ModulusBits ==
    ASSUME NEW key, key.type # RSACertificate, key.modulus \in Number
    PROVE  RSAPublicKeyBits(key) = Bits(key.modulus)
<1> DEFINE m == key.modulus
           wire == <<Opaque, MPInt(key.exponent), MPInt(m)>>
<1>1. Marshal(key) = wire
    BY DEF Marshal
<1>2. Len(wire) = 3 /\ wire[3] = MPInt(m)
    OBVIOUS
<1>3. /\ m.bytes \in Nat /\ m.top \in 0 .. 255
      /\ m.bytes = 0 <=> m.top = 0
      /\ m = [bytes |-> m.bytes, top |-> m.top]
    BY DEF Number
<1> HIDE DEF m, wire
<1>4. CASE m.top > 127
    <2>1. /\ wire[3].bytes = m.bytes + 1
          /\ wire[3].top = 0
          /\ wire[3].next = m.top
        BY <1>2, <1>4 DEF MPInt
    <2>2. m.bytes + 1 > 0 /\ (m.bytes + 1) - 1 = m.bytes
        BY <1>3
    <2>3. RSAModulusBitsFromWire(wire) = Bits([bytes |-> m.bytes, top |-> m.top])
        BY <1>2, <2>1, <2>2 DEF RSAModulusBitsFromWire
    <2>4. QED
        BY <1>1, <1>3, <2>3 DEF RSAPublicKeyBits, m
<1>5. CASE ~(m.top > 127)
    <2>1. wire[3].bytes = m.bytes /\ wire[3].top = m.top
        BY <1>2, <1>5 DEF MPInt
    <2>2. ~(wire[3].bytes > 0 /\ wire[3].top = 0)
        BY <1>3, <2>1
    <2>3. RSAModulusBitsFromWire(wire) = Bits([bytes |-> m.bytes, top |-> m.top])
        BY <1>2, <2>1, <2>2 DEF RSAModulusBitsFromWire
    <2>4. QED
        BY <1>1, <1>3, <2>3 DEF RSAPublicKeyBits, m
<1>6. QED
    BY <1>4, <1>5

(***************************************************************************)
(* Of a certified key the parser sees the exponent, which is always short. *)
(***************************************************************************)
LEMMA CertifiedKeyTooSmall ==
    ASSUME NEW cfg, ValidConfig(cfg), cfg.rsaMinBits \in Int,
           NEW key, key.type = RSACertificate,
           key.exponent \in Number, key.exponent.bytes \in 1 .. 3
    PROVE  KeyTooSmall(cfg, key)
<1> DEFINE e == key.exponent
           wire == <<Opaque, Opaque, MPInt(e), MPInt(key.modulus), Opaque>>
<1>1. Marshal(key) = wire
    BY DEF Marshal
<1>2. Len(wire) = 5 /\ wire[3] = MPInt(e)
    OBVIOUS
<1>3. /\ e.top \in 0 .. 255 /\ e.top # 0 /\ e.bytes \in 1 .. 3
      /\ e = [bytes |-> e.bytes, top |-> e.top]
    BY DEF Number
<1>4. Bits(e) \in 1 .. 24
    BY <1>3, BitsOfNumber
<1> HIDE DEF e, wire
<1>5. RSAModulusBitsFromWire(wire) = Bits([bytes |-> e.bytes, top |-> e.top])
    <2>1. CASE e.top > 127
        <3>1. /\ wire[3].bytes = e.bytes + 1
              /\ wire[3].top = 0
              /\ wire[3].next = e.top
            BY <1>2, <2>1 DEF MPInt
        <3>2. e.bytes + 1 > 0 /\ (e.bytes + 1) - 1 = e.bytes
            BY <1>3
        <3>3. QED
            BY <1>2, <3>1, <3>2 DEF RSAModulusBitsFromWire
    <2>2. CASE ~(e.top > 127)
        <3>1. wire[3].bytes = e.bytes /\ wire[3].top = e.top
            BY <1>2, <2>2 DEF MPInt
        <3>2. QED
            BY <1>2, <1>3, <3>1 DEF RSAModulusBitsFromWire
    <2>3. QED
        BY <2>1, <2>2
<1>6. RSAPublicKeyBits(key) = Bits(e)
    BY <1>1, <1>3, <1>5 DEF RSAPublicKeyBits
<1>7. MinBits(cfg) \in Int /\ MinBits(cfg) >= 2048
    BY DEF ValidConfig, MinBits
<1>8. RSAPublicKeyBits(key) \in 1 .. (MinBits(cfg) - 1)
    BY <1>4, <1>6, <1>7
<1>9. QED
    BY <1>8 DEF KeyTooSmall, RSATypes

(***************************************************************************)
(* A key that is not too small has a modulus of the configured length, or  *)
(* of none.                                                                *)
(***************************************************************************)
LEMMA LongEnough ==
    ASSUME NEW cfg, ValidConfig(cfg), cfg.rsaMinBits \in Int,
           NEW key, key.type \in RSATypes,
           key.exponent \in Number, key.exponent.bytes \in 1 .. 3,
           key.modulus \in Number, key.modulus.bytes # 0,
           ~KeyTooSmall(cfg, key)
    PROVE  Bits(key.modulus) >= MinBits(cfg)
<1>1. key.type # RSACertificate
    BY CertifiedKeyTooSmall
<1>2. RSAPublicKeyBits(key) = Bits(key.modulus)
    BY <1>1, ModulusBits
<1>3. Bits(key.modulus) \notin 1 .. (MinBits(cfg) - 1)
    BY <1>2 DEF KeyTooSmall
<1>4. MinBits(cfg) \in Int
    BY DEF ValidConfig, MinBits
<1>5. Bits(key.modulus) \in Int /\ Bits(key.modulus) >= 1
    <2>1. key.modulus.bytes \in Nat \ {0}
        BY DEF Number
    <2>2. QED
        BY <2>1, BitsOfNumber
<1>6. QED
    BY <1>3, <1>4, <1>5

\* A plain key that is too small is short: no modulus is counted short.
LEMMA RefusedIsShort ==
    ASSUME NEW cfg, ValidConfig(cfg), cfg.rsaMinBits \in Int,
           NEW key, key.type # RSACertificate, key.modulus \in Number,
           KeyTooSmall(cfg, key)
    PROVE  Bits(key.modulus) < MinBits(cfg)
<1>1. RSAPublicKeyBits(key) = Bits(key.modulus)
    BY ModulusBits
<1>2. MinBits(cfg) \in Int
    BY DEF ValidConfig, MinBits
<1>3. RSAPublicKeyBits(key) \in 1 .. (MinBits(cfg) - 1)
    BY DEF KeyTooSmall
<1>4. QED
    BY <1>1, <1>2, <1>3
=============================================================================
