-------------------------------- MODULE KMS --------------------------------
(***************************************************************************)
(* internal/signer/kms.go: a certificate is signed in two calls to KMS,    *)
(* GetPublicKey and Sign, each of which resolves the configured key ID     *)
(* anew.  A key ID is a key or an alias; an alias is a pointer that its    *)
(* owner can move.                                                         *)
(***************************************************************************)
CONSTANTS
    Keys,              \* the asymmetric keys in KMS
    KindOf,            \* key -> "rsa", "p256", "p384", "p521" or "other"
    Aliases            \* the aliases

ASSUME KMSAssumption ==
    /\ KindOf \in [Keys -> {"rsa", "p256", "p384", "p521", "other"}]
    /\ Keys \cap Aliases = {}

\* The key a key ID stands for, given where each alias points.
Resolve(target, keyID) == IF keyID \in Aliases THEN target[keyID] ELSE keyID

\* Keys that x509, x/crypto/ssh and the switch in KMSSigner.Sign all take.
Supported(key) == KindOf[key] # "other"

\* kmsSigningAlgorithm, with the SHA-512 that newAlgorithmSigner forces on RSA.
SigningAlgorithm(key) ==
    CASE KindOf[key] = "rsa"  -> "RSASSA_PKCS1_V1_5_SHA_512"
      [] KindOf[key] = "p256" -> "ECDSA_SHA_256"
      [] KindOf[key] = "p384" -> "ECDSA_SHA_384"
      [] KindOf[key] = "p521" -> "ECDSA_SHA_512"

(***************************************************************************)
(* KMS itself: an RSA key signs with several algorithms, the handler's     *)
(* among them, and a key on a curve with the one of its curve.             *)
(***************************************************************************)
KeyAccepts(key, algorithm) ==
    Supported(key) /\ SigningAlgorithm(key) = algorithm

\* Sign asked for under keyID, with the algorithm chosen for the key fetched.
Signs(target, keyID, fetched) ==
    KeyAccepts(Resolve(target, keyID), SigningAlgorithm(fetched))
=============================================================================
