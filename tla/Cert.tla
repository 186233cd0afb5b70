------------------------------- MODULE Cert -------------------------------
(***************************************************************************)
(* internal/cert: the last checks on a certificate request and the         *)
(* certificate that is built from it, before a signer sees it.             *)
(*                                                                         *)
(* Principals, CIDRs and commands are atoms.  A public key is [parses,     *)
(* type, exponent, modulus], the last two of an RSA key; a number is       *)
(* [bytes, top], the bytes it takes and the first of them.  A source       *)
(* address is the sequence of its comma-separated parts, <<>> being the    *)
(* empty string; a map of extensions is the set of its keys, NilExtensions *)
(* being Go's nil map.  A time.Duration is an integer number of ticks,     *)
(* Second of them a second.                                                *)
(***************************************************************************)
EXTENDS Integers, Sequences, SequencesExt

CONSTANTS
    Second,            \* ticks in a second: time.Second, 10^9 in Go
    CIDRs,             \* the parts net.ParseCIDR accepts once trimmed
    NilExtensions,     \* a nil extensions map
    NoCommand          \* the empty force-command

ASSUME SecondAssumption == Second \in Nat \ {0}

UserCert == "user"
HostCert == "host"

DefaultExtensions ==
    {"permit-pty", "permit-port-forwarding", "permit-agent-forwarding",
     "permit-X11-forwarding", "permit-user-rc"}

\* The key types that begin with "ssh-rsa".
RSAKey == "ssh-rsa"
RSACertificate == "ssh-rsa-cert-v01@openssh.com"
RSATypes == {RSAKey, RSACertificate}

(***************************************************************************)
(* PublicKey.Marshal: the length-prefixed fields of the wire encoding, a   *)
(* field being [bytes, top, next], with its first two bytes.  An mpint has *)
(* a zero byte before a first byte whose high bit is set.  A certified key *)
(* has a nonce after its name, and fields after its modulus.               *)
(***************************************************************************)
Number == {n \in [bytes : Nat, top : 0 .. 255] : n.bytes = 0 <=> n.top = 0}

MPInt(n) ==
    IF n.top > 127 THEN [bytes |-> n.bytes + 1, top |-> 0, next |-> n.top]
                    ELSE [bytes |-> n.bytes, top |-> n.top, next |-> 0]

Opaque == [bytes |-> 32, top |-> 1, next |-> 1]

Marshal(key) ==
    IF key.type = RSACertificate
    THEN <<Opaque, Opaque, MPInt(key.exponent), MPInt(key.modulus), Opaque>>
    ELSE <<Opaque, MPInt(key.exponent), MPInt(key.modulus)>>

\* The bits of a number: those of its first byte, found by shifting it out,
\* and eight for each other byte.
PowersOfTwo == <<1, 2, 4, 8, 16, 32, 64, 128>>

Bits(n) ==
    IF n.bytes = 0 THEN 0
    ELSE 8 * (n.bytes - 1) + Cardinality({i \in 1 .. 8 : n.top >= PowersOfTwo[i]})

(***************************************************************************)
(* rsaModulusBitsFromWire: the bits of the third field, whose zero sign    *)
(* byte is dropped; 0 if there is no third field, or nothing in it.        *)
(***************************************************************************)
RSAModulusBitsFromWire(wire) ==
    IF Len(wire) < 3 THEN 0
    ELSE IF wire[3].bytes > 0 /\ wire[3].top = 0
         THEN Bits([bytes |-> wire[3].bytes - 1, top |-> wire[3].next])
         ELSE Bits([bytes |-> wire[3].bytes, top |-> wire[3].top])

\* checkRSAKeySize: a modulus that reads as 0 bits passes.
RSAKeyTooSmall(key) ==
    key.type \in RSATypes /\ RSAModulusBitsFromWire(Marshal(key)) \in 1 .. 2047

\* An empty source address has no parts to check.
BadSource(source) == \E part \in ToSet(source) : part \notin CIDRs

\* The reasons for which cert.Sign returns an error before it asks a signer.
Rejects(r) ==
    \/ r.principals = <<>>
    \/ r.ttl <= 0
    \/ r.certType \notin {UserCert, HostCert}
    \/ RSAKeyTooSmall(r.key)
    \/ BadSource(r.source)

Extensions(r) ==
    IF r.certType = HostCert THEN {}
    ELSE IF r.exts = NilExtensions THEN DefaultExtensions
    ELSE r.exts

\* Mutant: the duration itself is added to validAfter.
LifetimeInTicks(r) == r.ttl

\* validBefore - validAfter: uint64(TTL.Seconds()) drops the fraction.
Lifetime(r) == r.ttl \div Second

(***************************************************************************)
(* The certificate cert.Sign hands to the signer.  caKey and signedBy are  *)
(* its SignatureKey and the key that really made its Signature, both       *)
(* unset, as no signer has filled them in.                                 *)
(***************************************************************************)
Unsigned == "unsigned"

Build(r, serial) ==
    [serial     |-> serial,
     certType   |-> r.certType,
     key        |-> r.key,
     keyID      |-> r.keyID,
     principals |-> r.principals,
     lifetime   |-> Lifetime(r),
     source     |-> r.source,
     force      |-> r.force,
     exts       |-> Extensions(r),
     caKey      |-> Unsigned,
     signedBy   |-> Unsigned]

\* SignCert writes the signer's public key into the certificate, and then
\* the signature.
Naming(body, ca) == [body EXCEPT !.caKey = ca]
SignedBy(body, key) == [body EXCEPT !.signedBy = key]
=============================================================================
