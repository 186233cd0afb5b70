---------------------------- MODULE MCEvaluator ----------------------------
(***************************************************************************)
(* Small inputs for Evaluator: spellings of three accounts, one of them    *)
(* privileged, and an invalid name; TTLs at and around every boundary,     *)
(* those of a time.Duration included, which here holds 7 seconds.          *)
(***************************************************************************)
EXTENDS Evaluator

MCFold ==
    [n \in {"alice", "Alice", "bob", "root", "Root", "two words", "",
          "arn:aws:iam::other:root"} |->
        CASE n = "Alice" -> "alice" [] n = "Root" -> "root" [] OTHER -> n]

MCValidNames == {"alice", "Alice", "bob", "root", "Root"}
MCPrivilegedNames == {"root"}

MCNormType ==
    [t \in {"user", " User ", "HOST", "host", "x509"} |->
        CASE t = " User " -> "user" [] t = "HOST" -> "host" [] OTHER -> t]

MCSecond == 2
MCInt64Max == 15       \* 7.5 seconds
MCCIDRs == {"10/8"}

\* Three settings for the key, the type and the lifetime, with every
\* setting of the rules about principals.
MCConfigs ==
    {[rsaMinBits |-> base[1], allowedTypes |-> base[2], maxTTL |-> base[3],
      accountID |-> account, enforceBinding |-> binding, allowed |-> names] :
        base \in {<<2048, {}, 3>>, <<3072, {" User "}, 20>>, <<2048, {"x509"}, 20>>,
                 <<2048, {}, 20>>},
        account \in {"", "acct"},
        binding \in BOOLEAN,
        names \in {{}, {"Alice"}, {"alice", "Root"}}}

\* A user, a role session, the root user and an event without an identity.
MCCallers ==
    {[userArn |-> <<"arn:aws:iam::acct:user", "Alice">>, accountID |-> "acct"],
     [userArn |-> <<"arn:aws:sts::acct:assumed-role", "ops", "bob">>, accountID |-> "acct"],
     [userArn |-> <<"arn:aws:iam::other:root">>, accountID |-> "other"],
     [userArn |-> <<>>, accountID |-> ""]}

Zero == [bytes |-> 0, top |-> 0]
Key(type, bytes, top) ==
    [parses |-> TRUE, type |-> type, exponent |-> [bytes |-> 3, top |-> 1],
     modulus |-> [bytes |-> bytes, top |-> top]]
PlainKey ==
    [parses |-> TRUE, type |-> "ssh-ed25519", exponent |-> Zero, modulus |-> Zero]

\* 1024, 2047, 2048, 3071, 3072 and 0 bits, and 4096 of them certified.
MCKeys ==
    {Key(RSAKey, 128, 255), Key(RSAKey, 256, 127), Key(RSAKey, 256, 128),
     Key(RSAKey, 384, 64), Key(RSAKey, 384, 200), Key(RSAKey, 0, 0),
     Key(RSACertificate, 512, 128), [PlainKey EXCEPT !.parses = FALSE]}

Plain ==
    [key |-> PlainKey, certType |-> "user", principals |-> <<"alice">>,
     ttl |-> 3, source |-> <<>>, force |-> NoCommand, exts |-> NilExtensions]

(***************************************************************************)
(* Every list of up to two names, with the types; and every TTL, and every *)
(* key and source address, with the plain rest.                            *)
(***************************************************************************)
MCRequests ==
    {[Plain EXCEPT !.principals = ps, !.certType = t] :
        ps \in BoundedSeq({"alice", "Alice", "bob", "root", "Root", "two words"}, 2), t \in {"user", "HOST"}}
    \cup
    {[Plain EXCEPT !.ttl = n, !.certType = t] :
        n \in -1 .. 21, t \in DOMAIN MCNormType}
    \cup
    {[Plain EXCEPT !.key = k, !.source = s] :
        k \in MCKeys,
        s \in {<<>>, <<"10/8">>, <<"10/8", "10/8">>, <<"10/8", "">>}}
=============================================================================
