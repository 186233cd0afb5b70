----------------------------- MODULE MCHandler -----------------------------
(***************************************************************************)
(* A small authority: requests that end in an approval, in a denial and in *)
(* an approval cert.Sign refuses; two keys of one kind, one of another and *)
(* one SSH has no place for.                                               *)
(***************************************************************************)
EXTENDS HandlerInv, FiniteSets, TLC

CONSTANTS alias, k1, k2, k3, k4

MCFold == [n \in {"alice", "Alice", "root"} |-> IF n = "Alice" THEN "alice" ELSE n]
MCValidNames == {"alice", "Alice", "root"}
MCPrivilegedNames == {"root"}
MCNormType == [t \in {"user", "HOST"} |-> IF t = "HOST" THEN "host" ELSE t]
MCSecond == 2
MCInt64Max == 15
MCCIDRs == {"10/8"}
MCSerials == {0, 1, 2}

MCKindOf == [key \in Keys |->
    CASE key = k3 -> "rsa" [] key = k4 -> "other" [] OTHER -> "p256"]

Config(keyID, enabled, failOpen, names) ==
    [rsaMinBits |-> 2048, allowedTypes |-> {"user", "HOST"}, maxTTL |-> 20,
     accountID |-> "acct", enforceBinding |-> TRUE, allowed |-> names,
     kmsKeyID |-> keyID, auditEnabled |-> enabled, auditFailOpen |-> failOpen]

\* A user, and another account's session under the same name.
MCCallers ==
    {[userArn |-> <<"arn:aws:iam::acct:user", "alice">>, accountID |-> "acct"],
     [userArn |-> <<"arn:aws:sts::other:assumed-role", "ops", "alice">>,
      accountID |-> "other"]}
OneCaller == {[userArn |-> <<"arn:aws:iam::acct:user", "alice">>, accountID |-> "acct"]}

Request(certType, principals, ttl) ==
    [key |-> [parses |-> TRUE, type |-> "ssh-ed25519"], certType |-> certType,
     principals |-> principals, ttl |-> ttl, source |-> <<"10/8">>,
     force |-> NoCommand, exts |-> NilExtensions]

Good == Request("HOST", <<"Alice">>, 3)
Denied == Request("user", <<"Alice", "root">>, 3)
TooLong == Request("user", <<"alice">>, 9)       \* the TTL wraps around to -14

\* One call: every kind of request, key, alias and audit setting.
OneCallRequests == {Good, Denied, TooLong}
OneCallConfigs ==
    {Config(k1, TRUE, FALSE, {"Alice"}), Config(alias, TRUE, FALSE, {"Alice"}),
     Config(k2, TRUE, TRUE, {"alice", "root"}), Config(k4, FALSE, FALSE, {"Alice"})}

\* Two calls: a fail-closed deployment and another, fail-open, with a new key.
TwoCallRequests == {Good, Denied}
TwoCallConfigs == {Config(k1, TRUE, FALSE, {"Alice"}), Config(k2, TRUE, TRUE, {"Alice"})}

\* Requests that may be under way at a time: two of one call, or one of each.
MaxUnderWay == 2

FewUnderWay == Cardinality(puts) + Cardinality(asks) <= MaxUnderWay

Symmetry == Permutations(Calls) \cup Permutations(Containers)
=============================================================================
