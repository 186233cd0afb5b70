----------------------------- MODULE MCStartup -----------------------------
(***************************************************************************)
(* Small sources for Startup: two files that load, alone and with one or   *)
(* two more lines, and no file; with up to two variables, or with a set of *)
(* variables that load without a file.                                     *)
(***************************************************************************)
EXTENDS Startup

MCNames == {"", "CA", "ca", "Principal", "PRINCIPAL", "Logging", "LOGGING", "Unknown", "UNKNOWN",
            "DYNAMODB_TABLE", "PRIVATE_KEY_B64",
            "kms_key_id", "KMS_KEY_ID", "signer_type", "SIGNER_TYPE", "default_ttl",
            "DEFAULT_TTL", "max_ttl", "MAX_TTL", "dynamodb_table", "private_key_b64",
            "rsa min-key-bits", "RSA_MIN_KEY_BITS", "allowed", "ALLOWED",
            "audit_enabled", "AUDIT_ENABLED", "LAMBDA", "REGION"}

MCNormalize ==
    [n \in MCNames |->
        CASE n = "ca" -> "CA"
          [] n = "Principal" -> "PRINCIPAL"
          [] n = "Logging" -> "LOGGING"
          [] n = "Unknown" -> "UNKNOWN"
          [] n = "kms_key_id" -> "KMS_KEY_ID"
          [] n = "signer_type" -> "SIGNER_TYPE"
          [] n = "default_ttl" -> "DEFAULT_TTL"
          [] n = "max_ttl" -> "MAX_TTL"
          [] n = "dynamodb_table" -> "DYNAMODB_TABLE"
          [] n = "private_key_b64" -> "PRIVATE_KEY_B64"
          [] n = "rsa min-key-bits" -> "RSA_MIN_KEY_BITS"
          [] n = "allowed" -> "ALLOWED"
          [] n = "audit_enabled" -> "AUDIT_ENABLED"
          [] OTHER -> n]

MCTexts == {"", "alias", " KMS", "KMS", "rsa", "0", "2", "9", "11", " 4096", "4096", "1024",
            "true", "alice", "bob, alice", ",", " kms", "kms", "bob"}

MCTrim == [t \in MCTexts |-> IF t = " KMS" THEN "KMS" ELSE IF t = " 4096" THEN "4096" ELSE t]
MCLower == [t \in MCTexts |-> CASE t = " KMS" -> " kms" [] t = "KMS" -> "kms" [] OTHER -> t]

MCAtoi ==
    [t \in MCTexts |->
        CASE t = "0" -> 0 [] t = "2" -> 2 [] t = "9" -> 9 [] t = "11" -> 11
          [] t = "1024" -> 1024 [] t \in {" 4096", "4096"} -> 4096
          [] OTHER -> Malformed]

MCAtob ==
    [t \in MCTexts |-> CASE t = "true" -> TRUE [] t = "0" -> FALSE [] OTHER -> Malformed]

MCItems ==
    [t \in MCTexts |->
        CASE t = "bob, alice" -> <<"bob", "alice">>
          [] t \in {"", ","} -> <<>>
          [] OTHER -> <<t>>]

MCPEM == {"alias"}

Line(kind, sec, key, text) == [kind |-> kind, section |-> sec, key |-> key, text |-> text]
Header(sec) == Line("header", sec, "", "")
Pair(key, text) == Line("pair", "", key, text)

Base ==
    <<Pair("max_ttl", "0"), Header("ca"), Pair("kms_key_id", "alias"),
      Pair("signer_type", " KMS"), Pair("default_ttl", "2"), Pair("max_ttl", "9")>>

BaseTable == Append(Base, Pair("dynamodb_table", "alice"))

BasePrincipal ==
    Base \o <<Pair("rsa min-key-bits", " 4096"), Line("skipped", "", "", ""),
              Header("Principal"), Pair("allowed", "alice")>>

\* More lines, in the section the base ends with or in one of their own.
MoreLines ==
    {Header("CA"), Header("Principal"), Header("Unknown"),
     Pair("default_ttl", "11"), Pair("default_ttl", "alice"), Pair("max_ttl", "0"),
     Pair("rsa min-key-bits", "1024"), Pair("signer_type", "rsa"), Pair("private_key_b64", "rsa"), Pair("allowed", "bob, alice"),
     Line("malformed", "", "", "")}

MCFiles ==
    {NoFile} \cup {BaseTable \o more : more \in BoundedSeq(MoreLines, 1)}
    \cup {BasePrincipal \o more : more \in BoundedSeq(MoreLines, 2)}

Var(sec, key, text) == [section |-> sec, key |-> key, text |-> text]

SomeVariables ==
    {Var("CA", "DEFAULT_TTL", "9"), Var("ca", "default_ttl", "11"), Var("CA", "MAX_TTL", "11"),
     Var("CA", "RSA_MIN_KEY_BITS", "0"), Var("PRINCIPAL", "ALLOWED", ","),
     Var("PRINCIPAL", "ALLOWED", "bob, alice"), Var("LOGGING", "AUDIT_ENABLED", "true"),
     Var("LOGGING", "AUDIT_ENABLED", ""), Var("CA", "SIGNER_TYPE", " KMS")}

Complete ==
    {Var("CA", "KMS_KEY_ID", "alias"), Var("CA", "SIGNER_TYPE", "KMS"),
     Var("CA", "DEFAULT_TTL", "9"), Var("CA", "MAX_TTL", "9")}

\* No two variables of a process have the same name.
MCEnvironments ==
    {{}, Complete} \cup
    {{v, w} : <<v, w>> \in {p \in SomeVariables \X SomeVariables :
                              p[1] = p[2] \/ p[1].section # p[2].section \/ p[1].key # p[2].key}}
=============================================================================
