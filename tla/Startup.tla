------------------------------ MODULE Startup ------------------------------
(***************************************************************************)
(* The cold start of one execution environment: config.Load, which reads   *)
(* the file line by line, lays the GOBLESS_ variables over it, fills in    *)
(* defaults and validates; then mustSigner and mustAuditRepo.              *)
(*                                                                         *)
(* A setting is a pair of a section and a key in their normal form.  A     *)
(* line of the file is [kind, section, key, text]: "skipped" (blank or a   *)
(* comment), "header", "pair" or "malformed" (an unclosed header, or no    *)
(* "=").  A variable is [section, key, text]; names of fewer parts, like   *)
(* GOBLESS_CONFIG, set nothing and are left out.  What the strings and     *)
(* strconv packages make of the texts of values is given by functions.     *)
(***************************************************************************)
EXTENDS Policy

CONSTANTS
    Names,             \* the spellings of sections and keys, "" included
    Normalize,         \* normalize, on Names
    Texts,             \* the texts of values, "" included
    Trim,              \* strings.TrimSpace
    Lower,             \* strings.ToLower
    Atoi,              \* atoi: a number or Malformed
    Atob,              \* atob: a Boolean or Malformed
    Items,             \* the items appendList finds in a text
    PEM,               \* the texts that are base64 of a PEM block
    Malformed,         \* the error of atoi and atob
    NoFile,            \* an empty path, or one at which there is nothing
    Files,             \* the files there may be, NoFile or sequences of lines
    Environments       \* the sets of variables there may be

Lines ==
    [kind : {"skipped", "header", "pair", "malformed"},
     section : Names, key : Names, text : Texts]
Variables == [section : Names, key : Names, text : Texts]

ASSUME StartupAssumption ==
    /\ "" \in Names /\ Normalize \in [Names -> Names]
    /\ "" \in Texts /\ Trim \in [Texts -> Texts] /\ Lower \in [Texts -> Texts]
    /\ Atoi \in [Texts -> Int \cup {Malformed}]
    /\ Atob \in [Texts -> BOOLEAN \cup {Malformed}]
    /\ Items \in [Texts -> Seq(Texts)]
    /\ \A f \in Files : f # NoFile => f \in Seq(Lines)
    /\ \A env \in Environments : env \subseteq Variables

VARIABLES
    file, environ,     \* the sources: they do not change
    phase,
    line,              \* the next line of the file
    section,           \* the section that line is in, as it was spelled
    pending,           \* the variables applyEnv has not come to
    config             \* the Config under construction

vars == <<file, environ, phase, line, section, pending, config>>

PrivateKeyFile == <<"CA", "PRIVATE_KEY_FILE">>
PrivateKeyB64 == <<"CA", "PRIVATE_KEY_B64">>
KMSKeyID == <<"CA", "KMS_KEY_ID">>
DynamoDBTable == <<"CA", "DYNAMODB_TABLE">>
SignerType == <<"CA", "SIGNER_TYPE">>
DefaultTTL == <<"CA", "DEFAULT_TTL">>
MaxTTL == <<"CA", "MAX_TTL">>
RSAMinKeyBits == <<"CA", "RSA_MIN_KEY_BITS">>
Allowed == <<"PRINCIPAL", "ALLOWED">>
EnforceIAMBinding == <<"PRINCIPAL", "ENFORCE_IAM_BINDING">>
ExpectedAccountID == <<"PRINCIPAL", "EXPECTED_ACCOUNT_ID">>
AllowedCertTypes == <<"PRINCIPAL", "ALLOWED_CERT_TYPES">>
Region == <<"LAMBDA", "REGION">>
Level == <<"LOGGING", "LEVEL">>
AuditEnabled == <<"LOGGING", "AUDIT_ENABLED">>
AuditFailOpen == <<"LOGGING", "AUDIT_FAIL_OPEN">>

Numbers == {DefaultTTL, MaxTTL, RSAMinKeyBits}
Flags == {EnforceIAMBinding, AuditEnabled, AuditFailOpen}
Lists == {Allowed, AllowedCertTypes}
Lowered == {SignerType, Level}
Plain ==
    {PrivateKeyFile, PrivateKeyB64, KMSKeyID, DynamoDBTable, ExpectedAccountID,
     Region, <<"CA", "ENCRYPTED_PASSWORD">>, <<"LAMBDA", "FUNCTION_NAME">>}

Settings == Numbers \cup Flags \cup Lists \cup Lowered \cup Plain
Scalars == Settings \ Lists

ZeroConfig ==
    [s \in Settings |->
        CASE s \in Numbers -> 0
          [] s \in Flags -> FALSE
          [] s \in Lists -> <<>>
          [] OTHER -> ""]

Init ==
    /\ file \in Files
    /\ environ \in Environments
    /\ phase = "stat"
    /\ line = 1
    /\ section = ""
    /\ pending = environ
    /\ config = ZeroConfig

-----------------------------------------------------------------------------
(***************************************************************************)
(* applyValue.  A section or a key it does not know is no error.           *)
(***************************************************************************)
SettingOf(sec, key) == <<Normalize[sec], Normalize[key]>>

\* Mutant: the error of atoi and atob is not looked at.
AnyText(s, text) == TRUE

WellFormed(s, text) ==
    /\ s \in Numbers => Atoi[text] # Malformed
    /\ s \in Flags => Atob[text] # Malformed

\* What setting s becomes: lists are appended to old, others replaced.
Convert(s, text, old) ==
    CASE s \in Numbers -> Atoi[text]
      [] s \in Flags -> Atob[text]
      [] s \in Lists -> old \o Items[text]
      [] s \in Lowered -> Lower[text]
      [] OTHER -> text

\* One value, applied or refused; next is the phase when it is applied.
Apply(s, text, old, next) ==
    \/ /\ s \notin Settings
       /\ phase' = next
       /\ UNCHANGED config
    \/ /\ s \in Settings
       /\ WellFormed(s, text)
       /\ phase' = next
       /\ config' = [config EXCEPT ![s] = Convert(s, text, old)]
    \/ /\ s \in Settings
       /\ ~WellFormed(s, text)
       /\ phase' = "rejected"
       /\ UNCHANGED config

-----------------------------------------------------------------------------
\* Load looks for the file; to find none is no error.
FindFile ==
    /\ phase = "stat"
    /\ phase' = IF file = NoFile THEN "env" ELSE "file"
    /\ UNCHANGED <<file, environ, line, section, pending, config>>

\* os.Stat or os.Open fails, or the scanner stops at an error.
ReadError ==
    /\ phase \in {"stat", "file"}
    /\ file # NoFile
    /\ phase' = "unreadable"
    /\ UNCHANGED <<file, environ, line, section, pending, config>>

ReadLine ==
    /\ phase = "file"
    /\ line \in DOMAIN file
    /\ LET l == file[line]
           s == SettingOf(section, l.key)
       IN  \/ /\ l.kind = "skipped"
              /\ UNCHANGED <<phase, section, config>>
           \/ /\ l.kind = "header"
              /\ section' = l.section
              /\ UNCHANGED <<phase, config>>
           \/ /\ l.kind = "pair"
              /\ Apply(s, Trim[l.text], IF s \in Lists THEN config[s] ELSE <<>>, "file")
              /\ UNCHANGED section
           \/ /\ l.kind = "malformed"
              /\ phase' = "rejected"
              /\ UNCHANGED <<section, config>>
    /\ line' = line + 1
    /\ UNCHANGED <<file, environ, pending>>

EndOfFile ==
    /\ phase = "file"
    /\ line = Len(file) + 1
    /\ phase' = "env"
    /\ UNCHANGED <<file, environ, line, section, pending, config>>

\* Mutant: appendAllowed is true for the environment too.
ReadVariableAppending(v) ==
    LET s == SettingOf(v.section, v.key)
    IN  /\ phase = "env"
        /\ v \in pending
        /\ Apply(s, v.text, IF s \in Lists THEN config[s] ELSE <<>>, "env")
        /\ pending' = pending \ {v}
        /\ UNCHANGED <<file, environ, line, section>>

\* applyEnv: os.Environ gives the variables in an order of its own.
ReadVariable(v) ==
    /\ phase = "env"
    /\ v \in pending
    /\ Apply(SettingOf(v.section, v.key), v.text, <<>>, "env")
    /\ pending' = pending \ {v}
    /\ UNCHANGED <<file, environ, line, section>>

\* Mutant: a minimum below 2048 is raised to it.
DefaultedBelow(c) ==
    [c EXCEPT ![RSAMinKeyBits] = IF @ < 2048 THEN 2048 ELSE @]

Defaulted(c) ==
    [c EXCEPT ![RSAMinKeyBits] = IF @ = 0 THEN 2048 ELSE @]

NamesKey(c) == \E s \in {PrivateKeyFile, PrivateKeyB64, KMSKeyID} : c[s] # ""

InlineKeyDecodes(c) == c[PrivateKeyB64] \in {""} \cup PEM

DefaultWithinMax(c) == c[DefaultTTL] > 0 /\ c[DefaultTTL] <= c[MaxTTL]

\* Mutant: without an upper bound every TTL is within it.
ValidUnbounded(c) ==
    /\ NamesKey(c)
    /\ c[SignerType] \in {"rsa", "kms"}
    /\ c[RSAMinKeyBits] >= 2048
    /\ InlineKeyDecodes(c)
    /\ c[MaxTTL] > 0 => DefaultWithinMax(c)
    /\ c[Level] \in {"", "debug", "info", "warn", "error"}

\* validate finds no error.
Valid(c) ==
    /\ NamesKey(c)
    /\ c[SignerType] \in {"rsa", "kms"}
    /\ c[RSAMinKeyBits] >= 2048
    /\ InlineKeyDecodes(c)
    /\ c[MaxTTL] > 0
    /\ DefaultWithinMax(c)
    /\ c[Level] \in {"", "debug", "info", "warn", "error"}

\* Mutant: the configuration is validated before it is complete.
ValidateFirst ==
    /\ phase = "env"
    /\ pending = {}
    /\ config' = Defaulted(config)
    /\ phase' = IF Valid(config) THEN "loaded" ELSE "rejected"
    /\ UNCHANGED <<file, environ, line, section, pending>>

Validate ==
    /\ phase = "env"
    /\ pending = {}
    /\ config' = Defaulted(config)
    /\ phase' = IF Valid(config') THEN "loaded" ELSE "rejected"
    /\ UNCHANGED <<file, environ, line, section, pending>>

(***************************************************************************)
(* mustSigner and mustAuditRepo, which exit when the handler would lack    *)
(* something; awsRegion is AWS_REGION, the fallback for the region.        *)
(***************************************************************************)
Ready(c, awsRegion) ==
    /\ c[KMSKeyID] # ""
    /\ c[Region] # "" \/ awsRegion # ""
    /\ c[AuditEnabled] => c[DynamoDBTable] # ""

Start(awsRegion) ==
    /\ phase = "loaded"
    /\ phase' = IF Ready(config, awsRegion) THEN "serving" ELSE "exited"
    /\ UNCHANGED <<file, environ, line, section, pending, config>>

\* LoadDefaultConfig of the AWS SDK fails.
AWSConfigFails ==
    /\ phase = "loaded"
    /\ phase' = "exited"
    /\ UNCHANGED <<file, environ, line, section, pending, config>>

Next ==
    \/ FindFile \/ ReadError \/ ReadLine \/ EndOfFile
    \/ \E v \in pending : ReadVariable(v)
    \/ Validate
    \/ \E awsRegion \in {"", "us-east-1"} : Start(awsRegion)
    \/ AWSConfigFails

Spec == Init /\ [][Next]_vars

-----------------------------------------------------------------------------
(***************************************************************************)
(* The effective configuration, read off the sources as a whole.           *)
(***************************************************************************)
\* The section line i is in: that of the last header above it.
SectionAt(i) ==
    LET headers == {j \in 1 .. (i - 1) : file[j].kind = "header"}
    IN  IF headers = {} THEN "" ELSE file[Max(headers)].section

\* The lines that set s, and the variables that do.
LinesFor(s) ==
    IF file = NoFile THEN {}
    ELSE {i \in DOMAIN file :
            file[i].kind = "pair" /\ SettingOf(SectionAt(i), file[i].key) = s}

VariablesFor(s) == {v \in environ : SettingOf(v.section, v.key) = s}

\* What the file alone makes of a scalar: the last line for it counts.
FromFile(s) ==
    IF LinesFor(s) = {} THEN ZeroConfig[s]
    ELSE Convert(s, Trim[file[Max(LinesFor(s))].text], <<>>)

\* The values a scalar may end with: several only if two variables differ in
\* nothing but the spelling of their names.
Effective(s) ==
    LET values == IF VariablesFor(s) = {} THEN {FromFile(s)}
                  ELSE {Convert(s, v.text, <<>>) : v \in VariablesFor(s)}
    IN  IF s = RSAMinKeyBits THEN {IF n = 0 THEN 2048 ELSE n : n \in values}
        ELSE values

ItemsAt(i) == Items[Trim[file[i].text]]

\* A list is made of the items of lines, those of one line after those of
\* the other, and of nothing else: start says behind what each line's begin.
MadeOf(list, lines) ==
    \E start \in [lines -> 0 .. Len(list)] :
        /\ \A i \in lines :
              /\ start[i] + Len(ItemsAt(i)) <= Len(list)
              /\ \A n \in DOMAIN ItemsAt(i) : list[start[i] + n] = ItemsAt(i)[n]
        /\ \A i, j \in lines : i < j => start[i] + Len(ItemsAt(i)) <= start[j]
        /\ \A n \in DOMAIN list : \E i \in lines :
              start[i] < n /\ n <= start[i] + Len(ItemsAt(i))

\* No value that is meant for a setting is malformed, overridden or not.
AllWellFormed ==
    /\ \A v \in environ :
          SettingOf(v.section, v.key) \in Settings =>
              WellFormed(SettingOf(v.section, v.key), v.text)
    /\ \A s \in Settings : \A i \in LinesFor(s) : WellFormed(s, Trim[file[i].text])
    /\ file # NoFile => \A i \in DOMAIN file : file[i].kind # "malformed"

Unambiguous ==
    \A v, w \in environ :
        SettingOf(v.section, v.key) = SettingOf(w.section, w.key) => v = w

-----------------------------------------------------------------------------
\* The fields Evaluate and Handle read, as Policy has them.
HandlerConfig(c) ==
    [rsaMinBits |-> c[RSAMinKeyBits], allowedTypes |-> ToSet(c[AllowedCertTypes]),
     maxTTL |-> c[MaxTTL], accountID |-> c[ExpectedAccountID],
     enforceBinding |-> c[EnforceIAMBinding], allowed |-> ToSet(c[Allowed])]

Typed(c) ==
    /\ DOMAIN c = Settings
    /\ \A s \in Numbers : c[s] \in Int
    /\ \A s \in Flags : c[s] \in BOOLEAN
    /\ \A s \in Lists : c[s] \in Seq(Texts)
    /\ \A s \in Lowered \cup Plain : c[s] \in Texts

\* The variables keep their types; no half-read value gets into the Config.
TypeOK ==
    /\ file \in Files
    /\ environ \in Environments
    /\ phase \in {"stat", "file", "env", "loaded", "serving",
                  "unreadable", "rejected", "exited"}
    /\ line \in Nat \ {0}
    /\ section \in Names
    /\ pending \subseteq environ
    /\ Typed(config)

(***************************************************************************)
(* Whatever the order of the variables and of the sections in the file, a  *)
(* setting of a loaded configuration has the value of its variable, else   *)
(* that of its last line in the file, else the default.                    *)
(***************************************************************************)
LoadedIsEffective ==
    phase \in {"loaded", "serving", "exited"} =>
        \A s \in Scalars : config[s] \in Effective(s)

(***************************************************************************)
(* A list is that of its variable, even of an empty one, else all lines    *)
(* for it in the file together, in their order (config.go, applyValue).    *)
(***************************************************************************)
ListsAddUp ==
    phase \in {"loaded", "serving", "exited"} =>
        \A s \in Lists :
            \/ VariablesFor(s) = {} /\ MadeOf(config[s], LinesFor(s))
            \/ \E v \in VariablesFor(s) : config[s] = Items[v.text]

(***************************************************************************)
(* Load refuses for a reason and with every reason: it loads just when all *)
(* values are well-formed, those that are overridden too, and the          *)
(* effective configuration is valid.                                       *)
(***************************************************************************)
LoadsJustWhatIsValid ==
    LET effective == [s \in Scalars |-> CHOOSE value \in Effective(s) : TRUE]
    IN  Unambiguous =>
          /\ phase \in {"loaded", "serving", "exited"} => AllWellFormed /\ Valid(effective)
          /\ phase = "rejected" => ~(AllWellFormed /\ Valid(effective))

(***************************************************************************)
(* What Handle takes for granted of its configuration, start-up has seen   *)
(* to: bounds on keys and lifetimes, a key to sign with, a table to write. *)
(***************************************************************************)
ServesWithinBounds ==
    phase = "serving" =>
        /\ ValidConfig(HandlerConfig(config))
        /\ config[KMSKeyID] # ""
        /\ config[AuditEnabled] => config[DynamoDBTable] # ""

\* config.go:27: the key type "determines which signer is used".  The
\* production binary serves with the KMS signer whatever it says.
SignerTypeDecides ==
    phase = "serving" => config[SignerType] = "kms"
=============================================================================
