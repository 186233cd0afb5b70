--------------------------- MODULE StartupProofs ---------------------------
(***************************************************************************)
(* What start-up guarantees a handler, for any sources.                    *)
(***************************************************************************)
EXTENDS Startup, SequenceTheorems, TLAPS

\* What each phase after Load has established.
Checked ==
    /\ phase \in {"loaded", "serving", "exited"} => Valid(config)
    /\ phase = "serving" =>
          config[KMSKeyID] # "" /\ (config[AuditEnabled] => config[DynamoDBTable] # "")

\* The bounds among the checks of validate: a conjunction has its conjuncts,
\* which PTL sees without a type for the values of a configuration.
LEMMA ValidBounds ==
    ASSUME NEW c, Valid(c)
    PROVE  c[RSAMinKeyBits] >= 2048 /\ c[MaxTTL] > 0
  BY PTL DEF Valid

\* Values are only applied before Load is through.
LEMMA ApplyKeepsLoading ==
    ASSUME NEW s, NEW text, NEW old, NEW next \in {"file", "env"}, Apply(s, text, old, next)
    PROVE  phase' \notin {"loaded", "serving", "exited"}
  BY DEF Apply

\* A value is applied or refused.
LEMMA ApplyPhase ==
    ASSUME NEW s, NEW text, NEW old, NEW next, Apply(s, text, old, next)
    PROVE  phase' \in {next, "rejected"}
  BY DEF Apply

\* No step of start-up gets to a later phase past a check of the code.
LEMMA CheckedInductive ==
    ASSUME Checked, [Next]_vars
    PROVE  Checked'
  <1>1. CASE FindFile
    BY <1>1 DEF FindFile, Checked
  <1>2. CASE ReadError
    BY <1>2 DEF ReadError, Checked
  <1>3. CASE ReadLine
    <2>1. phase' \notin {"loaded", "serving", "exited"}
      BY <1>3, ApplyKeepsLoading DEF ReadLine
    <2>2. QED
      BY <2>1 DEF Checked
  <1>4. CASE EndOfFile
    BY <1>4 DEF EndOfFile, Checked
  <1>5. ASSUME NEW v \in pending, ReadVariable(v)
        PROVE  Checked'
    <2>1. phase' \notin {"loaded", "serving", "exited"}
      BY <1>5, ApplyKeepsLoading DEF ReadVariable
    <2>2. QED
      BY <2>1 DEF Checked
  <1>6. CASE Validate
    <2>1. phase' \in {"loaded", "rejected"} /\ (phase' = "loaded" => Valid(config'))
      BY <1>6 DEF Validate
    <2>2. QED
      BY <2>1 DEF Checked
  <1>7. ASSUME NEW awsRegion \in {"", "us-east-1"}, Start(awsRegion)
        PROVE  Checked'
    <2>1. Valid(config) /\ config' = config
      BY <1>7 DEF Start, Checked
    <2>2. phase' \in {"serving", "exited"} /\ (phase' = "serving" => Ready(config, awsRegion))
      BY <1>7 DEF Start
    <2>3. QED
      BY <2>1, <2>2 DEF Checked, Ready
  <1>8. CASE AWSConfigFails
    BY <1>8 DEF AWSConfigFails, Checked
  <1>9. CASE UNCHANGED vars
    BY <1>9 DEF vars, Checked
  <1>10. QED
    BY <1>1, <1>2, <1>3, <1>4, <1>5, <1>6, <1>7, <1>8, <1>9 DEF Next

(***************************************************************************)
(* Whatever the file, the variables and their order, an environment that   *)
(* serves calls has a configuration as Handler assumes it, a key to sign   *)
(* with and, if it audits, a table to write to (config.go, validate;       *)
(* lambda_prod.go, mustSigner and mustAuditRepo).                          *)
(***************************************************************************)
THEOREM ServingIsChecked == Spec => []ServesWithinBounds
  <1>1. Init => Checked
    BY DEF Init, Checked
  <1>2. Checked /\ [Next]_vars => Checked'
    BY CheckedInductive
  <1>3. Checked => ServesWithinBounds
    <2>1. ASSUME Valid(config)
          PROVE  ValidConfig(HandlerConfig(config))
      <3>1. config[RSAMinKeyBits] >= 2048 /\ config[MaxTTL] > 0
        BY <2>1, ValidBounds
      <3>2. /\ HandlerConfig(config).rsaMinBits = config[RSAMinKeyBits]
            /\ HandlerConfig(config).maxTTL = config[MaxTTL]
        BY DEF HandlerConfig
      <3>3. QED
        BY <3>1, <3>2 DEF ValidConfig
    <2>2. QED
      BY <2>1 DEF Checked, ServesWithinBounds
  <1>4. QED
    BY <1>1, <1>2, <1>3, PTL DEF Spec

-----------------------------------------------------------------------------
(* Types.                                                                  *)

\* The kinds of settings do not overlap.
LEMMA KindsApart ==
    /\ Numbers \cap Flags = {} /\ Numbers \cap Lists = {} /\ Numbers \cap Lowered = {}
    /\ Flags \cap Lists = {} /\ Flags \cap Lowered = {} /\ Lists \cap Lowered = {}
    /\ Plain \cap (Numbers \cup Flags \cup Lists \cup Lowered) = {}
  BY DEF Numbers, Flags, Lists, Lowered, Plain, PrivateKeyFile, PrivateKeyB64, KMSKeyID,
         DynamoDBTable, SignerType, DefaultTTL, MaxTTL, RSAMinKeyBits, Allowed,
         EnforceIAMBinding, ExpectedAccountID, AllowedCertTypes, Region, Level,
         AuditEnabled, AuditFailOpen

\* What a well-formed text becomes has the type of its setting.
LEMMA ConvertTyped ==
    ASSUME NEW s \in Settings, NEW text \in Texts, NEW old,
           s \in Lists => old \in Seq(Texts), WellFormed(s, text)
    PROVE  /\ s \in Numbers => Convert(s, text, old) \in Int
           /\ s \in Flags => Convert(s, text, old) \in BOOLEAN
           /\ s \in Lists => Convert(s, text, old) \in Seq(Texts)
           /\ s \in Lowered \cup Plain => Convert(s, text, old) \in Texts
  <1>1. /\ Lower[text] \in Texts /\ Items[text] \in Seq(Texts)
        /\ Atoi[text] = Malformed \/ Atoi[text] \in Int
    BY StartupAssumption
  <1>2. Atob[text] = Malformed \/ Atob[text] \in BOOLEAN
    <2>1. Atob \in [Texts -> BOOLEAN \cup {Malformed}]
      BY StartupAssumption
    <2>2. Atob[text] \in BOOLEAN \cup {Malformed}
      BY <2>1, Zenon
    <2>3. QED
      BY <2>2, Zenon
  <1>3. CASE s \in Numbers
    BY <1>1, <1>3, KindsApart DEF Convert, WellFormed
  <1>4. CASE s \in Flags
    <2>1. Convert(s, text, old) = Atob[text]
      BY <1>4, KindsApart DEF Convert
    <2>2. Convert(s, text, old) \in BOOLEAN
      BY <1>2, <1>4, <2>1, Zenon DEF WellFormed
    <2>3. QED
      BY <1>4, <2>2, KindsApart
  <1>5. CASE s \in Lists
    <2>1. Convert(s, text, old) = old \o Items[text]
      BY <1>5, KindsApart DEF Convert
    <2>2. Convert(s, text, old) \in Seq(Texts)
      BY <1>1, <1>5, <2>1, ConcatProperties
    <2>3. QED
      BY <1>5, <2>2, KindsApart
  <1>6. CASE s \in Lowered
    BY <1>1, <1>6, KindsApart DEF Convert
  <1>7. CASE s \in Plain
    BY <1>1, <1>7, KindsApart DEF Convert
  <1>8. QED
    BY <1>3, <1>4, <1>5, <1>6, <1>7 DEF Settings

\* A configuration keeps its types when one setting gets a value of its own.
LEMMA UpdateTyped ==
    ASSUME NEW c, Typed(c), NEW s \in Settings, NEW value,
           s \in Numbers => value \in Int, s \in Flags => value \in BOOLEAN,
           s \in Lists => value \in Seq(Texts), s \in Lowered \cup Plain => value \in Texts
    PROVE  Typed([c EXCEPT ![s] = value])
  <1> DEFINE d == [c EXCEPT ![s] = value]
  <1>1. /\ DOMAIN d = Settings
        /\ \A t \in Settings : d[t] = IF t = s THEN value ELSE c[t]
    BY DEF Typed
  <1>2. Numbers \subseteq Settings /\ Flags \subseteq Settings /\ Lists \subseteq Settings
        /\ Lowered \subseteq Settings /\ Plain \subseteq Settings
    BY DEF Settings
  <1> HIDE DEF d
  <1>3. \A t \in Numbers : d[t] \in Int
    BY <1>1, <1>2 DEF Typed
  <1>4. \A t \in Flags : d[t] \in BOOLEAN
    BY <1>1, <1>2, Zenon DEF Typed
  <1>5. \A t \in Lists : d[t] \in Seq(Texts)
    BY <1>1, <1>2 DEF Typed
  <1>6. \A t \in Lowered \cup Plain : d[t] \in Texts
    BY <1>1, <1>2 DEF Typed
  <1>7. Typed(d)
    BY <1>1, <1>3, <1>4, <1>5, <1>6 DEF Typed
  <1>8. QED
    BY <1>7 DEF d

\* Applying a value keeps the types.
LEMMA ApplyTyped ==
    ASSUME NEW s, NEW text \in Texts, NEW old, NEW next, Typed(config),
           s \in Lists => old \in Seq(Texts), Apply(s, text, old, next)
    PROVE  Typed(config') /\ phase' \in {next, "rejected"}
  <1>1. CASE config' = config
    BY <1>1 DEF Apply
  <1>2. CASE s \in Settings /\ WellFormed(s, text)
              /\ config' = [config EXCEPT ![s] = Convert(s, text, old)]
    <2>1. Typed([config EXCEPT ![s] = Convert(s, text, old)])
      BY <1>2, ConvertTyped, UpdateTyped
    <2>2. QED
      BY <1>2, <2>1 DEF Apply
  <1>3. QED
    BY <1>1, <1>2 DEF Apply

\* The types hold at the start.
LEMMA InitTypes == Init => TypeOK
  <1> SUFFICES ASSUME Init PROVE TypeOK
    OBVIOUS
  <1>1. DOMAIN ZeroConfig = Settings
    BY DEF ZeroConfig
  <1>2. ASSUME NEW s \in Numbers PROVE ZeroConfig[s] = 0
    BY KindsApart DEF ZeroConfig, Settings
  <1>3. ASSUME NEW s \in Flags PROVE ZeroConfig[s] = FALSE
    BY KindsApart DEF ZeroConfig, Settings
  <1>4. ASSUME NEW s \in Lists PROVE ZeroConfig[s] = <<>>
    BY KindsApart DEF ZeroConfig, Settings
  <1>5. ASSUME NEW s \in Lowered \cup Plain PROVE ZeroConfig[s] = ""
    BY KindsApart DEF ZeroConfig, Settings
  <1>6. Typed(ZeroConfig)
    <2>1. \A s \in Flags : ZeroConfig[s] \in BOOLEAN
      BY <1>3, Zenon
    <2>2. \A s \in Lists : ZeroConfig[s] \in Seq(Texts)
      BY <1>4, EmptySeq
    <2>3. \A s \in Numbers : ZeroConfig[s] \in Int
      <3>1. 0 \in Int
        OBVIOUS
      <3>2. QED
        BY <1>2, <3>1, Zenon
    <2>4. \A s \in Lowered \cup Plain : ZeroConfig[s] \in Texts
      BY <1>5, StartupAssumption
    <2>5. QED
      BY <1>1, <2>1, <2>2, <2>3, <2>4, Zenon DEF Typed
  <1>7. Typed(config)
    BY <1>6 DEF Init
  <1>8. line = 1 /\ phase = "stat"
    BY Zenon DEF Init
  <1>9. /\ line \in Nat \ {0}
        /\ phase \in {"stat", "file", "env", "loaded", "serving",
                     "unreadable", "rejected", "exited"}
    BY <1>8
  <1>10. section \in Names /\ pending \subseteq environ
    BY StartupAssumption, Zenon DEF Init
  <1>11. QED
    BY <1>7, <1>9, <1>10, Zenon DEF Init, TypeOK

\* No step loses them.
LEMMA TypesInductive ==
    ASSUME TypeOK, phase = "file" => file # NoFile, [Next]_vars
    PROVE  TypeOK' /\ (phase' = "file" => file' # NoFile)
  <1>1. Typed(config)
    BY DEF TypeOK
  <1>2. CASE FindFile
    BY <1>2 DEF FindFile, TypeOK
  <1>3. CASE ReadError
    BY <1>3 DEF ReadError, TypeOK
  <1>4. CASE ReadLine
    <2> DEFINE l == file[line]
               s == SettingOf(section, l.key)
               old == IF s \in Lists THEN config[s] ELSE <<>>
    <2>1. l \in Lines /\ file \in Files \ {NoFile}
      <3>1. file \in Files \ {NoFile} /\ file \in Seq(Lines)
        BY <1>4, StartupAssumption DEF ReadLine, TypeOK
      <3>2. QED
        BY <1>4, <3>1 DEF ReadLine
    <2>2. Typed(config') /\ phase' \in {"file", "rejected"}
      <3>1. CASE config' = config /\ phase' \in {"file", "rejected"}
        BY <1>1, <3>1
      <3>2. CASE Apply(s, Trim[l.text], old, "file")
        <4>1. Trim[l.text] \in Texts
          BY <2>1, StartupAssumption DEF Lines
        <4>2. s \in Lists => old \in Seq(Texts)
          BY <1>1, EmptySeq DEF Typed
        <4> HIDE DEF s, old, l
        <4>3. QED
          BY <1>1, <3>2, <4>1, <4>2, ApplyTyped
      <3>3. QED
        BY <1>4, <3>1, <3>2 DEF ReadLine
    <2>3. section' \in Names
      BY <1>4, <2>1 DEF ReadLine, TypeOK, Lines
    <2>4. line' \in Nat \ {0}
      BY <1>4 DEF ReadLine, TypeOK
    <2>5. QED
      BY <1>4, <2>2, <2>3, <2>4 DEF ReadLine, TypeOK
  <1>5. CASE EndOfFile
    BY <1>5 DEF EndOfFile, TypeOK
  <1>6. ASSUME NEW v \in pending, ReadVariable(v)
        PROVE  TypeOK' /\ (phase' = "file" => file' # NoFile)
    <2>1. v \in Variables
      BY StartupAssumption DEF TypeOK
    <2>2. v.text \in Texts
      BY <2>1 DEF Variables
    <2>3. Typed(config') /\ phase' \in {"env", "rejected"}
      BY <1>1, <1>6, <2>2, ApplyTyped, EmptySeq DEF ReadVariable
    <2>4. QED
      BY <1>6, <2>3 DEF ReadVariable, TypeOK
  <1>7. CASE Validate
    <2>1. RSAMinKeyBits \in Numbers /\ RSAMinKeyBits \in Settings
      BY DEF Numbers, Settings
    <2>2. config' = [config EXCEPT ![RSAMinKeyBits] =
                         IF config[RSAMinKeyBits] = 0 THEN 2048 ELSE config[RSAMinKeyBits]]
      BY <1>7 DEF Validate, Defaulted
    <2>3. Typed(config')
      BY <1>1, <2>1, <2>2, UpdateTyped, KindsApart DEF Typed
    <2>4. QED
      BY <1>7, <2>3 DEF Validate, TypeOK
  <1>8. ASSUME NEW awsRegion \in {"", "us-east-1"}, Start(awsRegion)
        PROVE  TypeOK' /\ (phase' = "file" => file' # NoFile)
    BY <1>8 DEF Start, TypeOK
  <1>9. CASE AWSConfigFails
    BY <1>9 DEF AWSConfigFails, TypeOK
  <1>10. CASE UNCHANGED vars
    BY <1>10 DEF vars, TypeOK
  <1>11. QED
    BY <1>2, <1>3, <1>4, <1>5, <1>6, <1>7, <1>8, <1>9, <1>10 DEF Next

(***************************************************************************)
(* No text of the file or the environment gets into the configuration but  *)
(* as a value of the type of its setting (config.go, applyValue).          *)
(***************************************************************************)
THEOREM TypeInvariant == Spec => []TypeOK
  <1> DEFINE Inv == TypeOK /\ (phase = "file" => file # NoFile)
  <1>1. Init => Inv
    BY InitTypes DEF Init
  <1>2. Inv /\ [Next]_vars => Inv'
    BY TypesInductive
  <1>3. QED
    BY <1>1, <1>2, PTL DEF Spec
-----------------------------------------------------------------------------
(* The effective configuration.                                            *)

\* The lines for a setting that are read, and what they make of it.
LinesRead(s) == {i \in LinesFor(s) : i < line}

ReadSoFar(s) ==
    IF LinesRead(s) = {} THEN ZeroConfig[s]
    ELSE Convert(s, Trim[file[Max(LinesRead(s))].text], <<>>)

\* The variables for a setting that are applied.
Applied(s) == {v \in VariablesFor(s) : v \notin pending}

\* A setting has the value of a variable applied, else that of the lines read.
Current(s) ==
    IF Applied(s) = {} THEN config[s] = ReadSoFar(s)
    ELSE \E v \in Applied(s) : config[s] = Convert(s, v.text, <<>>)

GoodLine(i) ==
    /\ file[i].kind # "malformed"
    /\ \A s \in Settings : i \in LinesFor(s) => WellFormed(s, Trim[file[i].text])

GoodVariable(v) ==
    LET s == SettingOf(v.section, v.key) IN s \in Settings => WellFormed(s, v.text)

IsEffective == \A s \in Scalars : config[s] \in Effective(s)

(***************************************************************************)
(* The inductive invariant: what is read so far has had its effect, and    *)
(* nothing else; what was refused was refused for a reason.                *)
(***************************************************************************)
Progress ==
    /\ \A s \in Scalars : Current(s)
    /\ file # NoFile => line <= Len(file) + 1 /\ \A i \in 1 .. line - 1 : GoodLine(i)
    /\ \A v \in environ \ pending : GoodVariable(v)

Loading ==
    /\ phase \in {"stat", "file", "env"} => Progress
    /\ phase \in {"stat", "file"} => pending = environ
    /\ phase = "stat" => line = 1 /\ section = ""
    /\ phase = "file" => file # NoFile /\ section = SectionAt(line)
    /\ phase = "env" => file = NoFile \/ line = Len(file) + 1
    /\ phase \in {"loaded", "serving", "exited"} => AllWellFormed /\ IsEffective
    /\ phase = "rejected" => ~AllWellFormed \/ (~Valid(config) /\ IsEffective)

\* A file is a sequence of lines, and the lines for a setting are among them.
LEMMA FileLines ==
    ASSUME TypeOK, file # NoFile
    PROVE  /\ file \in Seq(Lines) /\ Len(file) \in Nat /\ DOMAIN file = 1 .. Len(file)
           /\ \A s : LinesFor(s) \subseteq 1 .. Len(file)
  <1>1. file \in Seq(Lines)
    BY StartupAssumption DEF TypeOK
  <1>2. Len(file) \in Nat /\ DOMAIN file = 1 .. Len(file)
    BY <1>1
  <1>3. QED
    BY <1>1, <1>2 DEF LinesFor

\* Nothing is read of no file, or at its first line.
LEMMA NothingRead ==
    ASSUME TypeOK, NEW s, file = NoFile \/ line = 1
    PROVE  LinesRead(s) = {}
  <1>1. CASE file = NoFile
    BY <1>1 DEF LinesRead, LinesFor
  <1>2. CASE file # NoFile /\ line = 1
    BY <1>2, FileLines DEF LinesRead
  <1>3. QED
    BY <1>1, <1>2

\* At the end of the file all its lines are read.
LEMMA EverythingRead ==
    ASSUME TypeOK, NEW s, file = NoFile \/ line = Len(file) + 1
    PROVE  LinesRead(s) = LinesFor(s)
  <1>1. CASE file = NoFile
    BY <1>1 DEF LinesRead, LinesFor
  <1>2. CASE file # NoFile
    BY <1>2, FileLines DEF LinesRead
  <1>3. QED
    BY <1>1, <1>2

\* The start of a load.
LEMMA InitLoading == Init /\ TypeOK => Loading
  <1> SUFFICES ASSUME Init, TypeOK PROVE Loading
    OBVIOUS
  <1>1. phase = "stat" /\ section = "" /\ pending = environ /\ config = ZeroConfig
    BY Zenon DEF Init
  <1>2. line = 1
    BY Zenon DEF Init
  <1>3. ASSUME NEW s \in Scalars PROVE Current(s)
    <2>1. Applied(s) = {}
      BY <1>1 DEF Applied, VariablesFor
    <2>2. ReadSoFar(s) = ZeroConfig[s]
      BY <1>2, NothingRead DEF ReadSoFar
    <2>3. QED
      BY <1>1, <2>1, <2>2 DEF Current
  <1>4. file # NoFile => line <= Len(file) + 1 /\ \A i \in 1 .. line - 1 : GoodLine(i)
    <2>1. file # NoFile => Len(file) \in Nat
      BY FileLines
    <2>2. file # NoFile => line <= Len(file) + 1
      BY <1>2, <2>1
    <2>3. 1 .. line - 1 = {}
      BY <1>2
    <2>4. QED
      BY <2>2, <2>3, Zenon
  <1>5. \A v \in environ \ pending : GoodVariable(v)
    BY <1>1
  <1>6. Progress
    BY <1>3, <1>4, <1>5 DEF Progress
  <1>7. QED
    BY <1>1, <1>2, <1>6 DEF Loading

\* The sources do not change, nor what is defined from them.
LEMMA SourcesFixed ==
    ASSUME UNCHANGED <<file, environ>>
    PROVE  /\ \A s : LinesFor(s)' = LinesFor(s) /\ VariablesFor(s)' = VariablesFor(s)
           /\ \A s \in Scalars : Effective(s)' = Effective(s)
           /\ \A i : SectionAt(i)' = SectionAt(i)
           /\ \A i : GoodLine(i)' = GoodLine(i)
           /\ AllWellFormed' = AllWellFormed
  <1>1. \A i : SectionAt(i)' = SectionAt(i)
    BY DEF SectionAt
  <1>2. \A s : LinesFor(s)' = LinesFor(s)
    BY DEF LinesFor, SectionAt
  <1>3. \A s : VariablesFor(s)' = VariablesFor(s)
    BY DEF VariablesFor
  <1>4. ASSUME NEW s \in Scalars PROVE FromFile(s)' = FromFile(s)
    BY <1>2 DEF FromFile, Scalars
  <1>5. \A s \in Scalars : Effective(s)' = Effective(s)
    BY <1>3, <1>4 DEF Effective
  <1>6. \A i : GoodLine(i)' = GoodLine(i)
    BY <1>2 DEF GoodLine
  <1>7. AllWellFormed' = AllWellFormed
    BY <1>2 DEF AllWellFormed
  <1>8. QED
    BY <1>1, <1>2, <1>3, <1>5, <1>6, <1>7

\* A line read is one more line read, and the last one for its setting.
LEMMA OneMoreLine ==
    ASSUME TypeOK, file # NoFile, NEW s, line' = line + 1, UNCHANGED file,
           LinesFor(s)' = LinesFor(s)
    PROVE  /\ line \notin LinesFor(s) => LinesRead(s)' = LinesRead(s)
           /\ line \in LinesFor(s) =>
                 LinesRead(s)' # {} /\ Max(LinesRead(s)') = line
  <1>1. line \in Nat /\ LinesFor(s) \subseteq Nat
    BY FileLines DEF TypeOK
  <1>2. LinesRead(s)' = {i \in LinesFor(s) : i < line + 1}
    BY DEF LinesRead
  <1>3. ASSUME line \notin LinesFor(s) PROVE LinesRead(s)' = LinesRead(s)
    BY <1>1, <1>2, <1>3 DEF LinesRead
  <1>4. ASSUME line \in LinesFor(s) PROVE LinesRead(s)' # {} /\ Max(LinesRead(s)') = line
    <2>1. line \in LinesRead(s)' /\ \A i \in LinesRead(s)' : i \in Nat /\ line >= i
      BY <1>1, <1>2, <1>4
    <2>2. \A m \in LinesRead(s)' : (\A i \in LinesRead(s)' : m >= i) => m = line
      BY <1>1, <2>1
    <2>3. QED
      BY <2>1, <2>2 DEF Max
  <1>5. QED
    BY <1>3, <1>4

\* The section after a line is that of the line, if it is a header.
LEMMA SectionAfter ==
    ASSUME NEW n \in Nat
    PROVE  SectionAt(n + 1) =
               IF n > 0 /\ file[n].kind = "header" THEN file[n].section ELSE SectionAt(n)
  <1> DEFINE headers(i) == {j \in 1 .. (i - 1) : file[j].kind = "header"}
  <1>1. CASE n > 0 /\ file[n].kind = "header"
    <2>1. n \in headers(n + 1) /\ \A j \in headers(n + 1) : j \in Nat /\ n >= j
      BY <1>1
    <2>2. \A m \in headers(n + 1) : (\A j \in headers(n + 1) : m >= j) => m = n
      BY <2>1
    <2>3. Max(headers(n + 1)) = n
      BY <2>1, <2>2 DEF Max
    <2>4. QED
      BY <1>1, <2>1, <2>3 DEF SectionAt
  <1>2. CASE ~(n > 0 /\ file[n].kind = "header")
    <2>1. headers(n + 1) = headers(n)
      BY <1>2
    <2>2. QED
      BY <1>2, <2>1 DEF SectionAt
  <1>3. QED
    BY <1>1, <1>2

\* What a line or a variable with a value does to the settings.
LEMMA ApplyEffect ==
    ASSUME TypeOK, NEW s, NEW text, NEW old, NEW next \in {"file", "env"},
           Apply(s, text, old, next)
    PROVE  \/ /\ s \in Settings => WellFormed(s, text)
              /\ phase' = next
              /\ \A t \in Settings :
                    config'[t] = IF t = s THEN Convert(s, text, old) ELSE config[t]
           \/ s \in Settings /\ ~WellFormed(s, text) /\ phase' = "rejected"
  BY DEF Apply, TypeOK, Typed

\* A scalar's conversion does not look at the old value.
LEMMA ScalarConvert ==
    ASSUME NEW s \in Scalars, NEW text, NEW old
    PROVE  Convert(s, text, old) = Convert(s, text, <<>>)
  BY DEF Convert, Scalars

\* A line that is not good is a reason to refuse the file.
LEMMA BadLineIsReason ==
    ASSUME TypeOK, file # NoFile, NEW i \in DOMAIN file, AllWellFormed
    PROVE  GoodLine(i)
  BY DEF AllWellFormed, GoodLine

\* The effect of reading a line.
LEMMA ReadLineLoading ==
    ASSUME TypeOK, Loading, ReadLine
    PROVE  Loading'
  <1> DEFINE l == file[line]
             t == SettingOf(section, l.key)
             old == IF t \in Lists THEN config[t] ELSE <<>>
  <1>1. /\ phase = "file" /\ line \in DOMAIN file /\ line' = line + 1
        /\ UNCHANGED <<file, environ, pending>>
        /\ Progress /\ pending = environ /\ file # NoFile /\ section = SectionAt(line)
    BY DEF ReadLine, Loading
  <1>2. /\ \A s : LinesFor(s)' = LinesFor(s) /\ VariablesFor(s)' = VariablesFor(s)
        /\ \A i : SectionAt(i)' = SectionAt(i)
        /\ \A i : GoodLine(i)' = GoodLine(i)
        /\ AllWellFormed' = AllWellFormed
    BY <1>1, SourcesFixed
  <1>3. \A s : line \in LinesFor(s) <=> l.kind = "pair" /\ s = t
    BY <1>1 DEF LinesFor
  <1>4. \/ /\ phase' = "rejected" /\ ~GoodLine(line)
        \/ /\ phase' = "file" /\ GoodLine(line)
           /\ \A s \in Scalars : config'[s] =
                  IF line \in LinesFor(s) THEN Convert(s, Trim[l.text], <<>>) ELSE config[s]
           /\ section' = IF l.kind = "header" THEN l.section ELSE section
    <2>1. CASE l.kind \in {"skipped", "header"}
      <3>1. /\ phase' = phase /\ config' = config
            /\ section' = IF l.kind = "header" THEN l.section ELSE section
        BY <2>1 DEF ReadLine
      <3>2. \A s : line \notin LinesFor(s)
        BY <1>3, <2>1
      <3>3. GoodLine(line)
        BY <2>1, <3>2 DEF GoodLine
      <3>4. QED
        BY <1>1, <3>1, <3>2, <3>3
    <2>2. CASE l.kind = "malformed"
      BY <2>2 DEF ReadLine, GoodLine
    <2>3. CASE l.kind = "pair"
      <3>1. Apply(t, Trim[l.text], old, "file") /\ section' = section
        BY <2>3 DEF ReadLine
      <3>2. CASE t \in Settings /\ ~WellFormed(t, Trim[l.text]) /\ phase' = "rejected"
        BY <1>3, <2>3, <3>2 DEF GoodLine
      <3>3. CASE /\ t \in Settings => WellFormed(t, Trim[l.text])
                 /\ phase' = "file"
                 /\ \A s \in Settings :
                       config'[s] = IF s = t THEN Convert(t, Trim[l.text], old) ELSE config[s]
        <4>1. GoodLine(line)
          BY <1>3, <2>3, <3>3 DEF GoodLine
        <4>2. ASSUME NEW s \in Scalars
              PROVE  config'[s] = IF line \in LinesFor(s) THEN Convert(s, Trim[l.text], <<>>)
                                  ELSE config[s]
          <5>1. s \in Settings /\ (line \in LinesFor(s) <=> s = t)
            BY <1>3, <2>3 DEF Scalars
          <5>2. Convert(s, Trim[l.text], old) = Convert(s, Trim[l.text], <<>>)
            BY ScalarConvert
          <5> HIDE DEF old, t, l
          <5>3. QED
            BY <3>3, <5>1, <5>2
        <4>3. QED
          BY <2>3, <3>1, <3>3, <4>1, <4>2
      <3> HIDE DEF old, t
      <3>4. QED
        BY <3>1, <3>2, <3>3, ApplyEffect
    <2>4. l.kind \in {"skipped", "header", "pair", "malformed"}
      <3>1. l \in Lines
        BY <1>1, FileLines
      <3>2. QED
        BY <3>1 DEF Lines
    <2>5. QED
      BY <2>1, <2>2, <2>3, <2>4
  <1>5. CASE phase' = "rejected" /\ ~GoodLine(line)
    <2>1. ~AllWellFormed'
      BY <1>1, <1>2, <1>5, BadLineIsReason
    <2>2. QED
      BY <1>5, <2>1 DEF Loading
  <1>6. CASE /\ phase' = "file" /\ GoodLine(line)
             /\ \A s \in Scalars : config'[s] =
                    IF line \in LinesFor(s) THEN Convert(s, Trim[l.text], <<>>) ELSE config[s]
             /\ section' = IF l.kind = "header" THEN l.section ELSE section
    <2>1. ASSUME NEW s \in Scalars PROVE Current(s)'
      <3>1. Applied(s) = {} /\ Applied(s)' = {}
        BY <1>1, <1>2 DEF Applied, VariablesFor
      <3>2. config[s] = ReadSoFar(s)
        BY <1>1, <3>1 DEF Progress, Current
      <3>3. CASE line \notin LinesFor(s)
        <4>1. ReadSoFar(s)' = ReadSoFar(s)
          BY <1>1, <1>2, <3>3, OneMoreLine DEF ReadSoFar
        <4>2. QED
          BY <1>6, <3>1, <3>2, <3>3, <4>1 DEF Current
      <3>4. CASE line \in LinesFor(s)
        <4>1. ReadSoFar(s)' = Convert(s, Trim[l.text], <<>>)
          BY <1>1, <1>2, <3>4, OneMoreLine DEF ReadSoFar
        <4>2. QED
          BY <1>6, <3>1, <3>4, <4>1 DEF Current
      <3>5. QED
        BY <3>3, <3>4
    <2>2. line \in Nat /\ Len(file) \in Nat /\ line \in 1 .. Len(file)
      BY <1>1, FileLines DEF TypeOK
    <2>3. line' <= Len(file') + 1
      BY <1>1, <2>2
    <2>4. \A i \in 1 .. line' - 1 : GoodLine(i)'
      <3>1. \A i \in 1 .. line' - 1 : i \in 1 .. line - 1 \/ i = line
        BY <1>1, <2>2
      <3>2. \A i \in 1 .. line - 1 : GoodLine(i)
        BY <1>1 DEF Progress
      <3>3. QED
        BY <1>2, <1>6, <3>1, <3>2, Zenon
    <2>5. \A v \in (environ \ pending)' : GoodVariable(v)'
      BY <1>1
    <2>6. section' = SectionAt(line)'
      <3>1. SectionAt(line)' = SectionAt(line + 1)
        BY <1>1 DEF SectionAt
      <3>2. line > 0
        BY <2>2
      <3>3. SectionAt(line + 1) = IF l.kind = "header" THEN l.section ELSE SectionAt(line)
        BY <2>2, <3>2, SectionAfter
      <3>4. QED
        BY <1>1, <1>6, <3>1, <3>3
    <2>7. Progress'
      BY <2>1, <2>3, <2>4, <2>5 DEF Progress
    <2>8. QED
      BY <1>1, <1>6, <2>6, <2>7 DEF Loading
  <1>7. QED
    BY <1>4, <1>5, <1>6

\* The effect of a variable.
LEMMA ReadVariableLoading ==
    ASSUME TypeOK, Loading, NEW v \in pending, ReadVariable(v)
    PROVE  Loading'
  <1> DEFINE t == SettingOf(v.section, v.key)
  <1>1. /\ phase = "env" /\ pending' = pending \ {v} /\ UNCHANGED <<file, environ, line>>
        /\ Progress /\ (file = NoFile \/ line = Len(file) + 1) /\ pending \subseteq environ
    BY DEF ReadVariable, Loading, TypeOK
  <1>2. /\ \A s : LinesFor(s)' = LinesFor(s) /\ VariablesFor(s)' = VariablesFor(s)
        /\ \A i : GoodLine(i)' = GoodLine(i)
        /\ AllWellFormed' = AllWellFormed
    BY <1>1, SourcesFixed
  <1>3. CASE t \in Settings /\ ~WellFormed(t, v.text) /\ phase' = "rejected"
    <2>1. ~AllWellFormed
      BY <1>1, <1>3 DEF AllWellFormed
    <2>2. QED
      BY <1>2, <1>3, <2>1 DEF Loading
  <1>4. CASE /\ t \in Settings => WellFormed(t, v.text)
             /\ phase' = "env"
             /\ \A s \in Settings :
                   config'[s] = IF s = t THEN Convert(t, v.text, <<>>) ELSE config[s]
    <2>1. ASSUME NEW s \in Scalars PROVE Current(s)'
      <3>1. s \in Settings
        BY DEF Scalars
      <3>2. ReadSoFar(s)' = ReadSoFar(s)
        BY <1>1, <1>2 DEF ReadSoFar, LinesRead
      <3>3. CASE s = t
        <4>1. v \in Applied(s)'
          BY <1>1, <1>2, <3>3 DEF Applied, VariablesFor
        <4>2. config'[s] = Convert(s, v.text, <<>>)
          BY <1>4, <3>1, <3>3
        <4>3. QED
          BY <4>1, <4>2 DEF Current
      <3>4. CASE s # t
        <4>1. Applied(s)' = Applied(s)
          BY <1>1, <1>2, <3>4 DEF Applied, VariablesFor
        <4>2. config'[s] = config[s]
          BY <1>4, <3>1, <3>4
        <4>3. QED
          BY <1>1, <3>2, <4>1, <4>2 DEF Progress, Current
      <3>5. QED
        BY <3>3, <3>4
    <2>2. file' # NoFile => line' <= Len(file') + 1 /\ \A i \in 1 .. line' - 1 : GoodLine(i)'
      BY <1>1, <1>2, Zenon DEF Progress
    <2>3. \A w \in (environ \ pending)' : GoodVariable(w)'
      <3>1. \A w \in environ \ pending : GoodVariable(w)
        BY <1>1 DEF Progress
      <3>2. GoodVariable(v)
        BY <1>4 DEF GoodVariable
      <3>3. \A w : GoodVariable(w)' = GoodVariable(w)
        BY DEF GoodVariable
      <3>4. \A w \in (environ \ pending)' : w \in environ \ pending \/ w = v
        BY <1>1
      <3>5. QED
        BY <3>1, <3>2, <3>3, <3>4, Zenon
    <2>4. Progress'
      BY <2>1, <2>2, <2>3 DEF Progress
    <2>5. QED
      BY <1>1, <1>4, <2>4 DEF Loading
  <1>5. Apply(t, v.text, <<>>, "env")
    BY DEF ReadVariable
  <1> HIDE DEF t
  <1>6. QED
    BY <1>3, <1>4, <1>5, ApplyEffect

\* When all is read, settings have their effective values, but for the default.
LEMMA AllRead ==
    ASSUME TypeOK, Loading, phase = "env", pending = {}
    PROVE  /\ AllWellFormed
           /\ \A s \in Scalars :
                 IF VariablesFor(s) = {} THEN config[s] = FromFile(s)
                 ELSE \E v \in VariablesFor(s) : config[s] = Convert(s, v.text, <<>>)
  <1>1. Progress /\ (file = NoFile \/ line = Len(file) + 1)
    BY DEF Loading
  <1>2. \A s : LinesRead(s) = LinesFor(s)
    BY <1>1, EverythingRead
  <1>3. ASSUME NEW s \in Scalars
        PROVE  IF VariablesFor(s) = {} THEN config[s] = FromFile(s)
               ELSE \E v \in VariablesFor(s) : config[s] = Convert(s, v.text, <<>>)
    <2>1. Applied(s) = VariablesFor(s)
      BY DEF Applied
    <2>2. ReadSoFar(s) = FromFile(s)
      BY <1>2 DEF ReadSoFar, FromFile, Scalars
    <2>3. QED
      BY <1>1, <2>1, <2>2 DEF Progress, Current
  <1>4. AllWellFormed
    <2>1. \A v \in environ : GoodVariable(v)
      BY <1>1 DEF Progress
    <2>2. file # NoFile => \A i \in DOMAIN file : GoodLine(i)
      <3>1. SUFFICES ASSUME file # NoFile PROVE \A i \in DOMAIN file : GoodLine(i)
        OBVIOUS
      <3>2. Len(file) \in Nat /\ DOMAIN file = 1 .. Len(file)
        BY <3>1, FileLines
      <3>3. \A i \in 1 .. line - 1 : GoodLine(i)
        BY <1>1, <3>1 DEF Progress
      <3>4. 1 .. line - 1 = DOMAIN file
        BY <1>1, <3>1, <3>2
      <3>5. QED
        BY <3>3, <3>4
    <2>3. \A s : LinesFor(s) # {} => file # NoFile /\ LinesFor(s) \subseteq DOMAIN file
      BY DEF LinesFor
    <2>4. QED
      BY <2>1, <2>2, <2>3 DEF AllWellFormed, GoodVariable, GoodLine
  <1>5. QED
    BY <1>3, <1>4

\* The end of a load.
LEMMA ValidateLoading ==
    ASSUME TypeOK, Loading, Validate
    PROVE  Loading'
  <1>1. /\ phase = "env" /\ pending = {} /\ UNCHANGED <<file, environ>>
        /\ config' = Defaulted(config) /\ phase' \in {"loaded", "rejected"}
        /\ phase' = "rejected" => ~Valid(config')
    BY DEF Validate
  <1>2. AllWellFormed'
    BY <1>1, AllRead, SourcesFixed
  <1>3. ASSUME NEW s \in Scalars PROVE config'[s] \in Effective(s)'
    <2>1. config'[s] = IF s = RSAMinKeyBits /\ config[s] = 0 THEN 2048 ELSE config[s]
      BY <1>1 DEF Defaulted, TypeOK, Typed, Scalars
    <2>2. config[s] \in IF VariablesFor(s) = {} THEN {FromFile(s)}
                        ELSE {Convert(s, v.text, <<>>) : v \in VariablesFor(s)}
      BY <1>1, AllRead
    <2> DEFINE values == IF VariablesFor(s) = {} THEN {FromFile(s)}
                         ELSE {Convert(s, v.text, <<>>) : v \in VariablesFor(s)}
    <2>3. config'[s] \in Effective(s)
      <3>1. Effective(s) = IF s = RSAMinKeyBits THEN {IF n = 0 THEN 2048 ELSE n : n \in values}
                           ELSE values
        BY DEF Effective
      <3>2. config[s] \in values
        BY <2>2
      <3> HIDE DEF values
      <3>3. CASE s = RSAMinKeyBits
        BY <2>1, <3>1, <3>2, <3>3
      <3>4. CASE s # RSAMinKeyBits
        BY <2>1, <3>1, <3>2, <3>4
      <3>5. QED
        BY <3>3, <3>4
    <2>4. QED
      BY <1>1, <2>3, SourcesFixed
  <1>4. IsEffective'
    BY <1>3 DEF IsEffective
  <1>5. QED
    BY <1>1, <1>2, <1>4 DEF Loading

\* A step that changes nothing but the phase.
LEMMA PhaseLoading ==
    ASSUME TypeOK, Loading, UNCHANGED <<file, environ, line, section, pending, config>>
    PROVE  /\ Progress' = Progress /\ (Valid(config))' = Valid(config)
           /\ AllWellFormed' = AllWellFormed /\ IsEffective' = IsEffective
           /\ SectionAt(line)' = SectionAt(line)
  <1>1. /\ \A s : LinesFor(s)' = LinesFor(s) /\ VariablesFor(s)' = VariablesFor(s)
        /\ \A s \in Scalars : Effective(s)' = Effective(s)
        /\ \A i : SectionAt(i)' = SectionAt(i)
        /\ \A i : GoodLine(i)' = GoodLine(i)
        /\ AllWellFormed' = AllWellFormed
    BY SourcesFixed
  <1>2. \A s : Current(s)' = Current(s)
    BY <1>1 DEF Current, Applied, ReadSoFar, LinesRead
  <1>3. Progress' = Progress
    BY <1>1, <1>2 DEF Progress, GoodVariable
  <1>4. IsEffective' = IsEffective
    BY <1>1 DEF IsEffective
  <1>5. QED
    BY <1>1, <1>3, <1>4

\* No step of start-up loses the invariant.
LEMMA LoadingInductive ==
    ASSUME TypeOK, Loading, [Next]_vars
    PROVE  Loading'
  <1>1. CASE FindFile
    <2>1. phase = "stat" /\ phase' = IF file = NoFile THEN "env" ELSE "file"
      BY <1>1 DEF FindFile
    <2>2. UNCHANGED <<file, environ, line, section, pending, config>>
      BY <1>1 DEF FindFile
    <2>3. SectionAt(1) = ""
      BY DEF SectionAt
    <2>4. QED
      BY <2>1, <2>2, <2>3, PhaseLoading DEF Loading
  <1>2. CASE ReadError
    BY <1>2 DEF ReadError, Loading
  <1>3. CASE ReadLine
    BY <1>3, ReadLineLoading
  <1>4. CASE EndOfFile
    <2>1. /\ phase = "file" /\ phase' = "env" /\ line = Len(file) + 1
          /\ UNCHANGED <<file, environ, line, section, pending, config>>
      BY <1>4 DEF EndOfFile
    <2>2. QED
      BY <2>1, PhaseLoading DEF Loading
  <1>5. ASSUME NEW v \in pending, ReadVariable(v)
        PROVE  Loading'
    BY <1>5, ReadVariableLoading
  <1>6. CASE Validate
    BY <1>6, ValidateLoading
  <1>7. ASSUME NEW awsRegion \in {"", "us-east-1"}, Start(awsRegion)
        PROVE  Loading'
    <2>1. /\ phase = "loaded" /\ phase' \in {"serving", "exited"}
          /\ UNCHANGED <<file, environ, line, section, pending, config>>
      BY <1>7 DEF Start
    <2>2. QED
      BY <2>1, PhaseLoading DEF Loading
  <1>8. CASE AWSConfigFails
    <2>1. /\ phase = "loaded" /\ phase' = "exited"
          /\ UNCHANGED <<file, environ, line, section, pending, config>>
      BY <1>8 DEF AWSConfigFails
    <2>2. QED
      BY <2>1, PhaseLoading DEF Loading
  <1>9. CASE UNCHANGED vars
    <2>1. /\ phase' = phase
          /\ UNCHANGED <<file, environ, line, section, pending, config>>
      BY <1>9 DEF vars
    <2>2. /\ Progress' = Progress /\ (Valid(config))' = Valid(config)
          /\ AllWellFormed' = AllWellFormed /\ IsEffective' = IsEffective
          /\ SectionAt(line)' = SectionAt(line)
      BY <2>1, PhaseLoading
    <2>3. /\ phase' \in {"stat", "file", "env"} => Progress'
          /\ phase' \in {"loaded", "serving", "exited"} => AllWellFormed' /\ IsEffective'
          /\ phase' = "rejected" => ~AllWellFormed' \/ (~(Valid(config))' /\ IsEffective')
      BY <2>1, <2>2 DEF Loading
    <2>4. /\ phase' \in {"stat", "file"} => pending' = environ'
          /\ phase' = "stat" => line' = 1 /\ section' = ""
          /\ phase' = "file" => file' # NoFile /\ section' = SectionAt(line)'
      BY <2>1, <2>2 DEF Loading
    <2>5. phase' = "env" => file' = NoFile \/ line' = Len(file') + 1
      BY <2>1 DEF Loading
    <2>6. QED
      BY <2>3, <2>4, <2>5 DEF Loading
  <1>10. QED
    BY <1>1, <1>2, <1>3, <1>4, <1>5, <1>6, <1>7, <1>8, <1>9 DEF Next

\* The settings validate looks at are scalars.
LEMMA ValidAgrees ==
    ASSUME NEW a, NEW b, \A s \in Scalars : a[s] = b[s], Valid(b)
    PROVE  Valid(a)
  <1>1. /\ PrivateKeyFile \in Scalars /\ PrivateKeyB64 \in Scalars /\ KMSKeyID \in Scalars
        /\ SignerType \in Scalars /\ RSAMinKeyBits \in Scalars /\ MaxTTL \in Scalars
        /\ DefaultTTL \in Scalars /\ Level \in Scalars
    BY KindsApart DEF Scalars, Settings, Numbers, Lowered, Plain
  <1>2. /\ a[PrivateKeyFile] = b[PrivateKeyFile] /\ a[PrivateKeyB64] = b[PrivateKeyB64]
        /\ a[KMSKeyID] = b[KMSKeyID] /\ a[SignerType] = b[SignerType]
        /\ a[RSAMinKeyBits] = b[RSAMinKeyBits] /\ a[MaxTTL] = b[MaxTTL]
        /\ a[DefaultTTL] = b[DefaultTTL] /\ a[Level] = b[Level]
    BY <1>1
  <1>3. NamesKey(b) => NamesKey(a)
    BY <1>2 DEF NamesKey
  <1>4. b[SignerType] \in {"rsa", "kms"} => a[SignerType] \in {"rsa", "kms"}
    BY <1>2
  <1>5. b[Level] \in {"", "debug", "info", "warn", "error"}
            => a[Level] \in {"", "debug", "info", "warn", "error"}
    BY <1>2
  <1>6. /\ b[RSAMinKeyBits] >= 2048 => a[RSAMinKeyBits] >= 2048
        /\ b[MaxTTL] > 0 => a[MaxTTL] > 0
    BY <1>2
  <1>7. DefaultWithinMax(b) => DefaultWithinMax(a)
    BY <1>2 DEF DefaultWithinMax
  <1>8. InlineKeyDecodes(b) => InlineKeyDecodes(a)
    BY <1>2 DEF InlineKeyDecodes
  <1>9. QED
    BY <1>3, <1>4, <1>5, <1>6, <1>7, <1>8, PTL DEF Valid

\* Unless two variables differ in spelling only, a setting has one value.
LEMMA OneValue ==
    ASSUME Unambiguous, NEW s \in Scalars, NEW x \in Effective(s)
    PROVE  (CHOOSE value \in Effective(s) : TRUE) = x
  <1>1. \A v, w \in VariablesFor(s) : v = w
    BY DEF Unambiguous, VariablesFor
  <1>2. \A y, z \in Effective(s) : y = z
    BY <1>1 DEF Effective
  <1>3. QED
    BY <1>2

(***************************************************************************)
(* For any file, any variables and any order of them, the scalars of a     *)
(* loaded configuration are those its sources describe (config.go, Load).  *)
(***************************************************************************)
THEOREM EffectiveIsLoaded == Spec => []LoadedIsEffective
  <1>1. Init => TypeOK /\ (phase = "file" => file # NoFile) /\ Loading
    BY InitTypes, InitLoading DEF Init
  <1>2. TypeOK /\ (phase = "file" => file # NoFile) /\ Loading /\ [Next]_vars
            => (TypeOK /\ (phase = "file" => file # NoFile) /\ Loading)'
    BY TypesInductive, LoadingInductive
  <1>3. Loading => LoadedIsEffective
    BY DEF Loading, LoadedIsEffective, IsEffective
  <1>4. QED
    BY <1>1, <1>2, <1>3, PTL DEF Spec

(***************************************************************************)
(* Load accepts just the sources whose values are all well-formed and      *)
(* whose effective configuration is valid, whatever comes first in them    *)
(* (config.go, Load).                                                      *)
(***************************************************************************)
THEOREM JustValidLoads == Spec => []LoadsJustWhatIsValid
  <1> DEFINE Inv == /\ TypeOK /\ (phase = "file" => file # NoFile) /\ Loading
                    /\ Checked
  <1>1. Init => Inv
    <2>1. Init => Checked
      BY DEF Init, Checked
    <2>2. QED
      BY <2>1, InitTypes, InitLoading DEF Init
  <1>2. Inv /\ [Next]_vars => Inv'
    BY TypesInductive, LoadingInductive, CheckedInductive
  <1>3. Inv => LoadsJustWhatIsValid
    <2> DEFINE effective == [s \in Scalars |-> CHOOSE value \in Effective(s) : TRUE]
    <2>1. ASSUME Unambiguous, IsEffective
          PROVE  \A s \in Scalars : config[s] = effective[s] /\ effective[s] = config[s]
      BY <2>1, OneValue DEF IsEffective
    <2> HIDE DEF effective
    <2>2. ASSUME Loading, Checked, Unambiguous, phase \in {"loaded", "serving", "exited"}
          PROVE  AllWellFormed /\ Valid(effective)
      <3>1. AllWellFormed /\ IsEffective /\ Valid(config)
        BY <2>2 DEF Loading, Checked
      <3>2. QED
        BY <2>1, <2>2, <3>1, ValidAgrees
    <2>3. ASSUME Loading, Unambiguous, phase = "rejected", AllWellFormed, Valid(effective)
          PROVE  FALSE
      <3>1. ~Valid(config) /\ IsEffective
        BY <2>3 DEF Loading
      <3>2. QED
        BY <2>1, <2>3, <3>1, ValidAgrees
    <2>4. QED
      BY <2>2, <2>3 DEF LoadsJustWhatIsValid, effective
  <1>4. QED
    BY <1>1, <1>2, <1>3, PTL DEF Spec
-----------------------------------------------------------------------------
(* Lists.                                                                  *)

\* A list is that of a variable applied, else made of the lines read.
CurrentList(s) ==
    IF Applied(s) = {} THEN MadeOf(config[s], LinesRead(s))
    ELSE \E v \in Applied(s) : config[s] = Items[v.text]

\* The inductive invariant: what is read so far is what the lists hold.
ListsSoFar ==
    /\ phase \in {"stat", "file", "env"} => \A s \in Lists : CurrentList(s)
    /\ ListsAddUp

\* No lines make an empty list.
LEMMA MadeOfNothing == MadeOf(<<>>, {})
  <1>1. [i \in {} |-> 0] \in [{} -> 0 .. Len(<<>>)]
    OBVIOUS
  <1>2. DOMAIN <<>> = {}
    OBVIOUS
  <1>3. QED
    BY <1>1, <1>2, Zenon DEF MadeOf

\* The items of a later line come behind those of the others.
LEMMA MadeOfMore ==
    ASSUME NEW list \in Seq(Texts), NEW lines \in SUBSET Nat, MadeOf(list, lines),
           NEW k \in Nat, \A i \in lines : i < k,
           \A i \in lines \cup {k} : ItemsAt(i) \in Seq(Texts)
    PROVE  MadeOf(list \o ItemsAt(k), lines \cup {k})
  <1>1. PICK start \in [lines -> 0 .. Len(list)] :
            /\ \A i \in lines :
                  /\ start[i] + Len(ItemsAt(i)) <= Len(list)
                  /\ \A n \in DOMAIN ItemsAt(i) : list[start[i] + n] = ItemsAt(i)[n]
            /\ \A i, j \in lines : i < j => start[i] + Len(ItemsAt(i)) <= start[j]
            /\ \A n \in DOMAIN list : \E i \in lines :
                  start[i] < n /\ n <= start[i] + Len(ItemsAt(i))
    BY DEF MadeOf
  <1> DEFINE more == list \o ItemsAt(k)
             begin == [i \in lines \cup {k} |-> IF i = k THEN Len(list) ELSE start[i]]
  <1>2. /\ Len(list) \in Nat /\ DOMAIN list = 1 .. Len(list)
        /\ \A i \in lines \cup {k} :
              Len(ItemsAt(i)) \in Nat /\ DOMAIN ItemsAt(i) = 1 .. Len(ItemsAt(i))
    BY LenProperties
  <1>3. /\ more \in Seq(Texts) /\ Len(more) = Len(list) + Len(ItemsAt(k))
        /\ \A n \in 1 .. Len(more) :
              more[n] = IF n <= Len(list) THEN list[n] ELSE ItemsAt(k)[n - Len(list)]
    BY ConcatProperties
  <1>4. DOMAIN more = 1 .. Len(list) + Len(ItemsAt(k))
    BY <1>3, LenProperties
  <1>5. k \notin lines
    OBVIOUS
  <1>6. /\ begin[k] = Len(list)
        /\ \A i \in lines : begin[i] = start[i] /\ start[i] \in 0 .. Len(list)
    BY <1>5
  <1>7. begin \in [lines \cup {k} -> 0 .. Len(more)]
    <2>1. \A i \in lines \cup {k} : begin[i] \in 0 .. Len(more)
      BY <1>2, <1>3, <1>6
    <2>2. QED
      BY <2>1
  <1> HIDE DEF more, begin
  <1>8. ASSUME NEW i \in lines \cup {k}
        PROVE  /\ begin[i] + Len(ItemsAt(i)) <= Len(more)
               /\ \A n \in DOMAIN ItemsAt(i) : more[begin[i] + n] = ItemsAt(i)[n]
    <2>1. CASE i = k
      BY <1>2, <1>3, <1>6, <2>1
    <2>2. CASE i \in lines
      <3>1. start[i] + Len(ItemsAt(i)) <= Len(list)
        BY <1>1, <2>2
      <3>2. begin[i] = start[i] /\ start[i] \in Nat
        BY <1>6, <2>2
      <3>3. ASSUME NEW n \in DOMAIN ItemsAt(i)
            PROVE  more[begin[i] + n] = ItemsAt(i)[n]
        <4>1. list[start[i] + n] = ItemsAt(i)[n]
          BY <1>1, <2>2
        <4>2. start[i] + n \in 1 .. Len(more) /\ start[i] + n <= Len(list)
          BY <1>2, <1>3, <3>1, <3>2
        <4>3. QED
          BY <1>3, <3>2, <4>1, <4>2
      <3>4. QED
        BY <1>2, <1>3, <3>1, <3>2, <3>3
    <2>3. QED
      BY <2>1, <2>2
  <1>9. ASSUME NEW i \in lines \cup {k}, NEW j \in lines \cup {k}, i < j
        PROVE  begin[i] + Len(ItemsAt(i)) <= begin[j]
    <2>1. i \in lines /\ (j \in lines \/ j = k)
      BY <1>9
    <2>2. CASE j = k
      BY <1>1, <1>6, <2>1, <2>2
    <2>3. CASE j \in lines
      BY <1>1, <1>6, <1>9, <2>1, <2>3
    <2>4. QED
      BY <2>1, <2>2, <2>3
  <1>10. ASSUME NEW n \in DOMAIN more
         PROVE  \E i \in lines \cup {k} : begin[i] < n /\ n <= begin[i] + Len(ItemsAt(i))
    <2>1. CASE n <= Len(list)
      <3>1. n \in DOMAIN list
        BY <1>2, <1>4, <2>1
      <3>2. PICK i \in lines : start[i] < n /\ n <= start[i] + Len(ItemsAt(i))
        BY <1>1, <3>1
      <3>3. QED
        BY <1>6, <3>2
    <2>2. CASE n > Len(list)
      BY <1>2, <1>4, <1>6, <2>2
    <2>3. QED
      BY <1>2, <1>4, <2>1, <2>2
  <1>11. MadeOf(more, lines \cup {k})
    BY <1>7, <1>8, <1>9, <1>10 DEF MadeOf
  <1>12. QED
    BY <1>11 DEF more

\* A list setting takes the items of a line behind its own, of a variable alone.
LEMMA ListConvert ==
    ASSUME NEW s \in Lists, NEW text \in Texts, NEW old \in Seq(Texts)
    PROVE  /\ Convert(s, text, old) = old \o Items[text]
           /\ Convert(s, text, <<>>) = Items[text]
           /\ s \in Settings /\ WellFormed(s, text)
  <1>1. Convert(s, text, old) = old \o Items[text] /\ Convert(s, text, <<>>) = <<>> \o Items[text]
    BY KindsApart DEF Convert
  <1>2. Items[text] \in Seq(Texts)
    BY StartupAssumption
  <1>3. s \in Settings /\ WellFormed(s, text)
    BY KindsApart DEF Settings, WellFormed
  <1>4. QED
    BY <1>1, <1>2, <1>3, ConcatEmptySeq

\* The start of a load.
LEMMA InitLists == Init /\ TypeOK => ListsSoFar
  <1> SUFFICES ASSUME Init, TypeOK PROVE ListsSoFar
    OBVIOUS
  <1>1. phase = "stat" /\ pending = environ /\ config = ZeroConfig
    BY Zenon DEF Init
  <1>2. line = 1
    BY Zenon DEF Init
  <1>3. ASSUME NEW s \in Lists PROVE CurrentList(s)
    <2>1. Applied(s) = {}
      BY <1>1 DEF Applied, VariablesFor
    <2>2. LinesRead(s) = {}
      BY <1>2, NothingRead
    <2>3. config[s] = <<>>
      BY <1>1, KindsApart DEF ZeroConfig, Settings
    <2>4. QED
      BY <2>1, <2>2, <2>3, MadeOfNothing DEF CurrentList
  <1>4. QED
    BY <1>1, <1>3 DEF ListsSoFar, ListsAddUp
\* A step that changes no list, no line read and no variable applied.
LEMMA ListsKept ==
    ASSUME ListsSoFar, UNCHANGED <<file, environ, line, pending>>,
           \A s \in Lists : config'[s] = config[s],
           \/ phase' = phase
           \/ phase \in {"stat", "file", "env"} /\ phase' \in {"file", "env"}
           \/ phase \in {"loaded", "serving", "exited"} /\ phase' \in {"serving", "exited"}
           \/ phase' \in {"unreadable", "rejected"}
    PROVE  ListsSoFar'
  <1>1. \A s : LinesFor(s)' = LinesFor(s) /\ VariablesFor(s)' = VariablesFor(s)
    BY SourcesFixed
  <1>2. ASSUME NEW s \in Lists
        PROVE  /\ LinesRead(s)' = LinesRead(s) /\ Applied(s)' = Applied(s)
               /\ config'[s] = config[s]
    BY <1>1 DEF LinesRead, Applied
  <1>3. ASSUME NEW s \in Lists, CurrentList(s) PROVE CurrentList(s)'
    <2>1. CASE Applied(s) = {}
      <3>1. MadeOf(config[s], LinesRead(s))
        BY <1>3, <2>1 DEF CurrentList
      <3>2. MadeOf(config[s], LinesRead(s))'
        BY <1>2, <3>1 DEF MadeOf, ItemsAt
      <3>3. QED
        BY <1>2, <2>1, <3>2 DEF CurrentList
    <2>2. CASE Applied(s) # {}
      BY <1>2, <1>3, <2>2 DEF CurrentList
    <2>3. QED
      BY <2>1, <2>2
  <1>4. ASSUME ListsAddUp, phase \in {"loaded", "serving", "exited"}
        PROVE  ListsAddUp'
    <2>1. ASSUME NEW s \in Lists
          PROVE  \/ VariablesFor(s)' = {} /\ MadeOf(config[s], LinesFor(s))'
                 \/ \E v \in VariablesFor(s)' : config'[s] = Items[v.text]
      <3>1. CASE VariablesFor(s) = {} /\ MadeOf(config[s], LinesFor(s))
        <4>1. MadeOf(config[s], LinesFor(s))'
          BY <1>1, <1>2, <3>1 DEF MadeOf, ItemsAt
        <4>2. QED
          BY <1>1, <3>1, <4>1
      <3>2. CASE \E v \in VariablesFor(s) : config[s] = Items[v.text]
        BY <1>1, <1>2, <3>2
      <3>3. QED
        BY <1>4, <3>1, <3>2 DEF ListsAddUp
    <2>2. QED
      BY <2>1 DEF ListsAddUp
  <1>5. phase' \in {"loaded", "serving", "exited"} => phase \in {"loaded", "serving", "exited"}
    OBVIOUS
  <1>6. phase' \in {"stat", "file", "env"} => phase \in {"stat", "file", "env"}
    OBVIOUS
  <1>7. ListsAddUp'
    <2>1. CASE phase' \in {"loaded", "serving", "exited"}
      BY <1>4, <1>5, <2>1 DEF ListsSoFar
    <2>2. CASE phase' \notin {"loaded", "serving", "exited"}
      BY <2>2 DEF ListsAddUp
    <2>3. QED
      BY <2>1, <2>2
  <1>8. phase' \in {"stat", "file", "env"} => \A s \in Lists : CurrentList(s)'
    BY <1>3, <1>6 DEF ListsSoFar
  <1>9. QED
    BY <1>7, <1>8 DEF ListsSoFar

\* The effect of reading a line.
LEMMA ReadLineLists ==
    ASSUME TypeOK, Loading, ListsSoFar, ReadLine
    PROVE  ListsSoFar'
  <1> DEFINE l == file[line]
             t == SettingOf(section, l.key)
             old == IF t \in Lists THEN config[t] ELSE <<>>
  <1>1. /\ phase = "file" /\ line \in DOMAIN file /\ line' = line + 1
        /\ UNCHANGED <<file, environ, pending>> /\ phase' \in {"file", "rejected"}
        /\ pending = environ /\ file # NoFile /\ section = SectionAt(line)
    BY ApplyPhase DEF ReadLine, Loading
  <1>2. \A s : LinesFor(s)' = LinesFor(s) /\ VariablesFor(s)' = VariablesFor(s)
    BY <1>1, SourcesFixed
  <1>3. l \in Lines /\ line \in Nat
    BY <1>1, FileLines
  <1>4. \A s : line \in LinesFor(s) <=> l.kind = "pair" /\ s = t
    BY <1>1 DEF LinesFor
  <1>5. ASSUME phase' = "file", NEW s \in Lists
        PROVE  config'[s] = IF line \in LinesFor(s) THEN config[s] \o ItemsAt(line) ELSE config[s]
    <2>1. CASE l.kind # "pair"
      <3>1. config' = config
        BY <1>5, <2>1 DEF ReadLine
      <3>2. QED
        BY <1>4, <2>1, <3>1
    <2>2. CASE l.kind = "pair"
      <3>1. Apply(t, Trim[l.text], old, "file")
        BY <2>2 DEF ReadLine
      <3>2. Trim[l.text] \in Texts /\ config[s] \in Seq(Texts)
        BY <1>3, StartupAssumption DEF Lines, TypeOK, Typed
      <3>3. s \in Settings
        BY DEF Settings
      <3>4. s = t => old = config[s]
        OBVIOUS
      <3>5. ItemsAt(line) = Items[Trim[l.text]]
        BY DEF ItemsAt
      <3>6. Convert(s, Trim[l.text], config[s]) = config[s] \o Items[Trim[l.text]]
        BY <3>2, ListConvert
      <3> HIDE DEF old, t, l
      <3>7. \A u \in Settings :
                config'[u] = IF u = t THEN Convert(t, Trim[l.text], old) ELSE config[u]
        BY <1>5, <3>1, ApplyEffect
      <3>8. QED
        BY <1>4, <2>2, <3>3, <3>4, <3>5, <3>6, <3>7
    <2>3. QED
      BY <2>1, <2>2
  <1> HIDE DEF l, t, old
  <1>6. ASSUME phase' = "file", NEW s \in Lists
        PROVE  CurrentList(s)'
    <2>1. Applied(s) = {} /\ Applied(s)' = {}
      BY <1>1, <1>2 DEF Applied, VariablesFor
    <2>2. MadeOf(config[s], LinesRead(s))
      BY <1>1, <2>1 DEF ListsSoFar, CurrentList
    <2>3. MadeOf(config'[s], LinesRead(s)')
      <3>1. CASE line \notin LinesFor(s)
        BY <1>1, <1>2, <1>5, <1>6, <2>2, <3>1, OneMoreLine
      <3>2. CASE line \in LinesFor(s)
        <4>1. LinesFor(s) \subseteq DOMAIN file /\ DOMAIN file \subseteq Nat
          BY <1>1, FileLines
        <4>2. LinesRead(s)' = LinesRead(s) \cup {line}
          BY <1>1, <1>2, <1>3, <3>2, <4>1 DEF LinesRead
        <4>3. \A i \in LinesFor(s) : ItemsAt(i) \in Seq(Texts)
          <5>1. \A i \in DOMAIN file : file[i] \in Lines
            BY <1>1, FileLines
          <5>2. \A i \in DOMAIN file : Trim[file[i].text] \in Texts
            BY <5>1, StartupAssumption DEF Lines
          <5>3. QED
            BY <4>1, <5>2, StartupAssumption DEF ItemsAt
        <4>4. /\ config[s] \in Seq(Texts) /\ LinesRead(s) \in SUBSET Nat
              /\ \A i \in LinesRead(s) : i < line /\ i \in LinesFor(s)
          BY <4>1 DEF LinesRead, TypeOK, Typed
        <4>5. MadeOf(config[s] \o ItemsAt(line), LinesRead(s) \cup {line})
          BY <1>3, <2>2, <3>2, <4>3, <4>4, MadeOfMore
        <4>6. QED
          BY <1>5, <1>6, <3>2, <4>2, <4>5
      <3>3. QED
        BY <3>1, <3>2
    <2>4. MadeOf(config[s], LinesRead(s))'
      BY <1>1, <2>3 DEF MadeOf, ItemsAt
    <2>5. QED
      BY <2>1, <2>4 DEF CurrentList
  <1>7. QED
    BY <1>1, <1>6 DEF ListsSoFar, ListsAddUp

\* The effect of a variable.
LEMMA ReadVariableLists ==
    ASSUME TypeOK, ListsSoFar, NEW v \in pending, ReadVariable(v)
    PROVE  ListsSoFar'
  <1> DEFINE t == SettingOf(v.section, v.key)
  <1>1. /\ phase = "env" /\ pending' = pending \ {v} /\ UNCHANGED <<file, environ, line>>
        /\ pending \subseteq environ /\ phase' \in {"env", "rejected"}
        /\ Apply(t, v.text, <<>>, "env")
    BY ApplyPhase DEF ReadVariable, TypeOK
  <1>2. \A s : LinesFor(s)' = LinesFor(s) /\ VariablesFor(s)' = VariablesFor(s)
    BY <1>1, SourcesFixed
  <1>3. ASSUME phase' = "env", NEW s \in Lists
        PROVE  CurrentList(s)'
    <2>1. s \in Settings /\ (s = t => v \in VariablesFor(s))
      BY <1>1 DEF Settings, VariablesFor
    <2>2. CASE s = t
      <3>1. v \in Applied(s)'
        BY <1>1, <1>2, <2>1, <2>2 DEF Applied
      <3>2. v.text \in Texts
        BY <1>1, StartupAssumption DEF TypeOK, Variables
      <3>3. config'[s] = Convert(s, v.text, <<>>)
        <4> HIDE DEF t
        <4>1. QED
          BY <1>1, <1>3, <2>1, <2>2, ApplyEffect
      <3>4. config'[s] = Items[v.text]
        BY <3>2, <3>3, ListConvert, EmptySeq
      <3>5. QED
        BY <3>1, <3>4 DEF CurrentList
    <2>3. CASE s # t
      <3>1. Applied(s)' = Applied(s) /\ LinesRead(s)' = LinesRead(s)
        BY <1>1, <1>2, <2>3 DEF Applied, LinesRead, VariablesFor
      <3>2. config'[s] = config[s]
        <4> HIDE DEF t
        <4>1. QED
          BY <1>1, <1>3, <2>1, <2>3, ApplyEffect
      <3>3. CurrentList(s)
        BY <1>1 DEF ListsSoFar
      <3>4. CASE Applied(s) = {}
        <4>1. MadeOf(config[s], LinesRead(s))
          BY <3>3, <3>4 DEF CurrentList
        <4>2. MadeOf(config[s], LinesRead(s))'
          BY <1>1, <3>1, <3>2, <4>1 DEF MadeOf, ItemsAt
        <4>3. QED
          BY <3>1, <3>4, <4>2 DEF CurrentList
      <3>5. CASE Applied(s) # {}
        BY <3>1, <3>2, <3>3, <3>5 DEF CurrentList
      <3>6. QED
        BY <3>4, <3>5
    <2>4. QED
      BY <2>2, <2>3
  <1>4. QED
    BY <1>1, <1>3 DEF ListsSoFar, ListsAddUp

\* The end of a load: all lines are read and all variables applied.
LEMMA ValidateLists ==
    ASSUME TypeOK, Loading, ListsSoFar, Validate
    PROVE  ListsSoFar'
  <1>1. /\ phase = "env" /\ pending = {} /\ UNCHANGED <<file, environ>>
        /\ config' = Defaulted(config) /\ phase' \in {"loaded", "rejected"}
        /\ file = NoFile \/ line = Len(file) + 1
    BY DEF Validate, Loading
  <1>2. \A s : LinesFor(s)' = LinesFor(s) /\ VariablesFor(s)' = VariablesFor(s)
    BY <1>1, SourcesFixed
  <1>3. ASSUME NEW s \in Lists
        PROVE  \/ VariablesFor(s)' = {} /\ MadeOf(config[s], LinesFor(s))'
               \/ \E v \in VariablesFor(s)' : config'[s] = Items[v.text]
    <2>1. config'[s] = config[s]
      <3>1. s # RSAMinKeyBits /\ s \in Settings
        BY KindsApart DEF Settings, Numbers
      <3>2. QED
        BY <1>1, <3>1 DEF Defaulted, TypeOK, Typed
    <2>2. LinesRead(s) = LinesFor(s) /\ Applied(s) = VariablesFor(s)
      BY <1>1, EverythingRead DEF Applied
    <2>3. CurrentList(s)
      BY <1>1 DEF ListsSoFar
    <2>4. CASE VariablesFor(s) = {}
      <3>1. MadeOf(config[s], LinesFor(s))
        BY <2>2, <2>3, <2>4 DEF CurrentList
      <3>2. MadeOf(config[s], LinesFor(s))'
        BY <1>1, <1>2, <2>1, <3>1 DEF MadeOf, ItemsAt
      <3>3. QED
        BY <1>2, <2>4, <3>2
    <2>5. CASE VariablesFor(s) # {}
      BY <1>2, <2>1, <2>2, <2>3, <2>5 DEF CurrentList
    <2>6. QED
      BY <2>4, <2>5
  <1>4. QED
    BY <1>1, <1>3 DEF ListsSoFar, ListsAddUp

\* No step of start-up loses track of a list.
LEMMA ListsInductive ==
    ASSUME TypeOK, Loading, ListsSoFar, [Next]_vars
    PROVE  ListsSoFar'
  <1>1. CASE FindFile
    BY <1>1, ListsKept DEF FindFile
  <1>2. CASE ReadError
    BY <1>2, ListsKept DEF ReadError
  <1>3. CASE ReadLine
    BY <1>3, ReadLineLists
  <1>4. CASE EndOfFile
    BY <1>4, ListsKept DEF EndOfFile
  <1>5. ASSUME NEW v \in pending, ReadVariable(v)
        PROVE  ListsSoFar'
    BY <1>5, ReadVariableLists
  <1>6. CASE Validate
    BY <1>6, ValidateLists
  <1>7. ASSUME NEW awsRegion \in {"", "us-east-1"}, Start(awsRegion)
        PROVE  ListsSoFar'
    BY <1>7, ListsKept DEF Start
  <1>8. CASE AWSConfigFails
    BY <1>8, ListsKept DEF AWSConfigFails
  <1>9. CASE UNCHANGED vars
    BY <1>9, ListsKept DEF vars
  <1>10. QED
    BY <1>1, <1>2, <1>3, <1>4, <1>5, <1>6, <1>7, <1>8, <1>9 DEF Next

(***************************************************************************)
(* For any file, any variables and any order of them, a list of a loaded   *)
(* configuration is that of its variable, else all its lines in order: no  *)
(* principal or certificate type is lost, repeated or left over from the   *)
(* file (config.go, applyValue, appendList).                               *)
(***************************************************************************)
THEOREM ListsAreComplete == Spec => []ListsAddUp
  <1> DEFINE Inv == /\ TypeOK /\ (phase = "file" => file # NoFile) /\ Loading
                    /\ ListsSoFar
  <1>1. Init => Inv
    BY InitTypes, InitLoading, InitLists DEF Init
  <1>2. Inv /\ [Next]_vars => Inv'
    BY TypesInductive, LoadingInductive, ListsInductive
  <1>3. Inv => ListsAddUp
    BY DEF ListsSoFar
  <1>4. QED
    BY <1>1, <1>2, <1>3, PTL DEF Spec
=============================================================================
