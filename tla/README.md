# GoBless in TLA+

A verification development for GoBless, an SSH certificate authority that runs as an AWS
Lambda function: TLA+ modules translated from the Go source, TLC configurations that check
them on small instances, and TLAPS proofs about them for instances of any size. Paths below
are relative to the repository's root.

## The system

A caller posts a public key, a certificate type, principals and a lifetime. The function
decides, builds an OpenSSH certificate, has AWS KMS sign it and returns it, and writes audit
events to DynamoDB around that.

| Component | State | Operations | Talks to |
|---|---|---|---|
| Entry point, `internal/lambda/entrypoint.go` | none | decode the body, derive the caller's name from its ARN | the handler |
| Handler, `internal/lambda/handler.go` | one configuration, one signer, one repository, for the life of the environment | `Handle` | policy, cert, audit |
| Policy, `internal/policy` | none | `Evaluate`: fourteen checks, then a key ID | cert (key ID), config |
| Certificates, `internal/cert` | none | `Sign`: last checks, serial, extensions, lifetime; `GenerateKeyID` | a signer |
| KMS signer, `internal/signer/kms.go` | a key ID | `Sign`: GetPublicKey, then Sign under the same key ID | KMS, through two adapters |
| Local signer, `internal/signer/local.go` | a private key | load a key file, `Sign` in memory | the command line only |
| Audit, `internal/audit` | a table name, fail-open or not | `NewEvent`, `Write` | DynamoDB |
| Configuration, `internal/config` | none | `Load`: file, then environment, defaults, validation | start-up |
| Start-up, `cmd/gobless` | none | load, construct signer and repository, or exit | all of the above |
| Command line, `cmd/gobless/main.go`, `internal/cli` | a process per run | `sign`, `ca-pubkey`, `version` | configuration, the local signer, the handler without audit |
| Errors and log, `internal/errs`, `internal/log` | none | wrap, print | nothing reads them back |
| Deployment, `deploy/terraform` | the deployed configuration | apply | Lambda, KMS, DynamoDB |

There are no goroutines in `Handle`: the concurrency is between Lambda's execution
environments ("containers" below), each of which serves one call at a time, and between them
and the operator. The shared state is the audit table and KMS. Runs of the command line are
processes of their own, which share the CA key file and the output file.

What is hard to test:

- **Crashes between effects.** Lambda may end a container between any two of: request event,
  KMS call, signature, result event, response. The KMS calls use `context.Background()`, so
  an outage of KMS ends in such a kill rather than in an error.
- **Lost answers.** DynamoDB may store an event, and KMS may make a signature, whose answer
  never arrives; the SDK asks again, or gives up, and what it asked for may still be carried
  out, after the call is answered even.
- **Staleness.** A warm container keeps the configuration it loaded while others run a newer
  one. A KMS alias is resolved twice per signature.
- **Partial failure.** Two audit writes with four possible fates each, two modes
  (fail-open, fail-closed), and an event constructor that can fail on its own.
- **Boundaries.** The TTL goes through an `int64` product; key sizes are read off the wire
  encoding by hand, twice, and compared with different minima; principals are compared, in
  four different loops, without case.
- **Files.** `sign` empties its output file before it writes to it, does not look at the error
  of that write, and may be killed in between; the key file may be replaced at any time.

What makes each part correct:

- handler and audit: under fail-closed nothing is signed without a request event and nothing
  is handed out without its approved event; what the table says, and what the caller is told,
  is true; every call ends;
- policy: a decision does not depend on the spelling or order of principals, privileged
  names must be listed, what it approves can be built, and lifting a limit refuses nothing
  that was approved;
- certificates: what is signed is within the policy, one certificate per call;
- KMS signer: the key named is the key that signed;
- configuration and start-up: a loaded configuration is the one its sources describe, nothing
  malformed or out of bounds gets through, and what serves has what the handler relies on;
- command line and local signer: the policy binds it too, what is printed was signed, and a run
  that comes to nothing leaves the output file alone.

`PROJECT.json` lists the components, and under `hazards` where in the code each of these
bites and which property is about it.

## The modules

    Cert  <-  Policy  <-  Evaluator  <-  MCEvaluator, EvaluatorProofs (+ PolicyProofs)
                 ^
                 +------  Startup  <-  MCStartup, StartupProofs
                 |
                 +------  LocalCA  <-  MCLocalCA, LocalCAProofs (+ PolicyProofs)
                 |           |  implements
                 |        Issuance  <-  IssuanceProofs
                 |           |  implemented by
                 +------  Handler (+ Audit, KMS)  <-  HandlerInv  <-  MCHandler
                                                          ^
                                                    HandlerProofs (+ PolicyProofs)
                                                          ^
                                          RefinementProofs (+ IssuanceProofs)

- **Cert** is `internal/cert` without its randomness: `Rejects`, `Extensions`, `Lifetime` and
  `Build`. A key is `[parses, type, exponent, modulus]`, a number `[bytes, top]` with its first
  byte; `Marshal` lays a key out in the length-prefixed fields of its wire encoding, and
  `RSAModulusBitsFromWire` is the code's parser of them, sign bytes included. A source address
  is the sequence of its comma-separated parts; an extension map is the set of its keys (the
  values are copied as they are). Go's `time.Duration` counts ticks, `Second` of them in a
  second.
- **Policy** is `Evaluate`. `Checks` is the sequence of its early returns in their order, each
  with the reason the caller sees; `Approves` and `DenialReason` read it. `strings.ToLower` and
  the normalisation of certificate types are the functions `Fold` and `NormType`, so that the
  model says where the code folds case and where it does not. `Wrap` is `int64` overflow.
  `ExtractIAMContext` takes the caller's name from its ARN. `WithinPolicy` states, of a
  certificate, what a configuration promises of it; Handler and LocalCA share it.
- **Evaluator** is one handler deciding one request after another, without faults: a decision
  is one action, and what cert.Sign makes of an approval is part of it.
- **Audit** says what an attempt to write an event leaves in the table and what it returns to
  `Handle`, for a write that is stored, one without an answer (whose item is stored sooner or
  later or never), one that DynamoDB refuses, or one not attempted because `NewEvent` failed.
- **KMS** is key resolution, the kinds of keys the signer takes, and the algorithm it asks
  for. What KMS itself does with them is modelled from how `kms.go` uses it.
- **Handler** composes them. Per container: `loaded`, its configuration, and `job`, the call
  it serves. Per call: `pc`, `input`, `cert`, `verdict`, `reply`. Shared: `table`, `signed`
  (every signature KMS ever made), `target` (the aliases) and `deployed`; and on the network,
  `puts` and `asks`, the PutItem and Sign requests that have no answer and that DynamoDB and
  KMS may carry out at any time from then on, whether or not their call still waits.
- **Issuance** is what the authority promises of a call, without containers, configurations or
  keys: admitted, recorded, asked for, signed, approved, granted or refused, and the order
  between them. A record or a signature may come late; asking for a signature may not.
- **LocalCA** is the binary on the command line: processes that load a configuration, read a
  CA key file, call `Handle` with a local signer and no audit, and print to a file or to their
  standard output, any of which may fail or be killed, while somebody replaces the key file.
  Its runs of `sign` implement Issuance too, as calls under no audit.
- **Startup** is one cold start: the configuration file line by line, the environment in any
  order, defaults, validation, then `mustSigner` and `mustAuditRepo`. A setting is a pair of a
  section and a key; what Go's string and number functions make of a text are functions. The
  reference it is checked against (`Effective`) looks at the sources as a whole.
- **HandlerInv** is the inductive invariant of Handler; **PolicyProofs**, **HandlerProofs**,
  **RefinementProofs**, **IssuanceProofs**, **EvaluatorProofs**, **LocalCAProofs** and
  **StartupProofs** are the proofs.

A cold start of Startup is Handler's `ColdStart` in detail: Handler takes its configurations from
the set `Configs`, of which it assumes what Startup shows of every configuration that serves
(`ServesWithinBounds`). Startup's actions are `FindFile`, `ReadError`, `ReadLine` and
`EndOfFile` (`loadFile`), `ReadVariable` (one turn of the loop of `applyEnv`), `Validate`
(`defaultConfig` and `validate`), `Start` and `AWSConfigFails` (`mustSigner`,
`mustAuditRepo`).

How Handler's actions correspond to the code:

| Action | Code |
|---|---|
| `ColdStart` | `runLambda`: `Load`, `mustSigner`, `mustAuditRepo` |
| `Invoke`, `InvokeMalformed` | `LambdaHandler`, with a body that decodes or does not |
| `WriteRequestEvent` | `NewEvent` and the first `audit.Write` of `Handle` |
| `PolicyFails`, `Deny` | the error and the denial of `Evaluate` |
| `RejectCert`, `BuildCert` | the approval and `cert.Sign` up to `s.Sign(cert)` |
| `FetchKey`, `FetchFails` | `KMSSigner.Sign` up to the switch on the key's type |
| `Sign`, `AskUnanswered`, `SignFails` | `SignCert`, `kmsCryptoSigner.Sign` and the SDK's attempts |
| `WriteResultEvent` | `writeAuditResult[Checked]` and the choice of the response |
| `Deliver` | the return from `LambdaHandler` |
| `SignLate`, `StoreLate` | KMS and DynamoDB, for a request that was given up |
| `Kill`, `Deploy`, `Repoint` | Lambda, the operator, the owner of an alias |

How LocalCA's do:

| Action | Code |
|---|---|
| `Launch` | `main`'s choice of the subcommand, in the development build or the production one |
| `Load` | the flags of `RunSign` and `RunCAPubKey`, and `config.Load` |
| `ReadKey` | `buildLocalSigner` and `NewLocalSigner` |
| `MakeCert` | `Handle` with a `NoopRepository`, and `LocalSigner.Sign` |
| `Create`, `WriteLine`, `WriteCut` | `os.Create` and the `fmt.Fprint` after it, whole or cut short |
| `Fail` | every error return up to there, which `main` makes an exit status of 1 |
| `Kill`, `ReplaceKey` | the operating system, the owner of the key file |

A step of `Handle` between two effects on the outside touches nothing another process can
see, so it is joined to the effect that follows it.

Definitions marked *Mutant* are not part of the system: each is a plausible bug in the
definition below it, and TLC finds the property `PROJECT.json` names violated when it takes
that definition's place. They show that the properties can fail.

## The runs

| Run | Instance | States | What it shows |
|---|---|---|---|
| `evaluator` | 48 configurations, 4 callers, requests at every boundary | 44,544 | policy and cert.Sign agree and stay within the policy; lifetimes are exact unless they may wrap; key sizes are those of the modulus; a looser configuration approves more |
| `handler_one_call` | 1 call, 1 container, 4 configurations, 4 keys of 3 kinds, 1 alias, 2 serials and the 0 | 144,352 | what is signed and handed out, across deployments, kills, retries and requests carried out late; every call ends; fail-open loses no certificate |
| `handler_two_calls` | 2 calls, 2 containers, 2 configurations, 2 keys, 1 serial and the 0, at most 2 requests given up and under way | 738,788 | the audit trail and the answers are true, the inductive invariant, and that Handler implements Issuance |
| `startup` | 146 files, 45 environments | 198,785 | the loaded configuration is the effective one, and just the valid ones load |
| `local_ca` | 2 runs of 8 command lines, 1 key path with 5 files, 1 output file | 38,465 | what the command line signs and leaves in its output file; every run ends; LocalCA implements Issuance |

and seven runs in which TLC finds a document's statement violated by the code, below.

*Bounds.* Nothing in the models counts up, so the constants are the only bounds but for one:
`handler_two_calls` leaves out the states with more than `MaxUnderWay` = 2 requests in `puts` and
`asks` together (`FewUnderWay` in MCHandler, a constraint), which is enough for a late event and a
late signature, or for one of each call. `handler_one_call` has no such bound. In Evaluator, lists
of principals have up to two names of six, which is enough for a duplicate, a second name that is
privileged, unlisted or invalid, and either order; TTLs run from -1 to 21 with `Second` = 2 and
`Int64Max` = 15, so that durations fit, wrap to a negative number and wrap to a positive one, and
lie on either side of `maxTTL`; RSA moduli have 1024, 2047, 2048, 3071 and 3072 bits, with and
without a sign byte, against minima of 2048 and 3072, so that a bit more or less would be seen. In
Handler a call interacts with another only through the containers and the shared stores, which are
kept apart by call; two calls in two containers, with two configurations that differ in audit mode
and key, meet all the ways they can. One alias among keys of one kind, another kind and an
unsupported kind gives every outcome of a moved alias. The numbers `randomSerial` may draw include
the 0 it must draw again. Symmetry in calls and containers is used in the safety runs only. In
Startup the files that load are followed by up to two more lines, which is enough to repeat or
break a setting, to leave its section, and to do one of them after another; two variables are
enough to meet in either order under one setting or two. In LocalCA two runs are enough for one to
write over what the other wrote, or is writing: lines are of one or two blocks, the shorter over
the longer and the other way round.

*Fairness.* Handler's `LiveSpec` assumes that a call which has a step to take takes one (Lambda
runs a container that has an event, the AWS SDK's attempts are bounded) and that a response is
handed back. It does not assume that containers start, that calls come, or that anything
succeeds; and `Kill` may come at any time, which is how Lambda's own timeout appears: the
liveness properties therefore end in an answer or in a killed container. LocalCA's assumes that
the operating system runs a process until it exits or is killed; it does not assume that
commands are started or keys replaced.

## What the runs find

- `finding_alias`: with an alias for `kms_key_id`, moving it between the two KMS calls of one
  signature gives out a certificate that names one key and is signed by another
  (`CertificateVerifies`). With a key, `DirectKeyVerifies` holds.
- `finding_denials`: the events of denials and signing errors may be lost under fail-closed
  (`RejectionsAudited`): their write errors are dropped. An event that may still be stored is
  not held against the code.
- `finding_ttl`: with a `max_ttl` over 292 years, a TTL within it may wrap around
  (`TTLNotTruncated`). `LifetimeWithinMax` holds even then, and under a `max_ttl` that fits a
  `time.Duration` the lifetime is exact (`ExactWhenMaxTTLFits`).
- `finding_default_ttl`: a request without a TTL is denied; `default_ttl` is never used
  (`OmittedTTLGetsDefault`).
- `finding_signer`: `signer_type` does not decide which signer is used, as the comment in
  `config.go` has it: with `rsa` and a KMS key, the KMS key signs (`SignerTypeDecides`).
- `finding_binding`: the binding of callers to names asks that one of the principals be the
  caller's name, not all of them (`CallerGetsOwnNameOnly`).
- `finding_certified_key`: of an RSA key that is itself in a certificate, the parser reads the
  exponent for the modulus, so that a long one is denied as too small (`TooSmallIsShort`). An
  exponent has at most 24 bits, so that it errs to this side only: `KeyLongEnough` holds. Of a
  plain key it errs to neither side (`RefusedKeyIsShort`). A modulus of 0, which counts 0 bits
  and which neither check refuses, is outside `KeyLongEnough`.

## What is proved

For any values of the constants that satisfy the assumptions on them (`SecondAssumption`,
`PolicyAssumption`, `KMSAssumption`, and each module's own), of Handler:

- `Invariance`: `IInv` is an invariant of `Spec`;
- `TypeCorrect`, `SignedAfterRecord`, `DeliveredAfterRecord`, `TruthOfResults`, `TruthOfAnswers`,
  `SerialsTellApprovals`, `OneCertificatePerCall`, `RequestPrecedesResult`, `FailOpenDelivered`,
  `DirectKeySigns`, `SignaturesWithinPolicy`: all the safety properties of the Handler runs, from
  it;
- `Implements`: Handler implements Issuance, from the same invariant, action by action;
- `Accountability` (IssuanceProofs): what Issuance promises adds up, with no assumption at all;
  `CallsAccountedFor` (RefinementProofs) carries it over to Handler's calls;

of Evaluator, all its properties: `TypeInvariant`, `ApprovalBuilds`, `LifetimeBounded`,
`LifetimeExact`, `KeysLongEnough`, `NoLongKeyRefused`, `PrivilegedListed`,
`PrincipalsStandAlone`, `SpellingIrrelevant`, `LooserIsMonotone`;

of LocalCA, all but that its runs end: `TypeInvariant`, `LocalPolicyHolds`,
`OutputBeginsWhole`, `OutputNeedsCertificate`, `Implements`;

of Startup, all its properties: `TypeInvariant`, `EffectiveIsLoaded`, `ListsAreComplete`,
`JustValidLoads` and `ServingIsChecked`, for any sources and any order of the variables.

*The arguments.* In Handler, none of the safety properties is inductive: that a signature's
request is on record says nothing of the call about to be signed for. `IInv` adds what makes it
so, one call at a time: what a call has at each stage (`Staged`), how its certificate, verdict and
response depend on each other, and which signature an approval goes back to (`Settled`), that its
certificate can be derived from its input (`Derived`), what is on record for it (`OnRecord`), and
what an item of the table, a signature or a request under way presupposes (`Explained`,
`Founded`). An item or a signature that is carried out late was founded when it was asked for, and
nothing takes a foundation away: `RemoteStep` is that argument, for the steps KMS and DynamoDB
take by themselves. `JobInv` says that a call has one container, which is what keeps a killed
container from ending somebody else's call. A step changes one call at most, and `CallInvFrame`
shows that the others keep their part whatever that step adds to the shared stores; so each action
needs a proof about one call. The types of built certificates rest on `PolicyProofs`: an approved
request passes every check, so its first principal and type are such as a key ID can have.

`Implements` maps a stage of a call to the sets it is in (`AdmittedCalls` and its siblings in
Handler). Actions that a single call takes become its step in Issuance; those that only a
container or the operator takes, and events no promise is about, become stutters.

LocalCA has the same argument for one process: `Staged` is what a run has in each stage, `Made`
how its certificate is derived from its command line and its key. That an output file begins
with one run's whole line rests on `OutputInv`: outputs are sequences of blocks, and a write
goes over the start of what is there. Nothing says that it ends with that line: the tail of a
longer one, written by a run that had opened the file too, may follow it.

Decisions have no history, so Evaluator's invariant says only that its outcome is the decision on
its request, with the reason of the first check that fails if it is a denial. What there is to
prove is in the operators, and is shared: a request that is approved passes each check
(`PolicyProofs`); a product that wraps is not above itself, so no lifetime is above the TTL, and
one that does not wrap is a whole number of seconds, the TTL's; the bits of a number depend on its
bytes and its first byte alone, so what the parser finds behind a sign byte are the bits of the
modulus; and a permutation of principals has the same set of folded names and no more duplicates.
A looser configuration fails none of the checks that the tighter one passes, taken one at a time:
for the allowlist this needs both to have one or neither, since a list may name system accounts
and the check without a list turns them away.

In Startup, `Loading` is the invariant: before validation a scalar has the value of one of the
variables applied, else of the last line read for it, else zero; no line or variable so far
was malformed; and what was refused was refused for a reason. `SectionAfter` ties the section
the loop keeps to that of the last header above a line. Once all is read this is the effective
configuration, and, if no two variables differ in spelling only, it is valid just when the
loaded one is. For lists, `ListsSoFar` says of what is read so far what `ListsAddUp` says of
the whole: a list is that of a variable applied, else it is made of the lines read for it.
That it is so made is not stated with a fold over the lines, which would ask for an induction,
but with the place in the list where each line's items start (`MadeOf`): a line added puts its
items behind the rest and moves no other, which is one step of the loop.

*Only model-checked*: the liveness properties (`EveryCallEnds`, `FailOpenDelivers`,
`EveryRunEnds`), which are out of the prover's reach.

## What is left out, and why

- The unlikely errors of `crypto/rand` are kept as faults, because the code has paths for
  them, though current Go versions never return them. The random parts of key IDs and event
  IDs are taken to be unique.
- A nil request, decision or certificate: no caller in the repository produces one, and the
  code answers them like the error next to them.
- `PublicKey` of the KMS signer, which nothing in the program calls, redaction, the expiry
  attribute of audit items, log output and error texts (`internal/log`, `internal/errs`).
- Which texts parse as keys or CIDRs are inputs, and the parts of an ARN are given apart.
- Passphrases of key files, which no command takes; `private_key_b64` and
  `encrypted_password`, which start-up checks or stores and no signer reads.
- The resource definitions of Terraform and the generator of golden test data.
- In Startup, `TrimSpace`, `ToLower`, `Atoi`, `ParseBool` and base64/PEM decoding are functions
  given by the instance, variables whose names have fewer than two parts are left out, and
  the warning about fail-open is log output.

## What could come next

Every part of the program that changes state on its own is modelled. What is left is detail
the models take as given: the text formats (`ParseRawPrivateKey`, `ParseAuthorizedKey`, the
lines of a configuration file below the level of sections and pairs) and the attributes of audit
items.
