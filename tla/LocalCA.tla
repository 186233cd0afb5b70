------------------------------ MODULE LocalCA ------------------------------
(***************************************************************************)
(* The binary as a command: `gobless sign` and `gobless ca-pubkey`, each   *)
(* run a process of its own, with a CA key in a file that may be replaced  *)
(* meanwhile and an output file that other runs may be writing to.         *)
(* (`gobless lambda` is Startup.)                                          *)
(*                                                                         *)
(* A run's command line is [build, cmd, config, req, out, size]: the       *)
(* binary that runs, the subcommand, the configuration that config.Load    *)
(* makes of -config (NoConfig for a missing flag), the request its flags   *)
(* and the public key file stand for, the path after -out or Stdout, and   *)
(* the number of blocks that what it prints takes.  A configuration has,   *)
(* besides the fields of Policy, keyFile: a path, or NoPath when it is     *)
(* empty.  A key file is [pem, encrypted, kind, key] or NoFile.            *)
(***************************************************************************)
EXTENDS Policy

CONSTANTS
    Runs,              \* processes
    CommandLines,      \* what they may be started with
    KeyPaths,          \* the paths of CA keys
    OutPaths,          \* the paths of output files
    KeyFiles,          \* what may be in a key file
    Username,          \* the name of the user who runs them, or "unknown"
    NoConfig, NoPath, NoFile, Stdout,
    None               \* no key, no certificate, no exit status

LocalKeys == {file.key : file \in KeyFiles \ {NoFile}}

\* What cert.Sign makes of a request with a LocalSigner, under a serial and
\* a nonce that no other run draws.
Certified(req, p, key) ==
    SignedBy(Naming(Build(Decision(req, p), p), key), key)

ASSUME LocalAssumption ==
    /\ \A a \in CommandLines :
          /\ a.cmd \in {"sign", "ca-pubkey", "version", "help", "unknown"}
          /\ a.size \in Nat \ {0}
          /\ a.out \in OutPaths \cup {Stdout}
          /\ a.req.ttl \in Int /\ a.req.principals \in Seq(DOMAIN Fold)
          /\ a.config # NoConfig =>
                /\ ValidConfig(a.config) /\ a.config.maxTTL \in Int
                /\ a.config.keyFile \in KeyPaths \cup {NoPath}
    /\ Runs \cap OutPaths = {}
    /\ Stdout \notin OutPaths
    /\ NoPath \notin KeyPaths
    /\ None \notin LocalKeys /\ None \notin {0, 1, 2}
    /\ \A a \in CommandLines, p \in Runs, key \in LocalKeys :
          a.req.principals # <<>> => Certified(a.req, p, key) # None

VARIABLES
    keyFile,           \* path -> what the CA key file there holds
    output,            \* path or run, for its stdout -> the blocks in it
    pc,                \* run -> what it does next
    args,              \* run -> its command line
    signer,            \* run -> the key its LocalSigner holds, or None
    cert,              \* run -> the certificate it made, or None
    status,            \* run -> its exit status, or None
    cut                \* the runs whose output did not fit

vars == <<keyFile, output, pc, args, signer, cert, status, cut>>

Stages == {"new", "load", "key", "handle", "create", "write", "exited", "killed"}

Init ==
    /\ keyFile \in [KeyPaths -> KeyFiles]
    /\ output = [t \in OutPaths \cup Runs |-> <<>>]
    /\ pc = [p \in Runs |-> "new"]
    /\ args \in [Runs -> CommandLines]
    /\ signer = [p \in Runs |-> None]
    /\ cert = [p \in Runs |-> None]
    /\ status = [p \in Runs |-> None]
    /\ cut = {}

Goto(p, from, to) ==
    /\ pc[p] = from
    /\ pc' = [pc EXCEPT ![p] = to]

Exit(p, code) ==
    /\ pc' = [pc EXCEPT ![p] = "exited"]
    /\ status' = [status EXCEPT ![p] = code]
-----------------------------------------------------------------------------
(* The local signer.                                                       *)

\* parsePrivateKeyBytes, and ParseRawPrivateKey for OpenSSH: the kinds of
\* keys each type of PEM block may hold.
KindsIn(pem) ==
    CASE pem = "OPENSSH PRIVATE KEY" -> {"rsa", "p256", "p384", "p521", "ed25519"}
      [] pem = "RSA PRIVATE KEY"     -> {"rsa"}
      [] pem = "EC PRIVATE KEY"      -> {"p224", "p256", "p384", "p521"}
      [] pem = "PRIVATE KEY"         -> {"rsa", "p224", "p256", "p384", "p521",
                                         "ed25519", "x25519"}
      [] OTHER                       -> {}

\* NewSignerFromKey takes the kinds SSH has a format for.
SSHKinds == {"rsa", "p256", "p384", "p521", "ed25519"}

\* NewLocalSigner without a passphrase.
Loads(file) ==
    /\ file # NoFile
    /\ ~file.encrypted
    /\ file.kind \in KindsIn(file.pem) \cap SSHKinds
-----------------------------------------------------------------------------
(* The commands.                                                           *)

\* What main makes of a command line without looking at any file.
ExitsAtOnce(a) ==
    a.cmd \in {"version", "help", "unknown"} \/ a.build = "production"

ExitCode(a) == IF a.cmd \in {"version", "help"} THEN 0 ELSE 2

Launch(p) ==
    /\ pc[p] = "new"
    /\ IF ExitsAtOnce(args[p])
       THEN Exit(p, ExitCode(args[p]))
       ELSE Goto(p, "new", "load") /\ UNCHANGED status
    /\ UNCHANGED <<keyFile, output, args, signer, cert, cut>>

Load(p) ==
    /\ args[p].config # NoConfig
    /\ Goto(p, "load", "key")
    /\ UNCHANGED <<keyFile, output, args, signer, cert, status, cut>>

\* Mutant: sign needs no certificate to go on to its output.
ReadKeyAndWrite(p) ==
    LET path == args[p].config.keyFile
    IN  /\ Goto(p, "key", "write")
        /\ path # NoPath
        /\ Loads(keyFile[path])
        /\ signer' = [signer EXCEPT ![p] = keyFile[path].key]
        /\ UNCHANGED <<keyFile, output, args, cert, status, cut>>

\* Mutant: ca-pubkey goes on without the key.
ReadKeyForSign(p) ==
    LET path == args[p].config.keyFile
    IN  /\ Goto(p, "key", IF args[p].cmd = "sign" THEN "handle" ELSE "write")
        /\ path # NoPath
        /\ Loads(keyFile[path])
        /\ signer' = [signer EXCEPT ![p] =
                          IF args[p].cmd = "sign" THEN keyFile[path].key ELSE @]
        /\ UNCHANGED <<keyFile, output, args, cert, status, cut>>

\* buildLocalSigner: the key file is read, once.
ReadKey(p) ==
    LET path == args[p].config.keyFile
    IN  /\ Goto(p, "key", IF args[p].cmd = "sign" THEN "handle" ELSE "write")
        /\ path # NoPath
        /\ Loads(keyFile[path])
        /\ signer' = [signer EXCEPT ![p] = keyFile[path].key]
        /\ UNCHANGED <<keyFile, output, args, cert, status, cut>>

LocalCaller == [arn |-> <<"local">>, account |-> "local", username |-> Username]

Signed(p) == Certified(args[p].req, p, signer[p])

\* Mutant: sign calls cert.Sign and not the handler.
MakeCertUnasked(p) ==
    /\ Goto(p, "handle", IF args[p].out = Stdout THEN "write" ELSE "create")
    /\ ~Rejects(Decision(args[p].req, p))
    /\ cert' = [cert EXCEPT ![p] = Signed(p)]
    /\ UNCHANGED <<keyFile, output, args, signer, status, cut>>

\* Handle with a NoopRepository, whose every effect is inside the process.
MakeCert(p) ==
    /\ Goto(p, "handle", IF args[p].out = Stdout THEN "write" ELSE "create")
    /\ Approves(args[p].config, LocalCaller, args[p].req)
    /\ ~Rejects(Decision(args[p].req, p))
    /\ cert' = [cert EXCEPT ![p] = Signed(p)]
    /\ UNCHANGED <<keyFile, output, args, signer, status, cut>>

\* Mutant: the output file is opened before there is anything to put in it.
CreateEarly(p) ==
    /\ pc[p] \in {"handle", "create"}
    /\ args[p].out # Stdout
    /\ pc' = [pc EXCEPT ![p] = IF pc[p] = "create" THEN "write" ELSE "handle"]
    /\ output' = [output EXCEPT ![args[p].out] = <<>>]
    /\ UNCHANGED <<keyFile, args, signer, cert, status, cut>>

\* os.Create: the file is there and empty, whatever it was.
Create(p) ==
    /\ Goto(p, "create", "write")
    /\ output' = [output EXCEPT ![args[p].out] = <<>>]
    /\ UNCHANGED <<keyFile, args, signer, cert, status, cut>>

\* ca-pubkey has no -out.
Target(p) ==
    IF args[p].cmd = "ca-pubkey" \/ args[p].out = Stdout THEN p ELSE args[p].out

\* What a run prints: blocks that tell whose they are.
Line(p) == [i \in 1 .. args[p].size |-> <<p, i>>]

\* A write at the start of a file leaves what is behind it.
Overlay(blocks, old) == blocks \o SubSeq(old, Len(blocks) + 1, Len(old))

\* Mutant: the line is written in two pieces.
WriteInPieces(p) ==
    LET blocks == Line(p)
        some == SubSeq(blocks, 1, 1)
        rest == \E i \in DOMAIN output[Target(p)] : output[Target(p)][i] = <<p, 1>>
    IN  /\ pc[p] = "write"
        /\ output' = [output EXCEPT ![Target(p)] =
                          Overlay(IF rest THEN blocks ELSE some, @)]
        /\ IF rest THEN Exit(p, 0) ELSE UNCHANGED <<pc, status>>
        /\ UNCHANGED <<keyFile, args, signer, cert, cut>>

\* fmt.Fprint: one write of the whole line.
WriteLine(p) ==
    /\ pc[p] = "write"
    /\ output' = [output EXCEPT ![Target(p)] = Overlay(Line(p), @)]
    /\ Exit(p, 0)
    /\ UNCHANGED <<keyFile, args, signer, cert, cut>>

\* The write fails after n blocks, and nobody looks at its error.
WriteCut(p, n) ==
    /\ pc[p] = "write"
    /\ output' = [output EXCEPT ![Target(p)] = Overlay(SubSeq(Line(p), 1, n), @)]
    /\ cut' = cut \cup {p}
    /\ Exit(p, 0)
    /\ UNCHANGED <<keyFile, args, signer, cert>>

\* Mutant: an error of the signer has no branch of its own.
FailElsewhere(p) ==
    /\ pc[p] \in {"load", "handle", "create"}
    /\ Exit(p, 1)
    /\ UNCHANGED <<keyFile, output, args, signer, cert, cut>>

\* An error on the way: of a flag, a file, the key, the policy, cert.Sign or
\* a source of random bytes.
Fail(p) ==
    /\ pc[p] \in {"load", "key", "handle", "create"}
    /\ Exit(p, 1)
    /\ UNCHANGED <<keyFile, output, args, signer, cert, cut>>

Kill(p) ==
    /\ pc[p] \notin {"new", "exited", "killed"}
    /\ pc' = [pc EXCEPT ![p] = "killed"]
    /\ UNCHANGED <<keyFile, output, args, signer, cert, status, cut>>

\* Somebody puts another key, or none, in the place of a key file.
ReplaceKey(path, file) ==
    /\ keyFile' = [keyFile EXCEPT ![path] = file]
    /\ UNCHANGED <<output, pc, args, signer, cert, status, cut>>

Step(p) ==
    \/ Load(p) \/ ReadKey(p) \/ MakeCert(p) \/ Create(p) \/ WriteLine(p) \/ Fail(p)
    \/ \E n \in 0 .. args[p].size - 1 : WriteCut(p, n)

Next ==
    \/ \E p \in Runs : Launch(p) \/ Step(p) \/ Kill(p)
    \/ \E path \in KeyPaths, file \in KeyFiles : ReplaceKey(path, file)

Spec == Init /\ [][Next]_vars

\* The operating system runs a process until it exits or is killed.
LiveSpec == Spec /\ \A p \in Runs : WF_vars(Step(p))
-----------------------------------------------------------------------------
\* The values the variables take, and when a run has a key, a certificate and
\* an exit status.
TypeOK ==
    /\ keyFile \in [KeyPaths -> KeyFiles]
    /\ DOMAIN output = OutPaths \cup Runs
    /\ pc \in [Runs -> Stages]
    /\ args \in [Runs -> CommandLines]
    /\ signer \in [Runs -> LocalKeys \cup {None}]
    /\ DOMAIN cert = Runs
    /\ status \in [Runs -> {0, 1, 2, None}]
    /\ cut \subseteq Runs
    /\ \A p \in Runs :
          /\ status[p] # None <=> pc[p] = "exited"
          /\ pc[p] \in {"handle", "create", "write"} => signer[p] # None
          /\ cert[p] # None => signer[p] # None
          /\ pc[p] = "create" => cert[p] # None

(***************************************************************************)
(* The command line is under the policy too: what the local key signs is   *)
(* within the configuration of its run, for the user who runs it.          *)
(***************************************************************************)
MadeWithinPolicy ==
    \A p \in Runs : cert[p] # None =>
        WithinPolicy(args[p].config, LocalCaller, cert[p])

(***************************************************************************)
(* Whoever else is writing to it, or is killed doing so, an output file    *)
(* begins with all that one run prints, or is empty; unless the write of   *)
(* that run failed.                                                        *)
(***************************************************************************)
BeginsWhole ==
    \A f \in OutPaths : output[f] # <<>> =>
        \E p \in Runs : /\ output[f][1] = <<p, 1>>
                        /\ p \in cut \/ IsPrefix(Line(p), output[f])

(***************************************************************************)
(* A run that comes to nothing leaves the certificate of an earlier one    *)
(* alone: a file is only opened for a certificate already made.            *)
(***************************************************************************)
OutputOnlyForCertificate ==
    [][\A f \in OutPaths : output'[f] # output[f] =>
          \E p \in Runs : /\ pc[p] \in {"create", "write"}
                          /\ args[p].out = f
                          /\ cert[p] # None]_vars

\* A run that got past its command line exits, unless it is killed.
EveryRunEnds ==
    \A p \in Runs : pc[p] = "load" ~> pc[p] \in {"exited", "killed"}
-----------------------------------------------------------------------------
(* The runs of sign keep Issuance's promise, as calls that come under no   *)
(* audit: a certificate is handed out only once it is signed, and a run    *)
(* that was refused never has one.                                         *)

AdmittedRuns ==
    {p \in Runs : args[p].cmd = "sign" /\ pc[p] # "new" /\ status[p] # 2}
SignedRuns == {p \in Runs : cert[p] # None}
GrantedRuns == {p \in Runs : args[p].cmd = "sign" /\ status[p] = 0}
RefusedRuns == {p \in Runs : args[p].cmd = "sign" /\ status[p] \in {1, 2}}

Promise ==
    INSTANCE Issuance WITH
        Calls <- Runs, admitted <- AdmittedRuns, promised <- {},
        recorded <- {}, asked <- SignedRuns, signed <- SignedRuns,
        approved <- {}, granted <- GrantedRuns, refused <- RefusedRuns

\* Every behaviour of the command line is one that Issuance allows.
RunsKeepPromise == Promise!Spec
=============================================================================
