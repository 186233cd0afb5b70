--------------------------- MODULE LocalCAProofs ---------------------------
(***************************************************************************)
(* Proofs about LocalCA, for any number of runs, files and keys.           *)
(***************************************************************************)
EXTENDS LocalCA, PolicyProofs

(***************************************************************************)
(* The inductive invariant: what a run has at each stage, and where its    *)
(* certificate comes from.                                                 *)
(***************************************************************************)
Staged(p) ==
    /\ pc[p] \in {"load", "key", "handle", "create", "write"} =>
          args[p].cmd \in {"sign", "ca-pubkey"}
    /\ pc[p] \in {"key", "handle", "create", "write"} => args[p].config # NoConfig
    /\ pc[p] \in {"new", "load", "key", "handle"} => cert[p] = None
    /\ pc[p] = "handle" => args[p].cmd = "sign"
    /\ pc[p] = "create" => args[p].cmd = "sign" /\ args[p].out \in OutPaths
    /\ pc[p] = "write" /\ args[p].cmd = "sign" => cert[p] # None
    /\ status[p] = 0 /\ args[p].cmd = "sign" => cert[p] # None

Made(p) ==
    cert[p] # None =>
        /\ signer[p] \in LocalKeys
        /\ cert[p] = Signed(p)
        /\ args[p].config # NoConfig
        /\ Approves(args[p].config, LocalCaller, args[p].req)
        /\ ~Rejects(Decision(args[p].req, p))

IInv == TypeOK /\ \A p \in Runs : Staged(p) /\ Made(p)

\* What a step does to the files does not matter to IInv.
callVars == <<pc, args, signer, cert, status>>

LEMMA InitIInv == Init => IInv
<1> SUFFICES ASSUME Init PROVE IInv
    OBVIOUS
<1>1. TypeOK
    BY LocalAssumption DEF Init, TypeOK, Stages
<1>2. \A p \in Runs : Staged(p) /\ Made(p)
    BY LocalAssumption DEF Init, Staged, Made
<1>3. QED
    BY <1>1, <1>2 DEF IInv

\* A run starts, or ends at once.
LEMMA LaunchIInv == ASSUME IInv, NEW p \in Runs, Launch(p) PROVE IInv'
<1>1. args[p] \in CommandLines
    BY DEF IInv, TypeOK
<1>2. CASE ExitsAtOnce(args[p])
    <2>1. /\ pc' = [pc EXCEPT ![p] = "exited"]
          /\ status' = [status EXCEPT ![p] = ExitCode(args[p])]
          /\ UNCHANGED <<keyFile, output, args, signer, cert, cut>>
        BY <1>2 DEF Launch, Exit
    <2>2. ExitCode(args[p]) \in {0, 2} /\ (args[p].cmd = "sign" => ExitCode(args[p]) = 2)
        BY DEF ExitCode
    <2>3. pc[p] = "new"
        BY DEF Launch
    <2>4. TypeOK'
        BY <2>1, <2>2, <2>3, LocalAssumption DEF IInv, TypeOK, Stages
    <2>5. ASSUME NEW q \in Runs PROVE Staged(q)' /\ Made(q)'
        BY <2>1, <2>2, <2>3 DEF IInv, TypeOK, Staged, Made, Signed
    <2>6. QED
        BY <2>4, <2>5 DEF IInv
<1>3. CASE ~ExitsAtOnce(args[p])
    <2>1. /\ pc[p] = "new"
          /\ pc' = [pc EXCEPT ![p] = "load"]
          /\ UNCHANGED <<keyFile, output, args, signer, cert, status, cut>>
        BY <1>3 DEF Launch, Goto
    <2>2. args[p].cmd \in {"sign", "ca-pubkey"}
        BY <1>1, <1>3, LocalAssumption DEF ExitsAtOnce
    <2>3. TypeOK'
        BY <2>1 DEF IInv, TypeOK, Stages
    <2>4. ASSUME NEW q \in Runs PROVE Staged(q)' /\ Made(q)'
        BY <2>1, <2>2 DEF IInv, TypeOK, Staged, Made, Signed
    <2>5. QED
        BY <2>3, <2>4 DEF IInv
<1>4. QED
    BY <1>2, <1>3

\* config.Load comes back.
LEMMA LoadIInv == ASSUME IInv, NEW p \in Runs, Load(p) PROVE IInv'
<1>1. /\ pc[p] = "load" /\ args[p].config # NoConfig
      /\ pc' = [pc EXCEPT ![p] = "key"]
      /\ UNCHANGED <<keyFile, output, args, signer, cert, status, cut>>
    BY DEF Load, Goto
<1>2. TypeOK'
    BY <1>1 DEF IInv, TypeOK, Stages
<1>3. ASSUME NEW q \in Runs PROVE Staged(q)' /\ Made(q)'
    BY <1>1 DEF IInv, TypeOK, Staged, Made, Signed
<1>4. QED
    BY <1>2, <1>3 DEF IInv

\* A run gets its key, which it keeps.
LEMMA ReadKeyIInv == ASSUME IInv, NEW p \in Runs, ReadKey(p) PROVE IInv'
<1> DEFINE path == args[p].config.keyFile
           key  == keyFile[path].key
<1>1. /\ pc[p] = "key" /\ path # NoPath /\ Loads(keyFile[path])
      /\ pc' = [pc EXCEPT ![p] = IF args[p].cmd = "sign" THEN "handle" ELSE "write"]
      /\ signer' = [signer EXCEPT ![p] = key]
      /\ UNCHANGED <<keyFile, output, args, cert, status, cut>>
    BY DEF ReadKey, Goto
<1>2. key \in LocalKeys
    <2>1. args[p] \in CommandLines /\ args[p].config # NoConfig
        BY <1>1 DEF IInv, TypeOK, Staged
    <2>2. path \in KeyPaths
        BY <1>1, <2>1, LocalAssumption
    <2>3. keyFile[path] \in KeyFiles \ {NoFile}
        BY <1>1, <2>2 DEF IInv, TypeOK, Loads
    <2>4. QED
        BY <2>3 DEF LocalKeys
<1> HIDE DEF key, path
<1>3. key # None
    BY <1>2, LocalAssumption
<1>4. TypeOK'
    BY <1>1, <1>2, <1>3 DEF IInv, TypeOK, Stages
<1>5. ASSUME NEW q \in Runs PROVE Staged(q)' /\ Made(q)'
    <2>1. CASE q = p
        BY <1>1, <2>1 DEF IInv, TypeOK, Staged, Made
    <2>2. CASE q # p
        BY <1>1, <2>2 DEF IInv, TypeOK, Staged, Made, Signed
    <2>3. QED
        BY <2>1, <2>2
<1>6. QED
    BY <1>4, <1>5 DEF IInv

\* The handler approves, and the local key signs.
LEMMA MakeCertIInv == ASSUME IInv, NEW p \in Runs, MakeCert(p) PROVE IInv'
<1>1. /\ pc[p] = "handle"
      /\ pc' = [pc EXCEPT ![p] = IF args[p].out = Stdout THEN "write" ELSE "create"]
      /\ cert' = [cert EXCEPT ![p] = Signed(p)]
      /\ UNCHANGED <<keyFile, output, args, signer, status, cut>>
    BY DEF MakeCert, Goto
<1>2. /\ Approves(args[p].config, LocalCaller, args[p].req)
      /\ ~Rejects(Decision(args[p].req, p))
    BY DEF MakeCert
<1>3. args[p] \in CommandLines /\ args[p].cmd = "sign" /\ args[p].config # NoConfig
    BY <1>1 DEF IInv, TypeOK, Staged
<1>4. signer[p] \in LocalKeys
    BY <1>1 DEF IInv, TypeOK
<1>5. Signed(p) # None
    <2>1. args[p].req.principals # <<>>
        BY <1>2, ApprovedPasses
    <2>2. \A a \in CommandLines, q \in Runs, key \in LocalKeys :
              a.req.principals # <<>> => Certified(a.req, q, key) # None
        BY LocalAssumption, Zenon
    <2>3. QED
        BY <1>3, <1>4, <2>1, <2>2, Zenon DEF Signed
<1>6. args[p].out # Stdout => args[p].out \in OutPaths
    BY <1>3, LocalAssumption
<1>7. Signed(p)' = Signed(p)
    BY <1>1 DEF Signed
<1>8. cert'[p] = Signed(p) /\ \A q \in Runs : q # p => cert'[q] = cert[q]
    BY <1>1 DEF IInv, TypeOK
<1>9. TypeOK'
    BY <1>1, <1>4, <1>5, <1>8 DEF IInv, TypeOK, Stages
<1>10. ASSUME NEW q \in Runs PROVE Staged(q)' /\ Made(q)'
    <2>1. CASE q = p
        <3>1. Staged(p)'
            BY <1>1, <1>3, <1>5, <1>6, <1>8 DEF IInv, TypeOK, Staged
        <3>2. Made(p)'
            BY <1>1, <1>2, <1>3, <1>4, <1>7, <1>8 DEF Made
        <3>3. QED
            BY <2>1, <3>1, <3>2
    <2>2. CASE q # p
        BY <1>1, <1>8, <2>2 DEF IInv, TypeOK, Staged, Made, Signed
    <2>3. QED
        BY <2>1, <2>2
<1>11. QED
    BY <1>9, <1>10 DEF IInv

\* The output file is opened.
LEMMA CreateIInv == ASSUME IInv, NEW p \in Runs, Create(p) PROVE IInv'
<1>1. /\ pc[p] = "create"
      /\ pc' = [pc EXCEPT ![p] = "write"]
      /\ output' = [output EXCEPT ![args[p].out] = <<>>]
      /\ UNCHANGED <<keyFile, args, signer, cert, status, cut>>
    BY DEF Create, Goto
<1>2. TypeOK'
    BY <1>1 DEF IInv, TypeOK, Stages
<1>3. ASSUME NEW q \in Runs PROVE Staged(q)' /\ Made(q)'
    BY <1>1 DEF IInv, TypeOK, Staged, Made, Signed
<1>4. QED
    BY <1>2, <1>3 DEF IInv

\* A run ends, with an error or with what it printed, and with some content
\* in one of the outputs.
LEMMA ExitIInv ==
    ASSUME IInv, NEW p \in Runs, NEW code \in {0, 1}, Exit(p, code),
           pc[p] \in {"load", "key", "handle", "create", "write"},
           code = 0 => pc[p] = "write",
           UNCHANGED <<keyFile, args, signer, cert>>,
           DOMAIN output' = DOMAIN output, cut' \subseteq cut \cup {p}
    PROVE  IInv'
<1>1. /\ pc' = [pc EXCEPT ![p] = "exited"]
      /\ status' = [status EXCEPT ![p] = code]
    BY DEF Exit
<1>2. TypeOK'
    BY <1>1, LocalAssumption DEF IInv, TypeOK, Stages
<1>3. ASSUME NEW q \in Runs PROVE Staged(q)' /\ Made(q)'
    BY <1>1 DEF IInv, TypeOK, Staged, Made, Signed
<1>4. QED
    BY <1>2, <1>3 DEF IInv

\* The machine, the operator and the other runs may do what they like.
LEMMA OtherIInv ==
    ASSUME IInv,
           \/ \E p \in Runs : Kill(p)
           \/ \E path \in KeyPaths, file \in KeyFiles : ReplaceKey(path, file)
           \/ UNCHANGED vars
    PROVE  IInv'
<1>1. ASSUME NEW p \in Runs, Kill(p) PROVE IInv'
    <2>1. /\ pc[p] \notin {"new", "exited", "killed"}
          /\ pc' = [pc EXCEPT ![p] = "killed"]
          /\ UNCHANGED <<keyFile, output, args, signer, cert, status, cut>>
        BY <1>1 DEF Kill
    <2>2. TypeOK'
        BY <2>1 DEF IInv, TypeOK, Stages
    <2>3. ASSUME NEW q \in Runs PROVE Staged(q)' /\ Made(q)'
        BY <2>1 DEF IInv, TypeOK, Staged, Made, Signed
    <2>4. QED
        BY <2>2, <2>3 DEF IInv
<1>2. ASSUME NEW path \in KeyPaths, NEW file \in KeyFiles, ReplaceKey(path, file)
      PROVE  IInv'
    BY <1>2 DEF ReplaceKey, IInv, TypeOK, Staged, Made, Signed
<1>3. ASSUME UNCHANGED vars PROVE IInv'
    BY <1>3 DEF vars, IInv, TypeOK, Staged, Made, Signed
<1>4. QED
    BY <1>1, <1>2, <1>3

\* Every step keeps the invariant.
LEMMA StepIInv == ASSUME IInv, [Next]_vars PROVE IInv'
<1>1. ASSUME NEW p \in Runs, Step(p) PROVE IInv'
    <2>1. CASE WriteLine(p) \/ \E n \in 0 .. args[p].size - 1 : WriteCut(p, n)
        <3>1. /\ pc[p] = "write" /\ Exit(p, 0)
              /\ UNCHANGED <<keyFile, args, signer, cert>>
              /\ DOMAIN output' = DOMAIN output /\ cut' \subseteq cut \cup {p}
            BY <2>1 DEF WriteLine, WriteCut
        <3>2. QED
            BY <3>1, ExitIInv
    <2>2. CASE Fail(p)
        <3>1. /\ pc[p] \in {"load", "key", "handle", "create"} /\ Exit(p, 1)
              /\ UNCHANGED <<keyFile, output, args, signer, cert, cut>>
            BY <2>2 DEF Fail
        <3>2. QED
            BY <3>1, ExitIInv
    <2>3. QED
        BY <1>1, <2>1, <2>2, LoadIInv, ReadKeyIInv, MakeCertIInv, CreateIInv DEF Step
<1>2. QED
    BY <1>1, LaunchIInv, OtherIInv DEF Next

\* The invariant holds in every state.
LEMMA Invariance == Spec => []IInv
<1>1. QED
    BY InitIInv, StepIInv, PTL DEF Spec

(***************************************************************************)
(* Whatever is replaced or killed meanwhile, a run has a key, a            *)
(* certificate and an exit status just when it should.                     *)
(***************************************************************************)
THEOREM TypeInvariant == Spec => []TypeOK
<1>1. IInv => TypeOK
    BY DEF IInv
<1>2. QED
    BY <1>1, Invariance, PTL

(***************************************************************************)
(* What the local key signs is within the policy of the run, for the user  *)
(* who runs it.                                                            *)
(***************************************************************************)
THEOREM LocalPolicyHolds == Spec => []MadeWithinPolicy
<1>1. IInv => MadeWithinPolicy
    <2> SUFFICES ASSUME IInv, NEW p \in Runs, cert[p] # None
                 PROVE  WithinPolicy(args[p].config, LocalCaller, cert[p])
        BY DEF MadeWithinPolicy
    <2> DEFINE c == args[p].config
               r == args[p].req
    <2>1. /\ cert[p] = Certified(r, p, signer[p])
          /\ Approves(c, LocalCaller, r)
          /\ ~Rejects(Decision(r, p))
          /\ c # NoConfig
        BY DEF IInv, Made, Signed
    <2>2. args[p] \in CommandLines
        BY DEF IInv, TypeOK
    <2>3. /\ ValidConfig(c) /\ c.maxTTL \in Int
          /\ r.ttl \in Int /\ r.principals \in Seq(DOMAIN Fold)
        BY <2>1, <2>2, LocalAssumption
    <2>4. WithinPolicy(c, LocalCaller, Build(Decision(r, p), p))
        BY <2>1, <2>3, ApprovedWithinPolicy
    <2>5. QED
        BY <2>1, <2>4, SigningKeepsPolicy DEF Certified
<1>2. QED
    BY <1>1, Invariance, PTL
-----------------------------------------------------------------------------
(* The output files.                                                       *)

(***************************************************************************)
(* An output file is emptied and written to by a run that has a            *)
(* certificate for it, and by no other.                                    *)
(***************************************************************************)
THEOREM OutputNeedsCertificate == Spec => OutputOnlyForCertificate
<1> DEFINE ForCertificate ==
        \A f \in OutPaths : output'[f] # output[f] =>
            \E p \in Runs : /\ pc[p] \in {"create", "write"}
                            /\ args[p].out = f
                            /\ cert[p] # None
<1>1. ASSUME IInv, [Next]_vars PROVE ForCertificate
    <2> SUFFICES ASSUME NEW f \in OutPaths, output'[f] # output[f]
                 PROVE  \E p \in Runs : /\ pc[p] \in {"create", "write"}
                                        /\ args[p].out = f
                                        /\ cert[p] # None
        OBVIOUS
    <2>1. PICK p \in Runs : \/ Create(p) \/ WriteLine(p)
                            \/ \E n \in 0 .. args[p].size - 1 : WriteCut(p, n)
        BY <1>1 DEF Next, Step, Launch, Load, ReadKey, MakeCert, Fail, Kill, ReplaceKey, vars
    <2>2. Staged(p) /\ TypeOK
        BY <1>1 DEF IInv
    <2>3. CASE Create(p)
        <3>1. pc[p] = "create" /\ cert[p] # None
            BY <2>2, <2>3 DEF Create, Goto, TypeOK
        <3>2. args[p].out = f
            BY <2>2, <2>3 DEF Create, TypeOK
        <3>3. QED
            BY <3>1, <3>2
    <2>4. CASE WriteLine(p) \/ \E n \in 0 .. args[p].size - 1 : WriteCut(p, n)
        <3>1. pc[p] = "write" /\ Target(p) = f
            BY <2>2, <2>4 DEF WriteLine, WriteCut, TypeOK
        <3>2. args[p].cmd # "ca-pubkey" /\ args[p].out = f
            BY <3>1, LocalAssumption DEF Target
        <3>3. args[p].cmd = "sign"
            BY <2>2, <3>1, <3>2 DEF Staged
        <3>4. cert[p] # None
            BY <2>2, <3>1, <3>3 DEF Staged
        <3>5. QED
            BY <3>1, <3>2, <3>4
    <2>5. QED
        BY <2>1, <2>3, <2>4
<1>2. IInv /\ [Next]_vars => [ForCertificate]_vars
    BY <1>1
<1>3. QED
    BY <1>2, Invariance, PTL DEF OutputOnlyForCertificate, Spec

\* What has been written at the start of a file is at its start.
LEMMA OverlayBegins ==
    ASSUME NEW blocks \in Seq(Runs \X Nat), NEW old \in Seq(Runs \X Nat)
    PROVE  /\ Overlay(blocks, old) \in Seq(Runs \X Nat)
           /\ IsPrefix(blocks, Overlay(blocks, old))
           /\ blocks = <<>> => Overlay(blocks, old) = old
           /\ blocks # <<>> => /\ Overlay(blocks, old) # <<>>
                              /\ Overlay(blocks, old)[1] = blocks[1]
<1> DEFINE rest == SubSeq(old, Len(blocks) + 1, Len(old))
           new  == blocks \o rest
<1>1. rest \in Seq(Runs \X Nat) /\ new \in Seq(Runs \X Nat)
    OBVIOUS
<1>2. Len(new) = Len(blocks) + Len(rest) /\ Len(blocks) \in Nat /\ Len(rest) \in Nat
    BY <1>1
<1>3. \A i \in 1 .. Len(blocks) : new[i] = blocks[i]
    BY <1>1
<1>4. blocks = <<>> => new = old
    OBVIOUS
<1> HIDE DEF new
<1>5. SubSeq(blocks, 1, Len(blocks)) = SubSeq(new, 1, Len(blocks))
    BY <1>1, <1>2, <1>3
<1>6. Len(blocks) <= Len(new)
    BY <1>2
<1>7. blocks # <<>> => new # <<>> /\ new[1] = blocks[1]
    BY <1>1, <1>2, <1>3
<1>8. QED
    BY <1>1, <1>4, <1>5, <1>6, <1>7 DEF Overlay, IsPrefix, new

\* A run prints at least a block.
LEMMA LineIsBlocks ==
    ASSUME IInv, NEW p \in Runs
    PROVE  /\ Line(p) \in Seq(Runs \X Nat) /\ Line(p) # <<>>
           /\ Len(Line(p)) = args[p].size /\ args[p].size \in Nat \ {0}
           /\ Line(p)[1] = <<p, 1>>
<1>1. args[p].size \in Nat \ {0}
    BY LocalAssumption DEF IInv, TypeOK
<1>2. \A i \in 1 .. args[p].size : <<p, i>> \in Runs \X Nat
    BY <1>1
<1>3. Line(p) \in Seq(Runs \X Nat) /\ Len(Line(p)) = args[p].size
    BY <1>1, <1>2 DEF Line
<1>4. Line(p)[1] = <<p, 1>>
    BY <1>1 DEF Line
<1>5. QED
    BY <1>1, <1>3, <1>4

\* The outputs hold blocks, which begin with all of a line or a cut one.
Written == \A t \in OutPaths \cup Runs : output[t] \in Seq(Runs \X Nat)

OutputInv == Written /\ BeginsWhole

(***************************************************************************)
(* A write, whole or cut, keeps the outputs so.                            *)
(***************************************************************************)
LEMMA WriteOutputInv ==
    ASSUME IInv, OutputInv, NEW p \in Runs, NEW blocks \in Seq(Runs \X Nat),
           output' = [output EXCEPT ![Target(p)] = Overlay(blocks, @)],
           args' = args, cut \subseteq cut',
           blocks = <<>> \/ blocks[1] = <<p, 1>>,
           blocks = Line(p) \/ p \in cut'
    PROVE  OutputInv'
<1>1. DOMAIN output = OutPaths \cup Runs
    BY DEF IInv, TypeOK
<1>2. \A f \in OutPaths \cup Runs : output[f] \in Seq(Runs \X Nat)
    BY DEF OutputInv, Written
<1>3. \A f \in OutPaths \cup Runs :
          output'[f] = IF f = Target(p) THEN Overlay(blocks, output[f]) ELSE output[f]
    BY <1>1
<1>4. ASSUME NEW t \in OutPaths \cup Runs PROVE output'[t] \in Seq(Runs \X Nat)
    <2>1. Overlay(blocks, output[t]) \in Seq(Runs \X Nat)
        BY <1>2, OverlayBegins, Zenon
    <2>2. QED
        BY <1>2, <1>3, <2>1
<1>5. ASSUME NEW f \in OutPaths, output'[f] # <<>>
      PROVE  \E q \in Runs : /\ output'[f][1] = <<q, 1>>
                             /\ q \in cut' \/ IsPrefix(Line(q), output'[f])
    <2>1. CASE output'[f] = output[f]
        BY <1>5, <2>1, Zenon DEF OutputInv, BeginsWhole
    <2>2. CASE output'[f] # output[f]
        <3>1. output[f] \in Seq(Runs \X Nat)
            BY <1>2
        <3>2. output'[f] = Overlay(blocks, output[f])
            BY <1>3, <2>2
        <3>3. blocks # <<>>
            BY <2>2, <3>1, <3>2, OverlayBegins, Zenon
        <3>4. output'[f][1] = blocks[1] /\ IsPrefix(blocks, output'[f])
            <4>1. /\ Overlay(blocks, output[f])[1] = blocks[1]
                  /\ IsPrefix(blocks, Overlay(blocks, output[f]))
                BY <3>1, <3>3, OverlayBegins, Zenon
            <4>2. QED
                BY <3>2, <4>1, Zenon
        <3>5. QED
            BY <3>3, <3>4, Zenon
    <2>3. QED
        BY <2>1, <2>2
<1>6. \A q : Line(q)' = Line(q)
    BY DEF Line
<1>7. BeginsWhole'
    BY <1>5, <1>6, Zenon DEF BeginsWhole
<1>8. QED
    BY <1>4, <1>7 DEF OutputInv, Written

\* Every step keeps them so.
LEMMA StepOutputInv == ASSUME IInv, OutputInv, [Next]_vars PROVE OutputInv'
<1>1. ASSUME NEW p \in Runs, WriteLine(p) PROVE OutputInv'
    <2>1. /\ output' = [output EXCEPT ![Target(p)] = Overlay(Line(p), @)]
          /\ args' = args /\ cut' = cut
        BY <1>1 DEF WriteLine
    <2>2. QED
        BY <2>1, LineIsBlocks, WriteOutputInv
<1>2. ASSUME NEW p \in Runs, NEW n \in 0 .. args[p].size - 1, WriteCut(p, n)
      PROVE  OutputInv'
    <2> DEFINE blocks == SubSeq(Line(p), 1, n)
    <2>1. /\ output' = [output EXCEPT ![Target(p)] = Overlay(blocks, @)]
          /\ args' = args /\ cut' = cut \cup {p}
        BY <1>2 DEF WriteCut
    <2>2. /\ Line(p) \in Seq(Runs \X Nat) /\ Line(p)[1] = <<p, 1>>
          /\ n \in Nat /\ n < Len(Line(p))
        BY LineIsBlocks
    <2>3. blocks \in Seq(Runs \X Nat) /\ (blocks = <<>> \/ blocks[1] = <<p, 1>>)
        <3>1. blocks \in Seq(Runs \X Nat)
            BY <2>2
        <3>2. CASE n = 0
            BY <2>2, <3>2
        <3>3. CASE n # 0
            BY <2>2, <3>3
        <3>4. QED
            BY <3>1, <3>2, <3>3
    <2> HIDE DEF blocks
    <2>4. cut \subseteq cut' /\ p \in cut'
        BY <2>1
    <2>5. QED
        BY <2>1, <2>3, <2>4, WriteOutputInv
<1>3. ASSUME NEW p \in Runs, Create(p) PROVE OutputInv'
    <2>1. \A f \in OutPaths \cup Runs : output'[f] = <<>> \/ output'[f] = output[f]
        BY <1>3 DEF Create, IInv, TypeOK
    <2>2. args' = args /\ cut' = cut
        BY <1>3 DEF Create
    <2>3. \A q : Line(q)' = Line(q)
        BY <2>2 DEF Line
    <2>4. ASSUME NEW t \in OutPaths \cup Runs PROVE output'[t] \in Seq(Runs \X Nat)
        <3>1. <<>> \in Seq(Runs \X Nat)
            OBVIOUS
        <3>2. QED
            BY <2>1, <3>1, Zenon DEF OutputInv, Written
    <2>5. BeginsWhole'
        BY <2>1, <2>2, <2>3, Zenon DEF OutputInv, BeginsWhole
    <2>6. QED
        BY <2>4, <2>5 DEF OutputInv, Written
<1>4. CASE UNCHANGED <<output, args, cut>>
    BY <1>4 DEF OutputInv, Written, BeginsWhole, Line
<1>5. QED
    BY <1>1, <1>2, <1>3, <1>4
       DEF Next, Step, Launch, Load, ReadKey, MakeCert, Fail, Kill, ReplaceKey, vars

(***************************************************************************)
(* An output file begins with the whole line of some run, or with that of  *)
(* a run whose write failed, however the runs come in each other's way.    *)
(***************************************************************************)
THEOREM OutputBeginsWhole == Spec => []BeginsWhole
<1>1. Init => OutputInv
    BY DEF Init, OutputInv, Written, BeginsWhole
<1>2. OutputInv => BeginsWhole
    BY DEF OutputInv
<1>3. QED
    BY <1>1, <1>2, StepOutputInv, Invariance, PTL DEF Spec
-----------------------------------------------------------------------------
(* The promise of Issuance.                                                *)

PromiseStep == Promise!Next \/ UNCHANGED Promise!vars

\* Only the end of sign, and its certificate, is seen from outside.
LEMMA Unseen ==
    ASSUME UNCHANGED <<args, cert, status>>,
           \A p \in Runs : pc'[p] = "new" <=> pc[p] = "new"
    PROVE  PromiseStep
BY DEF PromiseStep, Promise!vars, AdmittedRuns, SignedRuns, GrantedRuns, RefusedRuns

\* A run that starts is admitted, unless the binary cannot sign.
LEMMA LaunchPromise == ASSUME IInv, NEW p \in Runs, Launch(p) PROVE PromiseStep
<1>1. pc[p] = "new" /\ status[p] = None /\ UNCHANGED <<args, cert>>
    BY DEF Launch, Goto, Exit, IInv, TypeOK
<1>2. UNCHANGED SignedRuns
    BY <1>1 DEF SignedRuns
<1>3. CASE ExitsAtOnce(args[p])
    <2>1. pc' = [pc EXCEPT ![p] = "exited"] /\ status' = [status EXCEPT ![p] = ExitCode(args[p])]
        BY <1>3 DEF Launch, Exit
    <2>2. ExitCode(args[p]) \in {0, 2} /\ (args[p].cmd = "sign" => ExitCode(args[p]) = 2)
        BY DEF ExitCode
    <2>3. UNCHANGED AdmittedRuns /\ UNCHANGED GrantedRuns
        <3>1. status'[p] = ExitCode(args[p]) /\ pc'[p] = "exited"
            BY <2>1 DEF IInv, TypeOK
        <3>2. \A q \in Runs \ {p} : status'[q] = status[q] /\ pc'[q] = pc[q]
            BY <2>1 DEF IInv, TypeOK
        <3>3. p \notin AdmittedRuns /\ p \notin AdmittedRuns'
            BY <1>1, <2>2, <3>1 DEF AdmittedRuns
        <3>4. p \notin GrantedRuns /\ p \notin GrantedRuns'
            BY <1>1, <2>2, <3>1, LocalAssumption DEF GrantedRuns
        <3>5. QED
            BY <1>1, <3>2, <3>3, <3>4 DEF AdmittedRuns, GrantedRuns
    <2>4. CASE args[p].cmd = "sign"
        <3>1. RefusedRuns' = RefusedRuns \cup {p}
            BY <1>1, <2>1, <2>2, <2>4 DEF IInv, TypeOK, RefusedRuns
        <3>2. p \notin GrantedRuns \cup RefusedRuns
            BY <1>1, LocalAssumption DEF GrantedRuns, RefusedRuns
        <3>3. Promise!Refuse(p)
            BY <1>2, <2>3, <3>1, <3>2 DEF Promise!Refuse, Promise!Answered
        <3>4. QED
            BY <3>3 DEF PromiseStep, Promise!Next
    <2>5. CASE args[p].cmd # "sign"
        <3>1. UNCHANGED RefusedRuns
            BY <1>1, <2>1, <2>5 DEF IInv, TypeOK, RefusedRuns
        <3>2. QED
            BY <1>2, <2>3, <3>1 DEF PromiseStep, Promise!vars
    <2>6. QED
        BY <2>4, <2>5
<1>4. CASE ~ExitsAtOnce(args[p])
    <2>1. pc' = [pc EXCEPT ![p] = "load"] /\ UNCHANGED status
        BY <1>4 DEF Launch, Goto
    <2>2. UNCHANGED GrantedRuns /\ UNCHANGED RefusedRuns
        BY <1>1, <2>1 DEF GrantedRuns, RefusedRuns
    <2>3. CASE args[p].cmd = "sign"
        <3>1. AdmittedRuns' = AdmittedRuns \cup {p} /\ p \notin AdmittedRuns
            BY <1>1, <2>1, <2>3, LocalAssumption DEF IInv, TypeOK, AdmittedRuns
        <3>2. Promise!Admit(p)
            BY <1>2, <2>2, <3>1 DEF Promise!Admit
        <3>3. QED
            BY <3>2 DEF PromiseStep, Promise!Next
    <2>4. CASE args[p].cmd # "sign"
        <3>1. UNCHANGED AdmittedRuns
            BY <1>1, <2>1, <2>4 DEF IInv, TypeOK, AdmittedRuns
        <3>2. QED
            BY <1>2, <2>2, <3>1 DEF PromiseStep, Promise!vars
    <2>5. QED
        BY <2>3, <2>4
<1>5. QED
    BY <1>3, <1>4

\* A run that is under way signs for itself.
LEMMA MakeCertPromise == ASSUME IInv, NEW p \in Runs, MakeCert(p) PROVE PromiseStep
<1>1. /\ pc[p] = "handle" /\ args[p].cmd = "sign" /\ cert[p] = None
      /\ status[p] = None
    BY DEF MakeCert, Goto, IInv, TypeOK, Staged
<1>2. /\ pc' = [pc EXCEPT ![p] = IF args[p].out = Stdout THEN "write" ELSE "create"]
      /\ cert' = [cert EXCEPT ![p] = Signed(p)]
      /\ UNCHANGED <<args, status>>
    BY DEF MakeCert, Goto
<1>3. cert'[p] # None
    BY <1>1, <1>2, MakeCertIInv DEF IInv, TypeOK, Staged
<1>4. SignedRuns' = SignedRuns \cup {p}
    BY <1>2, <1>3 DEF IInv, TypeOK, SignedRuns
<1>5. UNCHANGED AdmittedRuns
    BY <1>1, <1>2 DEF IInv, TypeOK, AdmittedRuns
<1>6. UNCHANGED GrantedRuns /\ UNCHANGED RefusedRuns
    BY <1>2 DEF GrantedRuns, RefusedRuns
<1>7. p \in AdmittedRuns /\ p \notin GrantedRuns \cup RefusedRuns
    BY <1>1, LocalAssumption DEF AdmittedRuns, GrantedRuns, RefusedRuns
<1>8. Promise!SignFor(p)
    BY <1>4, <1>5, <1>6, <1>7 DEF Promise!SignFor, Promise!MayAsk, Promise!Answered
<1>9. QED
    BY <1>8 DEF PromiseStep, Promise!Next

\* A run that ends is granted what it printed, or refused.
LEMMA ExitPromise ==
    ASSUME IInv, NEW p \in Runs, NEW code \in {0, 1}, Exit(p, code),
           pc[p] \in {"load", "key", "handle", "create", "write"},
           code = 0 => pc[p] = "write", UNCHANGED <<args, cert>>
    PROVE  PromiseStep
<1>1. /\ pc' = [pc EXCEPT ![p] = "exited"]
      /\ status' = [status EXCEPT ![p] = code]
      /\ status[p] = None
    BY DEF Exit, IInv, TypeOK
<1>2. UNCHANGED AdmittedRuns /\ UNCHANGED SignedRuns
    BY <1>1, LocalAssumption DEF IInv, TypeOK, AdmittedRuns, SignedRuns
<1>3. p \notin GrantedRuns \cup RefusedRuns
    BY <1>1, LocalAssumption DEF GrantedRuns, RefusedRuns
<1>4. CASE args[p].cmd # "sign"
    <2>1. UNCHANGED GrantedRuns /\ UNCHANGED RefusedRuns
        BY <1>1, <1>4 DEF IInv, TypeOK, GrantedRuns, RefusedRuns
    <2>2. QED
        BY <1>2, <2>1 DEF PromiseStep, Promise!vars
<1>5. CASE args[p].cmd = "sign" /\ code = 0
    <2>1. p \in SignedRuns
        BY <1>5 DEF IInv, Staged, SignedRuns
    <2>2. GrantedRuns' = GrantedRuns \cup {p} /\ UNCHANGED RefusedRuns
        BY <1>1, <1>3, <1>5 DEF IInv, TypeOK, GrantedRuns, RefusedRuns
    <2>3. Promise!Grant(p)
        BY <1>2, <1>3, <2>1, <2>2 DEF Promise!Grant, Promise!Answered
    <2>4. QED
        BY <2>3 DEF PromiseStep, Promise!Next
<1>6. CASE args[p].cmd = "sign" /\ code = 1
    <2>1. RefusedRuns' = RefusedRuns \cup {p} /\ UNCHANGED GrantedRuns
        BY <1>1, <1>3, <1>6 DEF IInv, TypeOK, GrantedRuns, RefusedRuns
    <2>2. Promise!Refuse(p)
        BY <1>2, <1>3, <2>1 DEF Promise!Refuse, Promise!Answered
    <2>3. QED
        BY <2>2 DEF PromiseStep, Promise!Next
<1>7. QED
    BY <1>4, <1>5, <1>6

\* Every step of a run, or around it, is one of Issuance or a stuttering step.
LEMMA NextPromise == IInv /\ [Next]_vars => PromiseStep
<1> SUFFICES ASSUME IInv, [Next]_vars PROVE PromiseStep
    OBVIOUS
<1>1. ASSUME NEW p \in Runs, Load(p) \/ ReadKey(p) \/ Create(p) \/ Kill(p)
      PROVE  PromiseStep
    <2>1. UNCHANGED <<args, cert, status>>
        BY <1>1 DEF Load, ReadKey, Create, Kill
    <2>2. \A q \in Runs : pc'[q] = "new" <=> pc[q] = "new"
        BY <1>1 DEF IInv, TypeOK, Load, ReadKey, Create, Kill, Goto
    <2>3. QED
        BY <2>1, <2>2, Unseen
<1>2. ASSUME NEW p \in Runs,
             WriteLine(p) \/ \E n \in 0 .. args[p].size - 1 : WriteCut(p, n)
      PROVE  PromiseStep
    <2>1. pc[p] = "write" /\ Exit(p, 0) /\ UNCHANGED <<args, cert>>
        BY <1>2 DEF WriteLine, WriteCut
    <2>2. QED
        BY <2>1, ExitPromise
<1>3. ASSUME NEW p \in Runs, Fail(p) PROVE PromiseStep
    <2>1. /\ pc[p] \in {"load", "key", "handle", "create"} /\ Exit(p, 1)
          /\ UNCHANGED <<args, cert>>
        BY <1>3 DEF Fail
    <2>2. QED
        BY <2>1, ExitPromise
<1>4. ASSUME \/ \E path \in KeyPaths, file \in KeyFiles : ReplaceKey(path, file)
             \/ UNCHANGED vars
      PROVE  PromiseStep
    BY <1>4, Unseen DEF ReplaceKey, vars
<1>5. QED
    BY <1>1, <1>2, <1>3, <1>4, LaunchPromise, MakeCertPromise DEF Next, Step

(***************************************************************************)
(* The command line keeps the promises of Issuance.                        *)
(***************************************************************************)
THEOREM Implements == Spec => RunsKeepPromise
<1>1. Init => Promise!Init
    BY LocalAssumption DEF Init, Promise!Init, AdmittedRuns, SignedRuns, GrantedRuns,
                           RefusedRuns
<1>2. IInv /\ [Next]_vars => [Promise!Next]_Promise!vars
    BY NextPromise DEF PromiseStep
<1>3. QED
    BY <1>1, <1>2, Invariance, PTL DEF RunsKeepPromise, Promise!Spec, Spec
=============================================================================
