---------------------------- MODULE HandlerInv ----------------------------
(***************************************************************************)
(* The inductive invariant of Handler: why its safety properties hold.     *)
(* Of the order in which Handle has its effects, this is what outlives a   *)
(* killed container.                                                       *)
(***************************************************************************)
EXTENDS Handler

Serving == {"received", "evaluate", "getkey", "sign", "result", "reply"}

\* A call is served by one running container, from its arrival to its end.
JobInv ==
    /\ \A c \in Containers : job[c] # None => loaded[c] # Cold /\ pc[job[c]] \in Serving
    /\ \A c, d \in Containers : job[c] = job[d] /\ job[c] # None => c = d

\* What a call has and has not at each stage.
Staged(k) ==
    /\ pc[k] = "new" => input[k] = None
    /\ pc[k] \in Serving \ {"reply"} => input[k] # None
    /\ pc[k] \in {"new", "received", "evaluate"} => cert[k] = None
    /\ pc[k] \in {"getkey", "sign"} => cert[k] # None /\ cert[k].signedBy = Unsigned
    /\ pc[k] \in {"new", "received", "evaluate", "getkey", "sign"} => verdict[k] = "none"
    /\ pc[k] = "result" => verdict[k] # "none"
    /\ pc[k] \notin {"reply", "done", "lost"} => reply[k] = "none"

\* How the parts of a call's state depend on each other at every stage.
Settled(k) ==
    /\ cert[k] # None => input[k] # None /\ Approved(k) /\ ~Rejects(DecisionOf(k))
    /\ verdict[k] # "none" => input[k] # None
    /\ verdict[k] \in {"policy error", "denied"} => cert[k] = None
    /\ verdict[k] \in {"sign error", "approved"} => Approved(k)
    /\ verdict[k] = "approved" =>
          cert[k] # None /\ \E s \in signed : s.call = k /\ cert[k] = SignedBy(s.cert, s.by)
    /\ reply[k] = Certificate => verdict[k] = "approved"
    /\ reply[k] = "BadRequest" => input[k] = None
    /\ reply[k] \in {"Denied", "InternalError", "SigningError"} =>
          verdict[k] \notin {"none", "approved"} /\ reply[k] = ErrorOf(verdict[k])
    /\ reply[k] = "AuditError" /\ cert[k] # None => ~input[k].cfg.auditFailOpen
    /\ cert[k] # None /\ input[k].cfg.kmsKeyID \in Keys =>
          /\ pc[k] = "sign" \/ verdict[k] = "approved" =>
                cert[k].caKey = input[k].cfg.kmsKeyID
          /\ verdict[k] = "approved" => cert[k].signedBy = input[k].cfg.kmsKeyID

\* The certificate of a call is one that its input leads to.
Possible(k, body) ==
    \E serial \in Serials \ {0}, ca, by \in Keys \cup {Unsigned} :
        body = SignedBy(Naming(Build(DecisionOf(k), serial), ca), by)

Derived(k) == cert[k] # None => Possible(k, cert[k])

\* A fail-closed call past its request event has it on record, and past its
\* approved event that one too.
OnRecord(k) ==
    /\ pc[k] \in {"evaluate", "getkey", "sign", "result"} /\ UnderFailClosed(k)
          => RequestRecord(k) \in table
    /\ reply[k] = Certificate /\ UnderFailClosed(k) => ResultRecord(k) \in table

\* An item, stored or still under way, is the request event of a call that
\* went on from there, or the result event of one whose result is settled.
Explained(r) ==
    \/ /\ r = RequestRecord(r.call)
       /\ input[r.call] # None /\ pc[r.call] \notin {"new", "received"}
    \/ /\ r = ResultRecord(r.call)
       /\ verdict[r.call] # "none"
       /\ pc[r.call] \in {"reply", "done", "lost"}

\* A signature, or a request for one, is over the certificate of a call that
\* came to be signed for, and whose request is on record.
Founded(s) ==
    /\ pc[s.call] \in {"sign", "result", "reply", "done", "lost"}
    /\ cert[s.call] # None
    /\ s.cert = SignedBy(cert[s.call], Unsigned)
    /\ UnderFailClosed(s.call) => RequestRecord(s.call) \in table

CallInv(k) ==
    /\ Staged(k)
    /\ Settled(k)
    /\ Derived(k)
    /\ OnRecord(k)
    /\ \A r \in table \cup puts : r.call = k => Explained(r)
    /\ \A s \in signed \cup asks : s.call = k => Founded(s)

(***************************************************************************)
(* The inductive invariant.  It speaks of one call at a time: calls meet   *)
(* in the containers, the table and KMS, and nowhere else.                 *)
(***************************************************************************)
IInv == TypeOK /\ JobInv /\ \A k \in Calls : CallInv(k)
=============================================================================
