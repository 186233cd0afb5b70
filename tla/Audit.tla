------------------------------- MODULE Audit -------------------------------
(***************************************************************************)
(* internal/audit: what one attempt to write an audit event leaves in the  *)
(* table and what it returns.  The table is a DynamoDB table that only     *)
(* grows; the SDK repeats a PutItem with the same EventID, so a repetition *)
(* adds nothing.                                                           *)
(*                                                                         *)
(* A configuration here is [auditEnabled, auditFailOpen].                  *)
(***************************************************************************)

(***************************************************************************)
(* How an attempt ends: the item is stored; no answer comes, and the item  *)
(* is stored sooner or later or never; DynamoDB refuses it; or NewEvent    *)
(* has no random bytes for an EventID, and the repository is never asked.  *)
(***************************************************************************)
WriteOutcomes == {"stored", "unanswered", "failed", "no event"}

\* NewEvent returns an error, whatever the configuration.
NoEvent(o) == o = "no event"

\* mustAuditRepo: a NoopRepository when auditing is off, which drops events.
Stores(cfg, o) == cfg.auditEnabled /\ o = "stored"

\* The PutItem is still under way when the repository gives it up.
LeavesUnderWay(cfg, o) == cfg.auditEnabled /\ o = "unanswered"

\* DynamoRepository.Write returns an error, which fail-open turns into nil.
RepositoryFails(cfg, o) ==
    /\ cfg.auditEnabled
    /\ o \in {"unanswered", "failed"}
    /\ ~cfg.auditFailOpen

\* Mutant: the first write is logged and forgotten, as the last one may be.
RequestEventNeverStops(cfg, o) == NoEvent(o)

\* The first write of Handle stops it: fail-open does not forgive NewEvent.
RequestEventStops(cfg, o) ==
    \/ NoEvent(o)
    \/ RepositoryFails(cfg, o) /\ ~cfg.auditFailOpen

\* Mutant: the error of the last write is always dropped.
ResultEventNeverFails(cfg, o) == FALSE

\* Mutant: fail-open forgives the repository, but not NewEvent.
ResultEventNeedsID(cfg, o) == NoEvent(o) \/ RepositoryFails(cfg, o)

\* writeAuditResultChecked returns an error.
ResultEventFails(cfg, o) ==
    /\ NoEvent(o) \/ RepositoryFails(cfg, o)
    /\ ~cfg.auditFailOpen

\* The configurations that promise a record of what the handler does.
FailClosed(cfg) == cfg.auditEnabled /\ ~cfg.auditFailOpen
=============================================================================
