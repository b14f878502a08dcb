----------------------------- MODULE Provisioning -----------------------------
(***************************************************************************)
(* One provisioning session of a channel: the QR code a page shows, the    *)
(* registration at the platform that belongs to it, and the requests that  *)
(* poll, refresh and cancel it (api/channels.py) on one database row       *)
(* (db/orm/channel_provisioning.py).                                       *)
(*                                                                         *)
(* A request works in one transaction.  It reads the row, may wait for the *)
(* platform, reads the row again, and writes the columns that differ from  *)
(* what this second reading gave.  A write waits for the transaction that  *)
(* wrote before it and has not ended; readers see what is committed.       *)
(*                                                                         *)
(* A handle stands for platform_state: the registration the server polls.  *)
(* It is named by the request that began it, the first one First.          *)
(***************************************************************************)
EXTENDS Naturals

CONSTANTS
  Requests,   \* requests for this session
  First,      \* the registration of the request that created the session
  None,
  Ops         \* the operations the requests choose from

Handles == Requests \cup {First}

ASSUME ProvisioningAssumption ==
  /\ First \notin Requests /\ None \notin Handles
  /\ Ops \subseteq {"poll", "refresh", "cancel"}

VARIABLES
  row,        \* the session's row as committed
  lock,       \* the request whose transaction has written and is open
  work,       \* the row as that transaction sees it
  pc, op,     \* per request: where it is, what it does
  snap,       \* per request: the dataclass it works on
  read,       \* per request: the row as it was when read for writing
  stamped,    \* per request: it has asked the platform
  answer,     \* per request: what the page was told
  platform,   \* per registration: what the platform says of it
  dead,       \* registrations past their expires_at
  asked,      \* registrations polled before
  made,       \* history: channel connections committed
  reopened    \* history: commits that took a completed session back

vars == <<row, lock, work, pc, op, snap, read, stamped, answer, platform, dead,
          asked, made, reopened>>

\* ACTIVE_PROVISIONING_STATUSES; "scanned" is never set.
Active   == {"pending", "authorizing"}
Statuses == Active \cup {"completing", "completed", "failed", "cancelled"}
Rows     == [status : Statuses, handle : Handles \cup {None},
             qr : Handles, conn : Requests \cup {None}]

NoRow == [status |-> "failed", handle |-> None, qr |-> First, conn |-> None]

\* The row a create request leaves: the registration has begun, or it failed.
Init ==
  /\ row \in {[status |-> "pending", handle |-> First, qr |-> First, conn |-> None],
              NoRow}
  /\ lock = None /\ work = NoRow
  /\ pc = [r \in Requests |-> "idle"]
  /\ op = [r \in Requests |-> "poll"]
  /\ snap = [r \in Requests |-> NoRow] /\ read = [r \in Requests |-> NoRow]
  /\ stamped = [r \in Requests |-> FALSE]
  /\ answer = [r \in Requests |-> "none"]
  /\ platform = [h \in Handles |-> "waiting"]
  /\ dead = {} /\ asked = {}
  /\ made = 0 /\ reopened = 0

Expired(s) == s.handle \in dead

\* ChannelProvisioningSession.public_status.
PublicStatus(s) ==
  IF s.status \notin {"completed", "failed", "cancelled"} /\ Expired(s)
  THEN "expired" ELSE s.status

-----------------------------------------------------------------------------
(* Transactions.                                                           *)

\* The request ends; what it had read goes with it.
Leave(r, told) ==
  /\ pc' = [pc EXCEPT ![r] = "done"]
  /\ answer' = [answer EXCEPT ![r] = told]
  /\ snap' = [snap EXCEPT ![r] = NoRow]
  /\ read' = [read EXCEPT ![r] = NoRow]
  /\ stamped' = [stamped EXCEPT ![r] = FALSE]

\* The row after an UPDATE of the columns in which new differs from old; a poll
\* attempt has put its time into platform_state, which then always differs.
Updated(old, new, stamp) ==
  [row EXCEPT
     !.status = IF new.status # old.status THEN new.status ELSE @,
     !.handle = IF stamp \/ new.handle # old.handle THEN new.handle ELSE @]

\* r's first write: it takes the lock, and the row is as the last one left it.
Write(r, newRow, next) ==
  /\ lock = None /\ lock' = r
  /\ work' = newRow
  /\ pc' = [pc EXCEPT ![r] = next]

\* The transaction ends with its row.
Committed(r, newRow, told) ==
  /\ row' = newRow
  /\ lock' = None /\ work' = NoRow
  /\ reopened' = IF row.status = "completed" /\ newRow.status # "completed"
                 THEN reopened + 1 ELSE reopened
  /\ Leave(r, told)

\* get_db_session_dependency commits when the route has returned.
Commit(r) ==
  /\ pc[r] = "commit" /\ lock = r
  /\ Committed(r, work, PublicStatus(work))
  /\ UNCHANGED <<op, platform, dead, asked, made>>

\* The wait for a writer before, of this session or of any other part of the
\* database, is given up: the database raises, the dependency rolls back and the
\* page is told an error.
LockTimeout(r) ==
  /\ pc[r] \in {"save", "claim", "reset", "cancel"}
  /\ Leave(r, "error")
  /\ UNCHANGED <<row, lock, work, op, platform, dead, asked, made, reopened>>

-----------------------------------------------------------------------------
(* The routes.                                                             *)

\* A request begins with get_owned; what it reads may send it away at once.
Begin(r, o) ==
  /\ pc[r] = "idle"
  /\ op' = [op EXCEPT ![r] = o]
  /\ IF \/ o = "poll" /\ (row.status \notin Active \/ Expired(row))
        \/ o = "refresh" /\ row.status \in {"completed", "cancelled"}
        \/ o = "cancel" /\ row.status = "completed"
     THEN Leave(r, IF o = "refresh" THEN "conflict" ELSE PublicStatus(row))
     ELSE /\ pc' = [pc EXCEPT ![r] = IF o = "poll" THEN "ask" ELSE "read"]
          /\ snap' = [snap EXCEPT ![r] = row]
          /\ UNCHANGED <<read, stamped, answer>>
  /\ UNCHANGED <<row, lock, work, platform, dead, asked, made, reopened>>

\* mark_provisioning_poll_attempt: the last poll is too recent.
Throttled(r) ==
  /\ pc[r] = "ask" /\ snap[r].handle \in asked
  /\ pc' = [pc EXCEPT ![r] = "read"]
  /\ UNCHANGED <<row, lock, work, op, snap, read, stamped, answer, platform,
                 dead, asked, made, reopened>>

\* What the platform's answer makes of the status: a transient failure leaves it
\* alone.  A session without a registration cannot be asked about.
Heard(r) ==
  IF snap[r].handle = None THEN {}
  ELSE {snap[r].status} \cup
       CASE platform[snap[r].handle] = "waiting" -> Active
         [] platform[snap[r].handle] = "denied"  -> {"failed"}
         [] platform[snap[r].handle] = "granted" -> {}

\* The platform answers without credentials; or raises something, which
\* marks the session failed.
NotYet(r, status) ==
  /\ pc[r] = "ask" /\ status \in Heard(r) \cup {"failed"}
  /\ asked' = asked \cup ({snap[r].handle} \ {None})
  /\ stamped' = [stamped EXCEPT ![r] = snap[r].handle # None]
  /\ snap' = [snap EXCEPT ![r].status = status]
  /\ pc' = [pc EXCEPT ![r] = "read"]
  /\ UNCHANGED <<row, lock, work, op, read, answer, platform, dead, made,
                 reopened>>

\* The platform answers with credentials; claim_completion looks at the clock.
Granted(r) ==
  /\ pc[r] = "ask" /\ snap[r].handle # None /\ platform[snap[r].handle] = "granted"
  /\ asked' = asked \cup {snap[r].handle}
  /\ IF Expired(snap[r]) THEN Leave(r, "conflict")
     ELSE /\ pc' = [pc EXCEPT ![r] = "claim"]
          /\ UNCHANGED <<snap, read, stamped, answer>>
  /\ UNCHANGED <<row, lock, work, op, platform, dead, made, reopened>>

\* session.get: the row is read again before it is changed.
Read(r) ==
  /\ pc[r] = "read"
  /\ read' = [read EXCEPT ![r] = row]
  /\ pc' = [pc EXCEPT ![r] = CASE op[r] = "poll"    -> "save"
                               [] op[r] = "refresh" -> "reset"
                               [] op[r] = "cancel"  -> "cancel"]
  /\ UNCHANGED <<row, lock, work, op, snap, stamped, answer, platform, dead,
                 asked, made, reopened>>

\* save_mutable_state: the dataclass goes back into the row.
Save(r) ==
  /\ pc[r] = "save"
  /\ Write(r, Updated(read[r], snap[r], stamped[r]), "commit")
  /\ UNCHANGED <<row, op, snap, read, stamped, answer, platform, dead, asked,
                 made, reopened>>

\* Mutant of Claim: the update does not ask for the status.
ClaimAnyway(r) ==
  /\ pc[r] = "claim"
  /\ Write(r, [row EXCEPT !.status = "completing"], "create")
  /\ UNCHANGED <<row, op, snap, read, stamped, answer, platform, dead, asked,
                 made, reopened>>

\* claim_completion: one UPDATE that asks for the status and sets it.  It takes
\* the lock also when it finds no row to change.
Claim(r) ==
  /\ pc[r] = "claim"
  /\ \/ /\ row.status \in Active
        /\ Write(r, [row EXCEPT !.status = "completing"], "create")
     \/ row.status \notin Active /\ Write(r, row, "late")
  /\ UNCHANGED <<row, op, snap, read, stamped, answer, platform, dead, asked,
                 made, reopened>>

\* A request whose claim came too late is told the result of the one that was
\* faster, and its transaction ends without a change.
ToldLate(r) ==
  /\ pc[r] = "late"
  /\ lock' = None /\ work' = NoRow
  /\ Leave(r, IF work.status = "completed" THEN "completed" ELSE "conflict")
  /\ UNCHANGED <<row, op, platform, dead, asked, made, reopened>>

\* The channel's row is created, the session completed, and both are committed;
\* then the connection's background initialisation is scheduled.
Create(r) ==
  /\ pc[r] = "create"
  /\ Committed(r, [work EXCEPT !.status = "completed", !.conn = r], "completed")
  /\ made' = made + 1
  /\ UNCHANGED <<op, platform, dead, asked>>

\* Mutant of CreateFails: the claim is committed before the connection is made.
CreateFailsClaimed(r) ==
  /\ pc[r] = "create"
  /\ Committed(r, work, "error")
  /\ UNCHANGED <<op, platform, dead, asked, made>>

\* Mutant of CreateFails: nothing is rolled back.
CreateFailsOpen(r) ==
  /\ pc[r] = "create"
  /\ Leave(r, "error")
  /\ UNCHANGED <<row, lock, work, op, platform, dead, asked, made, reopened>>

\* The configuration is refused or the database raises: everything is undone.
CreateFails(r) ==
  /\ pc[r] = "create"
  /\ lock' = None /\ work' = NoRow
  /\ Leave(r, "error")
  /\ UNCHANGED <<row, op, platform, dead, asked, made, reopened>>

\* ChannelProvisioningSessionService.refresh: new tokens and no registration;
\* the write keeps the lock while the platform is asked for a new one.
Reset(r) ==
  /\ pc[r] = "reset"
  /\ Write(r, Updated(read[r], [snap[r] EXCEPT !.status = "pending",
                                               !.handle = None], FALSE), "start")
  /\ UNCHANGED <<row, op, snap, read, stamped, answer, platform, dead, asked,
                 made, reopened>>

\* attach_start, or mark_status when the platform raised.
Started(r) ==
  /\ pc[r] = "start"
  /\ \/ work' = [work EXCEPT !.handle = r, !.qr = r]
     \/ work' = [work EXCEPT !.status = "failed"]
  /\ pc' = [pc EXCEPT ![r] = "commit"]
  /\ UNCHANGED <<row, lock, op, snap, read, stamped, answer, platform, dead,
                 asked, made, reopened>>

\* ChannelProvisioningSessionService.cancel: whatever the row says now.
Cancel(r) ==
  /\ pc[r] = "cancel"
  /\ Write(r, Updated(read[r], [read[r] EXCEPT !.status = "cancelled"], FALSE),
           "commit")
  /\ UNCHANGED <<row, op, snap, read, stamped, answer, platform, dead, asked,
                 made, reopened>>

-----------------------------------------------------------------------------
\* A page has shown the registration's QR code.
Shown(h) == h = First \/ (h \in Requests /\ pc[h] = "done" /\ op[h] = "refresh")

\* The user confirms or refuses on the phone; a registration's time runs out.
Decide(h, verdict) ==
  /\ platform[h] = "waiting" /\ Shown(h)
  /\ platform' = [platform EXCEPT ![h] = verdict]
  /\ UNCHANGED <<row, lock, work, pc, op, snap, read, stamped, answer, dead,
                 asked, made, reopened>>

Expire(h) ==
  /\ h \notin dead /\ Shown(h)
  /\ dead' = dead \cup {h}
  /\ UNCHANGED <<row, lock, work, pc, op, snap, read, stamped, answer, platform,
                 asked, made, reopened>>

RequestStep(r) ==
  \/ Throttled(r) \/ Granted(r) \/ Read(r) \/ Save(r) \/ Claim(r) \/ ToldLate(r) \/ Create(r)
  \/ CreateFails(r) \/ Reset(r) \/ Started(r) \/ Cancel(r) \/ Commit(r)
  \/ LockTimeout(r) \/ \E status \in Statuses : NotYet(r, status)

Next ==
  \/ \E r \in Requests : RequestStep(r) \/ \E o \in Ops : Begin(r, o)
  \/ \E h \in Handles : Expire(h) \/ \E v \in {"granted", "denied"} : Decide(h, v)

Spec == Init /\ [][Next]_vars

-----------------------------------------------------------------------------
\* Types; and the write lock belongs to the transaction that has written and is
\* still open, of which there is at most one.
TypeOK ==
  /\ \A r \in Requests : lock = r <=> pc[r] \in {"create", "late", "start", "commit"}
  /\ row \in Rows /\ work \in Rows
  /\ lock \in Requests \cup {None}
  /\ pc \in [Requests -> {"idle", "ask", "read", "save", "claim", "create",
                          "late", "reset", "start", "cancel", "commit", "done"}]
  /\ op \in [Requests -> {"poll", "refresh", "cancel"}]
  /\ snap \in [Requests -> Rows] /\ read \in [Requests -> Rows]
  /\ stamped \in [Requests -> BOOLEAN]
  /\ answer \in [Requests -> Statuses \cup {"none", "expired", "conflict", "error"}]
  /\ platform \in [Handles -> {"waiting", "granted", "denied"}]
  /\ dead \subseteq Handles /\ asked \subseteq Handles
  /\ made \in Nat /\ reopened \in Nat

\* Nobody sees a session half completed: a claim is committed with its connection
\* or not at all, and who is told "completed" can see the connection
\* (claim_completion and complete in one transaction).
NothingHalfDone ==
  /\ row.status # "completing"
  /\ row.status = "completed" => row.conn # None
  /\ \A r \in Requests : answer[r] = "completed" => row.conn # None

\* However many polls get the credentials, the session makes one connection; one
\* more only after a request that had read the row earlier took a completed
\* session back (claim_completion).
ConnectionsExplained == made <= 1 + reopened

\* Nothing but an open session is completed: a cancel, a failure or a completion
\* that was committed before a claim decides (claim_completion).
OnlyOpenCompletes ==
  [][row'.status = "completed" /\ row' # row =>
       row.status \in Active \/ row.conn = row'.conn]_vars
=============================================================================
