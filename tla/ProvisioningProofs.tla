-------------------------- MODULE ProvisioningProofs --------------------------
(***************************************************************************)
(* Proofs about Provisioning, for any set of requests: the types, that no  *)
(* session is left half completed, and what explains a second connection.  *)
(***************************************************************************)
EXTENDS Provisioning, TLAPS

\* What a request took from the row when it was open stays an open status.
SnapshotsOpen == \A r \in Requests : snap[r].status \notin {"completed", "completing"}

\* While a request holds a claim, the session is committed as open.
ClaimOpen ==
  \A r \in Requests : pc[r] = "create" => row.status \in Active /\ work.conn = row.conn

\* What an open transaction is going to commit completes nothing.
WorkHarmless ==
  \A r \in Requests : pc[r] \in {"late", "start", "commit"} =>
    /\ work.conn = row.conn /\ work.status # "completing"
    /\ work.status = "completed" => row.status = "completed"

\* A session that is not completed has had a commit that took it back for every
\* connection made.
Counted ==
  /\ made <= 1 + reopened
  /\ row.status # "completed" => made <= reopened

IInv == TypeOK /\ SnapshotsOpen /\ ClaimOpen /\ WorkHarmless /\ Counted
        /\ NothingHalfDone

Answers == Statuses \cup {"none", "expired", "conflict", "error"}

\* What the assumptions on the constants come to.
LEMMA Constants ==
  /\ None \notin Requests /\ First \notin Requests
  /\ NoRow \in Rows /\ NoRow.status = "failed"
BY ProvisioningAssumption DEF NoRow, Rows, Statuses, Handles

\* The status a client is shown is a status.
LEMMA PublicStatusType ==
  ASSUME NEW s \in Rows
  PROVE  /\ PublicStatus(s) \in Answers
         /\ PublicStatus(s) = "completed" => s.status = "completed"
BY DEF PublicStatus, Rows, Answers, Statuses

\* The end of a request.
LEMMA LeaveType ==
  ASSUME TypeOK, NEW r \in Requests, NEW told \in Answers, Leave(r, told)
  PROVE  /\ pc' = [pc EXCEPT ![r] = "done"]
         /\ pc' \in [Requests -> {"idle", "ask", "read", "save", "claim", "create",
                                   "late", "reset", "start", "cancel", "commit", "done"}]
         /\ snap' \in [Requests -> Rows] /\ read' \in [Requests -> Rows]
         /\ stamped' \in [Requests -> BOOLEAN]
         /\ answer' \in [Requests -> Answers]
BY Constants DEF Leave, TypeOK, Answers

\* Writing the fields that changed gives a row with the same connection.
LEMMA UpdatedType ==
  ASSUME row \in Rows, NEW old \in Rows, NEW new \in Rows, NEW stamp \in BOOLEAN
  PROVE  /\ Updated(old, new, stamp) \in Rows
         /\ Updated(old, new, stamp).conn = row.conn
         /\ Updated(old, new, stamp).status \in {row.status, new.status}
BY DEF Updated, Rows

(***************************************************************************)
(* Three kinds of steps                                                    *)
(***************************************************************************)

Holding == {"create", "late", "start", "commit"}

\* A step of r outside its transaction changes nothing others could see.
LEMMA Quiet ==
  ASSUME IInv, TypeOK', NEW r \in Requests,
         UNCHANGED <<row, work, made, reopened>>,
         \A q \in Requests \ {r} : /\ pc'[q] = pc[q] /\ snap'[q] = snap[q]
                                   /\ answer'[q] = answer[q],
         pc'[r] \notin Holding,
         snap'[r].status \notin {"completed", "completing"},
         answer'[r] = "completed" => row.conn # None
  PROVE  IInv'
<1>1. SnapshotsOpen'
  BY DEF IInv, SnapshotsOpen
<1>2. ClaimOpen' /\ WorkHarmless'
  BY DEF IInv, ClaimOpen, WorkHarmless, Holding
<1>3. Counted'
  BY DEF IInv, Counted
<1>4. NothingHalfDone'
  BY DEF IInv, NothingHalfDone
<1> QED
  BY <1>1, <1>2, <1>3, <1>4 DEF IInv

\* r's transaction begins, or goes on, with a row that completes nothing or is
\* the row of a claim.
LEMMA Writes ==
  ASSUME IInv, TypeOK', NEW r \in Requests, lock' = r,
         UNCHANGED <<row, snap, answer, made, reopened>>,
         work'.conn = row.conn,
         \/ pc'[r] = "create" /\ row.status \in Active
         \/ /\ pc'[r] \in {"late", "start", "commit"} /\ work'.status # "completing"
            /\ work'.status = "completed" => row.status = "completed"
  PROVE  IInv'
<1>1. \A q \in Requests \ {r} : pc'[q] \notin Holding
  BY DEF TypeOK, Holding
<1>2. SnapshotsOpen' /\ Counted' /\ NothingHalfDone'
  BY DEF IInv, SnapshotsOpen, Counted, NothingHalfDone
<1>3. ClaimOpen'
  BY <1>1 DEF ClaimOpen, Holding
<1>4. WorkHarmless'
  BY <1>1 DEF WorkHarmless, Holding
<1> QED
  BY <1>2, <1>3, <1>4 DEF IInv

\* r's transaction is over; nobody else has one.
LEMMA NobodyHolds ==
  ASSUME TypeOK', lock' = None
  PROVE  /\ \A q \in Requests : pc'[q] \notin Holding
         /\ ClaimOpen' /\ WorkHarmless'
BY Constants DEF TypeOK, ClaimOpen, WorkHarmless, Holding

\* A request that leaves without a write changes its own place and answer only.
LEMMA Untold ==
  ASSUME TypeOK, NEW r \in Requests, NEW told \in Answers, Leave(r, told)
  PROVE  /\ \A q \in Requests \ {r} : /\ pc'[q] = pc[q] /\ snap'[q] = snap[q]
                                      /\ answer'[q] = answer[q]
         /\ pc'[r] = "done" /\ answer'[r] = told
         /\ snap'[r].status = "failed"
BY Constants DEF Leave, TypeOK

(***************************************************************************)
(* The actions                                                             *)
(***************************************************************************)

\* The start of a request keeps IInv.
LEMMA BeginStep ==
  ASSUME IInv, NEW r \in Requests, NEW o \in {"poll", "refresh", "cancel"}, Begin(r, o)
  PROVE  IInv'
<1>1. row \in Rows /\ PublicStatus(row) \in Answers /\ "conflict" \in Answers
  BY PublicStatusType DEF IInv, TypeOK, Answers
<1>2. CASE pc'[r] = "done" /\ \E told \in {"conflict", PublicStatus(row)} : Leave(r, told)
  <2>1. PICK told \in {"conflict", PublicStatus(row)} : Leave(r, told)
    BY <1>2
  <2>2. told \in Answers
    BY <1>1
  <2>3. TypeOK'
    BY <2>1, <2>2, LeaveType DEF IInv, TypeOK, Begin, Answers
  <2>4. told = "completed" => row.conn # None
    BY <1>1, PublicStatusType DEF IInv, NothingHalfDone
  <2> QED
    BY <2>1, <2>2, <2>3, <2>4, Untold, Quiet DEF IInv, Begin, Holding
<1>3. CASE ~(\E told \in {"conflict", PublicStatus(row)} : Leave(r, told))
  <2>1. /\ pc' = [pc EXCEPT ![r] = IF o = "poll" THEN "ask" ELSE "read"]
        /\ snap' = [snap EXCEPT ![r] = row] /\ UNCHANGED <<read, stamped, answer>>
        /\ row.status # "completed"
    BY <1>3 DEF Begin, Active
  <2>2. TypeOK'
    BY <2>1, <1>1 DEF IInv, TypeOK, Begin
  <2>3. pc'[r] \notin Holding /\ snap'[r] = row /\ row.status # "completing"
    BY <2>1, <1>1 DEF IInv, TypeOK, Holding, NothingHalfDone
  <2>4. answer'[r] = "completed" => row.conn # None
    BY <2>1 DEF IInv, NothingHalfDone
  <2>5. \A q \in Requests \ {r} : /\ pc'[q] = pc[q] /\ snap'[q] = snap[q]
                                 /\ answer'[q] = answer[q]
    BY <2>1 DEF IInv, TypeOK
  <2> QED
    BY <2>1, <2>2, <2>3, <2>4, <2>5, Quiet DEF Begin
<1> QED
  BY <1>2, <1>3 DEF Leave, IInv, TypeOK

\* Steps that read the row or wait keep IInv.
LEMMA WaitStep ==
  ASSUME IInv, NEW r \in Requests,
         \/ Throttled(r) \/ Read(r)
         \/ \E status \in Statuses : NotYet(r, status)
  PROVE  IInv'
<1>1. CASE Throttled(r)
  <2>1. TypeOK'
    BY <1>1 DEF IInv, TypeOK, Throttled
  <2>2. /\ pc'[r] \notin Holding /\ UNCHANGED <<snap, answer>>
        /\ \A q \in Requests \ {r} : pc'[q] = pc[q]
    BY <1>1 DEF IInv, TypeOK, Throttled, Holding
  <2> QED
    BY <1>1, <2>1, <2>2, Quiet DEF Throttled, IInv, SnapshotsOpen, NothingHalfDone
<1>2. CASE Read(r)
  <2>1. op[r] \in {"poll", "refresh", "cancel"}
    BY DEF IInv, TypeOK
  <2>2. /\ pc' = [pc EXCEPT ![r] = pc'[r]] /\ pc'[r] \in {"save", "reset", "cancel"}
    BY <1>2, <2>1 DEF Read, IInv, TypeOK
  <2>3. TypeOK'
    BY <1>2, <2>2 DEF IInv, TypeOK, Read
  <2>4. /\ pc'[r] \notin Holding /\ UNCHANGED <<snap, answer>>
        /\ \A q \in Requests \ {r} : pc'[q] = pc[q]
    BY <1>2, <2>2 DEF IInv, TypeOK, Read, Holding
  <2> QED
    BY <1>2, <2>3, <2>4, Quiet DEF Read, IInv, SnapshotsOpen, NothingHalfDone
<1>3. CASE \E status \in Statuses : NotYet(r, status)
  <2>1. PICK status \in Statuses : NotYet(r, status)
    BY <1>3
  <2>2. status \in Active \cup {"failed", snap[r].status}
    <3>1. CASE snap[r].handle = None
      BY <2>1, <3>1 DEF NotYet, Heard
    <3>2. CASE snap[r].handle # None
      <4>1. snap[r].handle \in Handles
        BY <3>2 DEF IInv, TypeOK, Rows
      <4>2. platform[snap[r].handle] \in {"waiting", "granted", "denied"}
        BY <4>1 DEF IInv, TypeOK
      <4> QED
        BY <2>1, <3>2, <4>2 DEF NotYet, Heard
    <3> QED
      BY <3>1, <3>2
  <2>3. status \notin {"completed", "completing"}
    BY <2>2 DEF Active, IInv, SnapshotsOpen
  <2>4. snap' = [snap EXCEPT ![r] = [snap[r] EXCEPT !.status = status]]
    BY <2>1 DEF NotYet
  <2>5. [snap[r] EXCEPT !.status = status] \in Rows
    BY DEF IInv, TypeOK, Rows
  <2>6. snap' \in [Requests -> Rows]
    BY <2>4, <2>5 DEF IInv, TypeOK
  <2>7. asked' \subseteq Handles
    BY <2>1 DEF NotYet, IInv, TypeOK, Rows
  <2>8. TypeOK'
    BY <2>1, <2>6, <2>7 DEF IInv, TypeOK, NotYet
  <2>9. snap'[r].status = status
    BY <2>4, <2>5 DEF IInv, TypeOK, Rows
  <2> QED
    BY <2>1, <2>3, <2>4, <2>8, <2>9, Quiet
    DEF NotYet, IInv, TypeOK, Holding, NothingHalfDone
<1> QED
  BY <1>1, <1>2, <1>3

\* A request that gives up keeps IInv.
LEMMA GiveUpStep ==
  ASSUME IInv, NEW r \in Requests, LockTimeout(r) \/ CreateFails(r)
  PROVE  IInv'
<1>1. "error" \in Answers
  BY DEF Answers
<1>2. Leave(r, "error") /\ UNCHANGED <<row, made, reopened>>
  BY DEF LockTimeout, CreateFails
<1>3. CASE LockTimeout(r)
  <2>1. TypeOK'
    BY <1>1, <1>2, <1>3, LeaveType DEF IInv, TypeOK, LockTimeout, Answers
  <2> QED
    BY <1>1, <1>2, <1>3, <2>1, Untold, Quiet DEF IInv, LockTimeout, Holding
<1>4. CASE CreateFails(r)
  <2>1. \A q \in Requests : None = q <=> pc'[q] \in Holding
    BY <1>1, <1>2, <1>4, Untold, Constants DEF IInv, TypeOK, CreateFails, Holding
  <2>2. TypeOK'
    BY <1>1, <1>2, <1>4, <2>1, LeaveType, Constants
    DEF IInv, TypeOK, CreateFails, Answers, Holding
  <2>3. SnapshotsOpen' /\ Counted' /\ NothingHalfDone'
    BY <1>1, <1>2, Untold DEF IInv, SnapshotsOpen, Counted, NothingHalfDone
  <2> QED
    BY <1>4, <2>2, <2>3, NobodyHolds DEF IInv, CreateFails
<1> QED
  BY <1>3, <1>4

\* The credentials of the platform, and the look at the clock, keep IInv.
LEMMA GrantedStep ==
  ASSUME IInv, NEW r \in Requests, Granted(r)
  PROVE  IInv'
<1>1. "conflict" \in Answers
  BY DEF Answers
<1>2. asked' \subseteq Handles
  BY DEF Granted, IInv, TypeOK, Rows
<1>3. CASE Expired(snap[r])
  <2>1. Leave(r, "conflict")
    BY <1>3 DEF Granted
  <2>2. TypeOK'
    BY <1>1, <1>2, <2>1, LeaveType DEF IInv, TypeOK, Granted, Answers
  <2> QED
    BY <1>1, <2>1, <2>2, Untold, Quiet DEF IInv, Granted, Holding
<1>4. CASE ~Expired(snap[r])
  <2>1. pc' = [pc EXCEPT ![r] = "claim"] /\ UNCHANGED <<snap, read, stamped, answer>>
    BY <1>4 DEF Granted
  <2>2. TypeOK'
    BY <1>2, <2>1 DEF IInv, TypeOK, Granted
  <2>3. pc'[r] = "claim" /\ \A q \in Requests \ {r} : pc'[q] = pc[q]
    BY <2>1 DEF IInv, TypeOK
  <2> QED
    BY <2>1, <2>2, <2>3, Quiet DEF Granted, Holding, IInv, SnapshotsOpen, NothingHalfDone
<1> QED
  BY <1>3, <1>4

\* A first write with a row of the right type.
LEMMA WriteType ==
  ASSUME TypeOK, NEW r \in Requests, NEW newRow \in Rows,
         NEW next \in {"create", "late", "start", "commit"}, Write(r, newRow, next),
         UNCHANGED <<row, op, snap, read, stamped, answer, platform, dead, asked,
                     made, reopened>>
  PROVE  TypeOK' /\ pc'[r] = next
<1>1. \A q \in Requests : r = q <=> pc'[q] \in {"create", "late", "start", "commit"}
  BY Constants DEF TypeOK, Write
<1> QED
  BY <1>1 DEF TypeOK, Write

\* Writes that do not complete the session keep IInv.
LEMMA SaveStep ==
  ASSUME IInv, NEW r \in Requests, Save(r) \/ Reset(r) \/ Cancel(r)
  PROVE  IInv'
<1>1. PICK new \in Rows, stamp \in BOOLEAN, next \in {"start", "commit"} :
        /\ Write(r, Updated(read[r], new, stamp), next)
        /\ new.status \notin {"completed", "completing"}
  <2>1. CASE Save(r)
    BY <2>1 DEF Save, IInv, TypeOK, SnapshotsOpen
  <2>2. CASE Reset(r)
    <3>1. [snap[r] EXCEPT !.status = "pending", !.handle = None] \in Rows
      <4>1. snap[r] \in Rows
        BY DEF IInv, TypeOK
      <4>2. "pending" \in Statuses
        BY DEF Statuses, Active
      <4> QED
        BY <4>1, <4>2 DEF Rows
    <3>2. [snap[r] EXCEPT !.status = "pending", !.handle = None].status = "pending"
      BY DEF IInv, TypeOK, Rows
    <3> QED
      BY <2>2, <3>1, <3>2 DEF Reset
  <2>3. CASE Cancel(r)
    <3>1. [read[r] EXCEPT !.status = "cancelled"] \in Rows
      BY DEF IInv, TypeOK, Rows, Statuses
    <3>2. [read[r] EXCEPT !.status = "cancelled"].status = "cancelled"
      BY DEF IInv, TypeOK, Rows
    <3> QED
      BY <2>3, <3>1, <3>2 DEF Cancel
  <2> QED
    BY <2>1, <2>2, <2>3
<1>2. UNCHANGED <<row, op, snap, read, stamped, answer, platform, dead, asked, made,
                  reopened>>
  BY DEF Save, Reset, Cancel
<1>3. /\ Updated(read[r], new, stamp) \in Rows
      /\ Updated(read[r], new, stamp).conn = row.conn
      /\ Updated(read[r], new, stamp).status \in {row.status, new.status}
  BY UpdatedType DEF IInv, TypeOK
<1>4. work' = Updated(read[r], new, stamp) /\ lock' = r
  BY <1>1 DEF Write
<1>5. TypeOK' /\ pc'[r] = next
  BY <1>1, <1>2, <1>3, WriteType DEF IInv
<1>6. /\ work'.status # "completing"
      /\ work'.status = "completed" => row.status = "completed"
  BY <1>1, <1>3, <1>4 DEF IInv, NothingHalfDone
<1> QED
  BY <1>2, <1>3, <1>4, <1>5, <1>6, Writes

\* A claim keeps IInv: it takes the lock over an open row, or changes nothing.
LEMMA ClaimStep ==
  ASSUME IInv, NEW r \in Requests, Claim(r)
  PROVE  IInv'
<1>1. UNCHANGED <<row, op, snap, read, stamped, answer, platform, dead, asked, made,
                  reopened>>
  BY DEF Claim
<1>2. CASE row.status \in Active
  <2>1. Write(r, [row EXCEPT !.status = "completing"], "create")
    BY <1>2 DEF Claim
  <2>2. /\ [row EXCEPT !.status = "completing"] \in Rows
        /\ [row EXCEPT !.status = "completing"].conn = row.conn
    BY DEF IInv, TypeOK, Rows, Statuses
  <2>3. TypeOK' /\ pc'[r] = "create"
    BY <1>1, <2>1, <2>2, WriteType DEF IInv
  <2>4. lock' = r /\ work'.conn = row.conn
    BY <2>1, <2>2 DEF Write
  <2> QED
    BY <1>1, <1>2, <2>3, <2>4, Writes
<1>3. CASE row.status \notin Active
  <2>1. Write(r, row, "late")
    BY <1>3 DEF Claim
  <2>2. TypeOK' /\ pc'[r] = "late"
    BY <1>1, <2>1, WriteType DEF IInv, TypeOK
  <2>3. lock' = r /\ work' = row /\ row.status # "completing"
    BY <2>1 DEF Write, IInv, NothingHalfDone
  <2> QED
    BY <1>1, <2>2, <2>3, Writes
<1> QED
  BY <1>2, <1>3

\* A request that came too late leaves the row as it is and gives the lock back.
LEMMA LateStep ==
  ASSUME IInv, NEW r \in Requests, ToldLate(r)
  PROVE  IInv'
<1>1. PICK told \in {"completed", "conflict"} :
        Leave(r, told) /\ (told = "completed" => work.status = "completed")
  BY DEF ToldLate
<1>2. told \in Answers
  BY DEF Answers, Statuses
<1>3. told = "completed" => row.conn # None
  BY <1>1 DEF ToldLate, IInv, WorkHarmless, NothingHalfDone
<1>4. \A q \in Requests : None = q <=> pc'[q] \in Holding
  BY <1>1, <1>2, Untold, Constants DEF IInv, TypeOK, ToldLate, Holding
<1>5. TypeOK'
  BY <1>1, <1>2, <1>4, LeaveType, Constants DEF IInv, TypeOK, ToldLate, Answers, Holding
<1>6. SnapshotsOpen' /\ Counted' /\ NothingHalfDone'
  BY <1>1, <1>2, <1>3, Untold DEF ToldLate, IInv, SnapshotsOpen, Counted, NothingHalfDone
<1> QED
  BY <1>5, <1>6, NobodyHolds DEF IInv, ToldLate

\* A session that starts again keeps IInv.
LEMMA StartedStep ==
  ASSUME IInv, NEW r \in Requests, Started(r)
  PROVE  IInv'
<1>1. lock = r /\ pc' = [pc EXCEPT ![r] = "commit"] /\ pc'[r] = "commit"
  BY DEF Started, IInv, TypeOK
<1>2. /\ work' \in Rows /\ work'.conn = work.conn
      /\ work'.status \in {work.status, "failed"}
  <2>1. CASE work' = [work EXCEPT !.handle = r, !.qr = r]
    BY <2>1 DEF IInv, TypeOK, Rows, Handles
  <2>2. CASE work' = [work EXCEPT !.status = "failed"]
    BY <2>2 DEF IInv, TypeOK, Rows, Statuses
  <2> QED
    BY <2>1, <2>2 DEF Started
<1>3. \A q \in Requests : lock' = q <=> pc'[q] \in {"create", "late", "start", "commit"}
  BY <1>1 DEF Started, IInv, TypeOK
<1>4. TypeOK'
  BY <1>1, <1>2, <1>3 DEF Started, IInv, TypeOK
<1>5. /\ work.conn = row.conn /\ work.status # "completing"
      /\ work.status = "completed" => row.status = "completed"
  BY DEF Started, IInv, WorkHarmless
<1>6. UNCHANGED <<row, lock, snap, answer, made, reopened>>
  BY DEF Started
<1> QED
  BY <1>1, <1>2, <1>4, <1>5, <1>6, Writes

\* Creating the connection and committing keep IInv.
LEMMA EndStep ==
  ASSUME IInv, NEW r \in Requests, Create(r) \/ Commit(r)
  PROVE  IInv'
<1>1. PICK newRow \in Rows, told \in Answers :
        /\ Committed(r, newRow, told)
        /\ newRow.status # "completing"
        /\ newRow.status = "completed" => newRow.conn # None
        /\ told = "completed" => newRow.conn # None
        /\ row.conn # None => newRow.conn # None
        /\ \/ made' = made + 1 /\ row.status \in Active /\ newRow.status = "completed"
           \/ /\ made' = made
              /\ newRow.status = "completed" => row.status = "completed"
  <2>1. CASE Create(r)
    <3>1. /\ [work EXCEPT !.status = "completed", !.conn = r] \in Rows
          /\ [work EXCEPT !.status = "completed", !.conn = r].status = "completed"
          /\ [work EXCEPT !.status = "completed", !.conn = r].conn = r
      BY DEF IInv, TypeOK, Rows, Statuses
    <3>2. row.status \in Active /\ r # None
      BY <2>1, Constants DEF Create, IInv, ClaimOpen
    <3>3. "completed" \in Answers
      BY DEF Answers, Statuses
    <3>4. Committed(r, [work EXCEPT !.status = "completed", !.conn = r], "completed")
      BY <2>1 DEF Create
    <3>5. made' = made + 1
      BY <2>1 DEF Create
    <3> QED
      BY <3>1, <3>2, <3>3, <3>4, <3>5
  <2>2. CASE Commit(r)
    <3>1. work \in Rows /\ PublicStatus(work) \in Answers
      BY PublicStatusType DEF IInv, TypeOK
    <3>2. /\ work.conn = row.conn /\ work.status # "completing"
          /\ work.status = "completed" => row.status = "completed"
      BY <2>2 DEF Commit, IInv, WorkHarmless
    <3>3. PublicStatus(work) = "completed" => row.status = "completed"
      BY <3>1, <3>2, PublicStatusType
    <3>4. Committed(r, work, PublicStatus(work)) /\ made' = made
      BY <2>2 DEF Commit
    <3>5. row.status = "completed" => row.conn # None
      BY DEF IInv, NothingHalfDone
    <3> QED
      BY <3>1, <3>2, <3>3, <3>4, <3>5
  <2> QED
    BY <2>1, <2>2
<1>2. /\ row' = newRow /\ lock' = None /\ work' = NoRow /\ Leave(r, told)
      /\ reopened' = IF row.status = "completed" /\ newRow.status # "completed"
                     THEN reopened + 1 ELSE reopened
  BY <1>1 DEF Committed
<1>3. lock = r /\ UNCHANGED <<op, platform, dead, asked>>
  BY DEF Create, Commit, IInv, TypeOK
<1>4. \A q \in Requests : None = q <=> pc'[q] \in {"create", "late", "start", "commit"}
  BY <1>2, <1>3, LeaveType, Constants DEF IInv, TypeOK
<1>5. made' \in Nat /\ reopened' \in Nat
  BY <1>1, <1>2 DEF IInv, TypeOK
<1>6. TypeOK'
  BY <1>2, <1>3, <1>4, <1>5, LeaveType, Constants DEF IInv, TypeOK, Answers
<1>7. SnapshotsOpen'
  BY <1>2, Untold DEF IInv, SnapshotsOpen
<1>8. Counted'
  BY <1>1, <1>2 DEF IInv, TypeOK, Counted, Active
<1>9. NothingHalfDone'
  BY <1>1, <1>2, Untold DEF IInv, NothingHalfDone
<1> QED
  BY <1>2, <1>6, <1>7, <1>8, <1>9, NobodyHolds DEF IInv

\* The platform's own steps keep IInv.
LEMMA EnvironmentStep ==
  ASSUME IInv, NEW h \in Handles,
         Expire(h) \/ \E v \in {"granted", "denied"} : Decide(h, v)
  PROVE  IInv'
<1>1. /\ dead' \subseteq Handles /\ platform' \in [Handles -> {"waiting", "granted", "denied"}]
      /\ UNCHANGED <<row, lock, work, pc, op, snap, read, stamped, answer, asked,
                     made, reopened>>
  BY DEF Expire, Decide, IInv, TypeOK
<1>2. TypeOK'
  BY <1>1 DEF IInv, TypeOK
<1> QED
  BY <1>1, <1>2 DEF IInv, SnapshotsOpen, ClaimOpen, WorkHarmless, Counted, NothingHalfDone

(***************************************************************************)
(* The theorems                                                            *)
(***************************************************************************)

\* IInv holds at first.
LEMMA Initially ==
  ASSUME Init
  PROVE  IInv
<1>1. row \in Rows /\ row.status \notin {"completed", "completing"}
  BY DEF Init, Rows, NoRow, Statuses, Active, Handles
<1>2. TypeOK
  BY <1>1, Constants DEF Init, TypeOK
<1>3. SnapshotsOpen /\ ClaimOpen /\ WorkHarmless /\ Counted /\ NothingHalfDone
  BY <1>1, Constants
  DEF Init, SnapshotsOpen, ClaimOpen, WorkHarmless, Counted, NothingHalfDone
<1> QED
  BY <1>2, <1>3 DEF IInv

\* Every step keeps IInv.
LEMMA Inductive ==
  ASSUME IInv, Ops \subseteq {"poll", "refresh", "cancel"}, [Next]_vars
  PROVE  IInv'
<1>1. ASSUME NEW r \in Requests, RequestStep(r)
      PROVE  IInv'
  BY <1>1, WaitStep, GrantedStep, SaveStep, ClaimStep, LateStep, EndStep, GiveUpStep, StartedStep
  DEF RequestStep
<1>2. ASSUME NEW r \in Requests, NEW o \in Ops, Begin(r, o)
      PROVE  IInv'
  BY <1>2, BeginStep
<1>3. ASSUME NEW h \in Handles, Expire(h) \/ \E v \in {"granted", "denied"} : Decide(h, v)
      PROVE  IInv'
  BY <1>3, EnvironmentStep
<1>4. CASE UNCHANGED vars
  BY <1>4 DEF vars, IInv, TypeOK, SnapshotsOpen, ClaimOpen, WorkHarmless, Counted,
              NothingHalfDone
<1> QED
  BY <1>1, <1>2, <1>3, <1>4 DEF Next

\* IInv holds in every state.
LEMMA Invariance == Spec => []IInv
<1>1. Ops \subseteq {"poll", "refresh", "cancel"}
  BY ProvisioningAssumption
<1>2. IInv /\ [Next]_vars => IInv'
  BY <1>1, Inductive
<1>3. Init => IInv
  BY Initially
<1> QED
  BY <1>2, <1>3, PTL DEF Spec

\* The row, its copies and the counters keep their types, and exactly the request
\* inside the locked section holds the lock, for any number of requests.
THEOREM TypeCorrect == Spec => []TypeOK
<1>1. IInv => TypeOK
  BY DEF IInv
<1> QED
  BY <1>1, Invariance, PTL

\* No request sees a claim without its connection, and who is told that the
\* session is completed can see the connection, for any number of requests.
THEOREM NothingIsHalfDone == Spec => []NothingHalfDone
<1>1. IInv => NothingHalfDone
  BY DEF IInv
<1> QED
  BY <1>1, Invariance, PTL

\* One session makes one connection and one more at most for every time a stale
\* write took the completed session back, for any number of requests that poll,
\* refresh and cancel it.
THEOREM ConnectionsAreExplained == Spec => []ConnectionsExplained
<1>1. IInv => ConnectionsExplained
  BY DEF IInv, Counted, ConnectionsExplained
<1> QED
  BY <1>1, Invariance, PTL

\* A committed cancel, failure or completion decides against every claim that
\* comes later, for any number of requests.
THEOREM OnlyAnOpenSessionCompletes == Spec => OnlyOpenCompletes
<1> DEFINE Completes == row'.status = "completed" /\ row' # row
           Allowed == row.status \in Active \/ row.conn = row'.conn
<1>1. ASSUME IInv, [Next]_vars, Completes
      PROVE  Allowed
  <2>1. ASSUME NEW r \in Requests, Create(r)
        PROVE  Allowed
    BY <1>1, <2>1 DEF IInv, ClaimOpen, Create
  <2>2. ASSUME NEW r \in Requests, Commit(r)
        PROVE  Allowed
    BY <1>1, <2>2 DEF IInv, WorkHarmless, Commit, Committed
  <2>3. CASE \A r \in Requests : ~Create(r) /\ ~Commit(r)
    <3>1. ASSUME NEW r \in Requests, RequestStep(r)
          PROVE  row' = row
      BY <2>3, <3>1
      DEF RequestStep, Throttled, Granted, Read, Save, Claim, ToldLate, CreateFails, Reset,
          Started, Cancel, LockTimeout, NotYet
    <3>2. ASSUME NEW r \in Requests, NEW o \in Ops, Begin(r, o)
          PROVE  row' = row
      BY <3>2 DEF Begin
    <3>3. ASSUME NEW h \in Handles,
                 Expire(h) \/ \E v \in {"granted", "denied"} : Decide(h, v)
          PROVE  row' = row
      BY <3>3 DEF Expire, Decide
    <3> QED
      BY <1>1, <3>1, <3>2, <3>3 DEF Next, vars
  <2> QED
    BY <2>1, <2>2, <2>3
<1>2. IInv /\ [Next]_vars => [Completes => Allowed]_vars
  BY <1>1
<1> QED
  BY <1>2, Invariance, PTL DEF Spec, OnlyOpenCompletes
=============================================================================
