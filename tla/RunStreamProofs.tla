--------------------------- MODULE RunStreamProofs ---------------------------
(***************************************************************************)
(* Proofs about RunStream, for any set of clients, any number of events    *)
(* and any capacities of the buffer and the queues; what readers are told, *)
(* and that this implements RunFeed, for capacities no run fills (Fits).   *)
(***************************************************************************)
EXTENDS RunStream, SequenceTheorems, TLAPS

(***************************************************************************)
(* What publishing does to the log and to a queue                          *)
(***************************************************************************)

\* Publishing appends the events to the log, or changes nothing.
LEMMA Published ==
  ASSUME NEW kinds \in Seq(Kinds), NEW last, log \in Seq(Kinds), Publish(kinds, last)
  PROVE  /\ log' \in Seq(Kinds)
         /\ Len(log') = Len(log) + Len(kinds)
         /\ \A i \in 1..Len(log) : log'[i] = log[i]
         /\ \A i \in (Len(log) + 1)..Len(log') : log'[i] = kinds[i - Len(log)]
<1>1. log' = log \o kinds
  BY DEF Publish
<1>2. /\ log \o kinds \in Seq(Kinds)
      /\ Len(log \o kinds) = Len(log) + Len(kinds)
      /\ \A i \in 1..(Len(log) + Len(kinds)) :
           (log \o kinds)[i] = IF i <= Len(log) THEN log[i] ELSE kinds[i - Len(log)]
  BY ConcatProperties
<1> QED
  BY <1>1, <1>2, LenProperties

\* Items past the capacity are dropped, the others follow what was queued.
LEMMA OfferedShape ==
  ASSUME NEW q \in Seq(Nat), NEW items \in Seq(Nat), Len(q) <= QueueCap
  PROVE  /\ Offered(q, items) \in Seq(Nat)
         /\ Len(Offered(q, items)) <= QueueCap
         /\ Len(Offered(q, items)) <= Len(q) + Len(items)
         /\ \A i \in 1..Len(Offered(q, items)) :
              Offered(q, items)[i] = IF i <= Len(q) THEN q[i] ELSE items[i - Len(q)]
<1> DEFINE all == q \o items
           n == IF Len(all) < QueueCap THEN Len(all) ELSE QueueCap
<1>1. /\ all \in Seq(Nat)
      /\ Len(all) = Len(q) + Len(items)
      /\ \A i \in 1..(Len(q) + Len(items)) :
           all[i] = IF i <= Len(q) THEN q[i] ELSE items[i - Len(q)]
  BY ConcatProperties
<1>2. /\ n \in Nat /\ n <= QueueCap /\ n <= Len(all)
      /\ Len(all) \in Nat
  BY <1>1, LenProperties, StreamAssumption
<1>3. \A i \in 1..n : all[i] \in Nat
  BY <1>1, <1>2, ElementOfSeq
<1>4. Offered(q, items) = SubSeq(all, 1, n)
  BY DEF Offered
<1> HIDE DEF all, n
<1>5. /\ SubSeq(all, 1, n) \in Seq(Nat)
      /\ Len(SubSeq(all, 1, n)) = IF 1 <= n THEN n - 1 + 1 ELSE 0
      /\ \A i \in 1..(n - 1 + 1) : SubSeq(all, 1, n)[i] = all[1 + i - 1]
  BY <1>2, <1>3, SubSeqProperties
<1>6. /\ Len(SubSeq(all, 1, n)) = n
      /\ \A i \in 1..n : SubSeq(all, 1, n)[i] = all[i]
  BY <1>2, <1>5
<1>7. n <= Len(q) + Len(items) /\ Len(q) \in Nat /\ Len(items) \in Nat
  BY <1>1, <1>2, LenProperties
<1>8. ASSUME NEW i \in 1..n
      PROVE  SubSeq(all, 1, n)[i] = IF i <= Len(q) THEN q[i] ELSE items[i - Len(q)]
  <2>1. i \in 1..(Len(q) + Len(items))
    BY <1>2, <1>7
  <2> QED
    BY <1>1, <1>6, <2>1
<1> HIDE DEF n
<1> QED
  BY <1>2, <1>4, <1>5, <1>6, <1>7, <1>8

\* A connected client's queue after publishing: what it held, then new ids in
\* order, then marks.
LEMMA QueueAfterPublish ==
  ASSUME TypeOK, NEW kinds \in Seq(Kinds), NEW last \in BOOLEAN,
         Publish(kinds, last), NEW c \in Clients
  PROVE  /\ queue'[c] \in Seq(Nat)
         /\ Len(queue'[c]) <= QueueCap
         /\ \A i \in 1..Len(queue'[c]) :
              \/ i <= Len(queue[c]) /\ queue'[c][i] = queue[c][i]
              \/ /\ i > Len(queue[c]) /\ Connected(c)
                 /\ \/ queue'[c][i] = CloseMark
                    \/ /\ queue'[c][i] = Len(log) + i - Len(queue[c])
                       /\ queue'[c][i] <= Len(log')
<1> DEFINE ids == [i \in 1..Len(kinds) |-> Len(log) + i]
           mark == IF last /\ ~closed THEN <<CloseMark>> ELSE <<>>
<1>0. /\ queue[c] \in Seq(Nat) /\ Len(queue[c]) \in Nat /\ Len(queue[c]) <= QueueCap
      /\ Len(log) \in Nat /\ Len(kinds) \in Nat
  BY LenProperties DEF TypeOK, StreamTypeOK
<1>1. queue'[c] = IF Connected(c) THEN Offered(queue[c], ids \o mark) ELSE queue[c]
  BY DEF Publish
<1>2. ids \in Seq(Nat) /\ Len(ids) = Len(kinds) /\ mark \in Seq(Nat)
  BY <1>0 DEF CloseMark
<1>3. Len(mark) \in Nat /\ \A i \in 1..Len(mark) : mark[i] = CloseMark
  OBVIOUS
<1>4. \A i \in 1..Len(kinds) : ids[i] = Len(log) + i
  OBVIOUS
<1> HIDE DEF ids, mark
<1> DEFINE items == ids \o mark
           a == Len(queue[c])
           k == Len(kinds)
           l == Len(log)
<1>5. /\ items \in Seq(Nat)
      /\ Len(items) = Len(ids) + Len(mark)
      /\ \A i \in 1..(Len(ids) + Len(mark)) :
           items[i] = IF i <= Len(ids) THEN ids[i] ELSE mark[i - Len(ids)]
  BY <1>2, ConcatProperties
<1>6. Len(log') = l + k /\ a \in Nat /\ k \in Nat /\ l \in Nat
  BY <1>0, Published DEF TypeOK, StreamTypeOK
<1>60. Len(ids) = k /\ \A i \in 1..k : ids[i] = l + i
  BY <1>2, <1>4
<1> HIDE DEF items, a, k, l
\* The items are the k new ids, then marks.
<1>7. /\ Len(items) \in Nat
      /\ \A i \in 1..Len(items) :
           items[i] = CloseMark \/ (items[i] = l + i /\ i <= k)
  <2>1. Len(items) = k + Len(mark)
    BY <1>5, <1>60
  <2>2. ASSUME NEW i \in 1..Len(items)
        PROVE  items[i] = CloseMark \/ (items[i] = l + i /\ i <= k)
    <3>0. i \in 1..(Len(ids) + Len(mark)) /\ i \in Nat
      BY <1>3, <1>6, <1>60, <2>1
    <3>1. CASE i <= k
      <4>1. items[i] = ids[i] /\ i \in 1..k
        BY <1>5, <1>6, <1>60, <3>0, <3>1
      <4> QED
        BY <1>60, <3>1, <4>1
    <3>2. CASE i > k
      <4>1. items[i] = mark[i - k] /\ i - k \in 1..Len(mark)
        BY <1>3, <1>5, <1>6, <1>60, <3>0, <3>2
      <4> QED
        BY <1>3, <4>1
    <3> QED
      BY <1>3, <1>6, <2>1, <3>1, <3>2
  <2> QED
    BY <1>3, <1>6, <2>1, <2>2
<1>8. CASE ~Connected(c)
  <2>1. queue'[c] = queue[c]
    BY <1>1, <1>8
  <2>2. \A i \in 1..Len(queue'[c]) : i <= Len(queue[c]) /\ queue'[c][i] = queue[c][i]
    BY <1>0, <2>1
  <2> QED
    BY <1>0, <2>1, <2>2
<1>9. CASE Connected(c)
  <2> DEFINE r == Offered(queue[c], items)
  <2>1. /\ r \in Seq(Nat) /\ Len(r) <= QueueCap /\ Len(r) <= a + Len(items)
        /\ \A i \in 1..Len(r) : r[i] = IF i <= a THEN queue[c][i] ELSE items[i - a]
    BY <1>0, <1>5, OfferedShape DEF a
  <2>2. Len(r) \in Nat
    BY <2>1, LenProperties
  <2>3. queue'[c] = r
    BY <1>1, <1>9 DEF items
  <2> HIDE DEF r
  <2>4. ASSUME NEW i \in 1..Len(r), i > a
        PROVE  r[i] = CloseMark \/ (r[i] = l + i - a /\ r[i] <= l + k)
    <3>1. i - a \in 1..Len(items) /\ r[i] = items[i - a]
      BY <1>6, <1>7, <2>1, <2>2, <2>4
    <3> QED
      BY <1>6, <1>7, <3>1
  <2>5. \A i \in 1..Len(r) :
          \/ i <= a /\ r[i] = queue[c][i]
          \/ i > a /\ (r[i] = CloseMark \/ (r[i] = l + i - a /\ r[i] <= l + k))
    BY <1>6, <2>1, <2>2, <2>4
  <2> QED
    BY <1>6, <1>9, <2>1, <2>3, <2>5 DEF a, k, l
<1> QED
  BY <1>8, <1>9

(***************************************************************************)
(* Type correctness                                                        *)
(***************************************************************************)

\* Publishing keeps the types of the stream.
LEMMA PublishType ==
  ASSUME TypeOK, NEW kinds \in Seq(Kinds), NEW last \in BOOLEAN, Publish(kinds, last)
  PROVE  StreamTypeOK'
<1>1. log' \in Seq(Kinds)
  BY Published DEF TypeOK, StreamTypeOK
<1>2. closed' \in BOOLEAN
  BY DEF Publish, TypeOK, StreamTypeOK
<1>3. \A c \in Clients : queue'[c] \in Seq(Nat) /\ Len(queue'[c]) <= QueueCap
  BY QueueAfterPublish
<1>4. queue' \in [Clients -> Seq(Nat)]
  <2>1. queue' = [c \in Clients |-> queue'[c]]
    BY DEF Publish
  <2> QED
    BY <1>3, <2>1
<1> QED
  BY <1>1, <1>2, <1>3, <1>4 DEF Publish, TypeOK, StreamTypeOK

\* The sequences of kinds the run publishes.
LEMMA KindSeqs ==
  /\ <<>> \in Seq(Kinds)
  /\ \A k \in Kinds : <<k>> \in Seq(Kinds)
  /\ \A k \in Kinds : Append(<<>>, k) \in Seq(Kinds)
  /\ \A k \in Kinds : Append(<<"failure">>, k) \in Seq(Kinds)
  /\ \A k \in Kinds : Append(<<"start", "data", "answered">>, k) \in Seq(Kinds)
BY DEF Kinds, Phases

\* Concluding a run keeps its types.
LEMMA ConcludeType ==
  ASSUME TypeOK, NEW o \in Outcomes, NEW before \in {<<>>, <<"failure">>,
         <<"start", "data", "answered">>}, NEW last \in BOOLEAN,
         Conclude(o, before, last)
  PROVE  status' \in Outcomes \cup {"running"} /\ StreamTypeOK'
<1>1. Phase(o) \in Kinds
  BY DEF Phase, Outcomes, Kinds, Phases
<1>2. Append(before, Phase(o)) \in Seq(Kinds)
  BY <1>1, KindSeqs
<1>3. CASE status = "running"
  BY <1>2, <1>3, PublishType DEF Conclude
<1>4. CASE status # "running"
  BY <1>4, KindSeqs, PublishType DEF Conclude, TypeOK, RunTypeOK
<1> QED
  BY <1>3, <1>4

\* A step of the run keeps the types.
LEMMA RunType ==
  ASSUME TypeOK, Abort \/ Execute
  PROVE  TypeOK'
<1> USE DEF RunTypeOK
<1>0. /\ \A k \in {"start", "data", "failure", "answered"} : <<k>> \in Seq(Kinds)
      /\ Verdict \in Outcomes /\ "aborted" \in Outcomes /\ "completed" \in Outcomes
  BY KindSeqs DEF Kinds, Verdict, Outcomes
<1>1. CASE Abort
  BY <1>0, <1>1, ConcludeType DEF Abort, TypeOK
<1>2. CASE BeginIterating
  BY <1>0, <1>2, KindSeqs, PublishType DEF BeginIterating, TypeOK
<1>3. CASE StaticAnswer
  BY <1>0, <1>3, ConcludeType DEF StaticAnswer, TypeOK
<1>4. CASE YieldStart
  BY <1>0, <1>4, PublishType DEF YieldStart, runVars, TypeOK
<1>5. CASE YieldData
  BY <1>0, <1>5, PublishType DEF YieldData, runVars, TypeOK
<1>6. CASE YieldFailure
  BY <1>0, <1>6, PublishType DEF YieldFailure, TypeOK
<1>7. CASE YieldAnswered
  BY <1>0, <1>7, PublishType DEF YieldAnswered, TypeOK
<1>8. CASE YieldEnd
  BY <1>0, <1>8, ConcludeType DEF YieldEnd, TypeOK
<1>9. CASE Exhausted \/ StopOnAbort \/ RunnerRaises
  BY <1>9 DEF Exhausted, StopOnAbort, RunnerRaises, TypeOK, StreamTypeOK,
              streamVars, clientVars
<1>10. CASE Finish
  BY <1>0, <1>10, ConcludeType DEF Finish, TypeOK
<1>11. ASSUME NEW o \in {"error", "timeout"}, HandleException(o)
       PROVE  TypeOK'
  <2>1. o \in Outcomes
    BY DEF Outcomes
  <2> QED
    BY <1>11, <2>1, ConcludeType DEF HandleException, TypeOK
<1> QED
  BY <1>1, <1>2, <1>3, <1>4, <1>5, <1>6, <1>7, <1>8, <1>9, <1>10, <1>11 DEF Execute

ClientStep(c) == Subscribe(c) \/ Serve(c) \/ Drop(c) \/ Reload(c)

\* The outcome a lifecycle event tells is an outcome.
LEMMA OutcomeType ==
  \A k \in Phases : Outcome(k) \in Outcomes
BY DEF Phases, Outcomes, Outcome

\* Receiving an event keeps a client's types.
LEMMA ReceiveType ==
  ASSUME TypeOK, NEW c \in Clients, NEW id \in Nat, Receive(c, id)
  PROVE  /\ got' \in [Clients -> Seq(Nat)]
         /\ sent' \in [Clients -> BOOLEAN]
         /\ told' \in [Clients -> Outcomes \cup {Unknown}]
<1>1. Append(got[c], id) \in Seq(Nat)
  BY DEF TypeOK, StreamTypeOK
<1>2. Terminal(id) => Outcome(log[id]) \in Outcomes
  BY OutcomeType DEF Terminal
<1>3. Terminal(id) \in BOOLEAN
  BY DEF Terminal
<1> QED
  BY <1>1, <1>2, <1>3 DEF Receive, TypeOK, StreamTypeOK

\* A step of a client keeps the types.
LEMMA ClientType ==
  ASSUME TypeOK, NEW c \in Clients, ClientStep(c)
  PROVE  TypeOK'
<1> USE DEF TypeOK, StreamTypeOK, runVars, streamVars
<1>0. /\ Len(log) \in Nat /\ Len(<<>>) = 0 /\ QueueCap \in Nat /\ <<>> \in Seq(Nat)
      /\ Outcome("end") \in Outcomes
  BY LenProperties, StreamAssumption DEF Outcome, Outcomes
<1>1. CASE Subscribe(c)
  <2>1. \A n \in Nat : BufferedAfter(n) \in Seq(Nat)
    BY <1>0, StreamAssumption DEF BufferedAfter
  <2>2. LastGot(c) \in Nat
    BY DEF LastGot
  <2>3. replay' \in [Clients -> Seq(Nat)]
    BY <1>0, <1>1, <2>1, <2>2 DEF Subscribe
  <2>4. sent' \in [Clients -> BOOLEAN]
    <3> DEFINE last == LastGot(c)
               ack == /\ last \in Buffered
                      /\ \E id \in Buffered : id <= last /\ Terminal(id)
    <3>1. sent' = [sent EXCEPT ![c] = ack]
      BY <1>1 DEF Subscribe
    <3>2. ack \in BOOLEAN
      OBVIOUS
    <3> HIDE DEF ack
    <3> QED
      BY <3>1, <3>2
  <2>5. queue' \in [Clients -> Seq(Nat)] /\ \A d \in Clients : Len(queue'[d]) <= QueueCap
    BY <1>0, <1>1 DEF Subscribe
  <2>6. conn' \in [Clients -> {"away", "replaying", "live"}] /\ late' \in [Clients -> BOOLEAN]
    BY <1>1 DEF Subscribe
  <2>7. UNCHANGED <<runVars, streamVars, got, told>>
    BY <1>1 DEF Subscribe
  <2> QED
    BY <2>3, <2>4, <2>5, <2>6, <2>7 DEF RunTypeOK
<1>2. CASE SendReplay(c)
  <2>1. Head(replay[c]) \in Nat /\ Tail(replay[c]) \in Seq(Nat)
    BY <1>2 DEF SendReplay
  <2> QED
    BY <1>2, <2>1, ReceiveType DEF SendReplay, RunTypeOK
<1>3. CASE GoLive(c)
  BY <1>3 DEF GoLive, RunTypeOK
<1>4. CASE EndReplay(c)
  BY <1>0, <1>4 DEF EndReplay, Leave, RunTypeOK
<1>5. CASE SendQueued(c)
  <2>1. /\ Head(queue[c]) \in Nat
        /\ Tail(queue[c]) \in Seq(Nat)
        /\ Len(Tail(queue[c])) <= QueueCap
    BY <1>0, <1>5, HeadTailProperties, LenProperties DEF SendQueued
  <2> QED
    BY <1>5, <2>1, ReceiveType DEF SendQueued, RunTypeOK
<1>6. CASE SeeClosed(c)
  BY <1>0, <1>6 DEF SeeClosed, Leave, RunTypeOK
<1>7. CASE StreamTimeout(c)
  BY <1>7 DEF StreamTimeout, RunTypeOK, Outcomes
<1>8. CASE Drop(c)
  BY <1>0, <1>8 DEF Drop, RunTypeOK
<1>9. CASE Reload(c)
  BY <1>0, <1>9 DEF Reload, RunTypeOK
<1> QED
  BY <1>1, <1>2, <1>3, <1>4, <1>5, <1>6, <1>7, <1>8, <1>9 DEF ClientStep, Serve

\* The first state is well typed.
LEMMA InitType == Init => TypeOK
<1> SUFFICES ASSUME Init PROVE TypeOK
  OBVIOUS
<1>1. RunTypeOK
  BY DEF Init, RunTypeOK
<1>2. <<>> \in Seq(Nat) /\ Len(<<>>) <= QueueCap /\ <<>> \in Seq(Kinds)
  BY StreamAssumption
<1>3. \A c \in Clients : queue[c] = <<>>
  BY DEF Init
<1>4. StreamTypeOK
  BY <1>2, <1>3 DEF Init, StreamTypeOK, Unknown
<1> QED
  BY <1>1, <1>4 DEF TypeOK

\* A step that changes nothing keeps the types.
LEMMA StutterType == TypeOK /\ UNCHANGED vars => TypeOK'
BY DEF TypeOK, RunTypeOK, StreamTypeOK, vars, runVars, streamVars, clientVars

\* Every variable of the run, its stream and its clients keeps its type, and no
\* subscriber's queue ever exceeds its maxsize.
THEOREM StreamTypeCorrect == Spec => []TypeOK
<1>1. TypeOK /\ [Next]_vars => TypeOK'
  BY RunType, ClientType, StutterType DEF Next, ClientStep
<1> QED
  BY <1>1, InitType, PTL DEF Spec

(***************************************************************************)
(* The outcome                                                             *)
(***************************************************************************)

Quiet == Kinds \ Phases

\* Events that end nothing leave what the stream says of the outcome alone.
LEMMA QuietLog ==
  ASSUME TypeOK, OneOutcome, CompletedMeansAnswered, NEW kinds \in Seq(Quiet),
         NEW last, Publish(kinds, last), status' = status
  PROVE  OneOutcome' /\ CompletedMeansAnswered'
<1> DEFINE n == Len(log)
           T == {id \in 1..n : Terminal(id)}
<1>1. kinds \in Seq(Kinds)
  BY SeqMonotonic DEF Quiet
<1>2. /\ n \in Nat /\ Len(log') \in Nat /\ n <= Len(log')
      /\ \A i \in 1..n : log'[i] = log[i]
      /\ \A i \in (n + 1)..Len(log') : log'[i] \in Quiet
  <2>1. /\ log' \in Seq(Kinds) /\ Len(log') = n + Len(kinds)
        /\ \A i \in 1..n : log'[i] = log[i]
        /\ \A i \in (n + 1)..Len(log') : log'[i] = kinds[i - n]
    BY <1>1, Published DEF TypeOK, StreamTypeOK
  <2>2. n \in Nat /\ Len(kinds) \in Nat /\ \A j \in 1..Len(kinds) : kinds[j] \in Quiet
    BY LenProperties, ElementOfSeq DEF TypeOK, StreamTypeOK
  <2> QED
    BY <2>1, <2>2
<1> HIDE DEF n
<1>3. {id \in 1..Len(log') : Terminal(id)'} = T
  BY <1>2 DEF Terminal, Quiet
<1>4. OneOutcome'
  <2>1. CASE status = "running"
    BY <1>3, <2>1 DEF OneOutcome, n
  <2>2. CASE status # "running"
    <3>1. PICK id \in T : T = {id} /\ log[id] = Phase(status)
      BY <2>2 DEF OneOutcome, n
    <3>2. log'[id] = log[id]
      BY <1>2, <3>1
    <3> QED
      BY <1>3, <2>2, <3>1, <3>2 DEF OneOutcome, Phase
  <2> QED
    BY <2>1, <2>2
<1>5. CompletedMeansAnswered'
  <2> SUFFICES ASSUME NEW id \in 1..Len(log'), log'[id] = "end"
               PROVE  /\ \E i \in 1..(id - 1) : log'[i] = "answered"
                      /\ \A i \in 1..(id - 1) : log'[i] # "failure"
    BY DEF CompletedMeansAnswered
  <2>1. id \in 1..n /\ log[id] = "end"
    BY <1>2 DEF Quiet, Phases
  <2>2. /\ \E i \in 1..(id - 1) : log[i] = "answered"
        /\ \A i \in 1..(id - 1) : log[i] # "failure"
    BY <2>1 DEF CompletedMeansAnswered, n
  <2>3. \A i \in 1..(id - 1) : log'[i] = log[i]
    BY <1>2, <2>1
  <2> QED
    BY <2>2, <2>3
<1> QED
  BY <1>4, <1>5

\* The first conclusion adds the one terminal event, the others add nothing.
LEMMA ConcludeLog ==
  ASSUME TypeOK, OneOutcome, CompletedMeansAnswered, NEW o \in Outcomes,
         NEW before \in Seq(Quiet), NEW last, Conclude(o, before, last),
         o = "completed" /\ status = "running" =>
           /\ \/ \E i \in 1..Len(log) : log[i] = "answered"
              \/ \E i \in 1..Len(before) : before[i] = "answered"
           /\ \A i \in 1..Len(log) : log[i] # "failure"
           /\ \A i \in 1..Len(before) : before[i] # "failure"
  PROVE  OneOutcome' /\ CompletedMeansAnswered'
<1>1. CASE status # "running"
  <2>1. <<>> \in Seq(Quiet)
    OBVIOUS
  <2> QED
    BY <1>1, <2>1, QuietLog DEF Conclude
<1>2. CASE status = "running"
  <2> DEFINE n == Len(log)
             m == Len(before)
             e == Phase(o)
  <2>1. e \in Phases /\ e \in Kinds /\ (e = "end" => o = "completed")
    BY DEF Phase, Outcomes, Kinds, Phases
  <2>2. /\ n \in Nat /\ m \in Nat
        /\ \A j \in 1..m : before[j] \in Quiet
    BY LenProperties, ElementOfSeq DEF TypeOK, StreamTypeOK
  <2>3. before \in Seq(Kinds)
    BY SeqMonotonic DEF Quiet
  <2> HIDE DEF e
  <2>4. /\ Append(before, e) \in Seq(Kinds)
        /\ Len(Append(before, e)) = m + 1
        /\ \A j \in 1..m : Append(before, e)[j] = before[j]
        /\ Append(before, e)[m + 1] = e
    BY <2>1, <2>3, AppendProperties
  <2>5. Publish(Append(before, e), last) /\ status' = o
    BY <1>2 DEF Conclude, e
  <2>6. /\ log' \in Seq(Kinds) /\ Len(log') = n + Len(Append(before, e))
        /\ \A i \in 1..n : log'[i] = log[i]
        /\ \A i \in (n + 1)..Len(log') : log'[i] = Append(before, e)[i - n]
    BY <2>4, <2>5, Published DEF TypeOK, StreamTypeOK
  <2> HIDE DEF n, m
  <2>7. /\ Len(log') = n + m + 1
        /\ \A i \in (n + 1)..(n + m) : log'[i] = before[i - n]
        /\ log'[n + m + 1] = e
    BY <2>2, <2>4, <2>6
  <2>8. \A i \in 1..n : log[i] \notin Phases
    BY <1>2 DEF OneOutcome, Terminal, n
  <2>9. \A i \in 1..(n + m) : log'[i] \notin Phases
    <3> SUFFICES ASSUME NEW i \in 1..(n + m) PROVE log'[i] \notin Phases
      OBVIOUS
    <3>1. CASE i <= n
      BY <2>2, <2>6, <2>8, <3>1
    <3>2. CASE i > n
      BY <2>2, <2>7, <3>2 DEF Quiet
    <3> QED
      BY <2>2, <3>1, <3>2
  <2>10. OneOutcome'
    <3>1. {id \in 1..Len(log') : Terminal(id)'} = {n + m + 1}
      BY <2>1, <2>2, <2>7, <2>9 DEF Terminal
    <3>2. status' # "running" /\ Phase(status)' = e
      BY <2>5 DEF Outcomes, Phase, e
    <3> QED
      BY <2>7, <3>1, <3>2 DEF OneOutcome
  <2>11. CompletedMeansAnswered'
    <3> SUFFICES ASSUME NEW id \in 1..Len(log'), log'[id] = "end"
                 PROVE  /\ \E i \in 1..(id - 1) : log'[i] = "answered"
                        /\ \A i \in 1..(id - 1) : log'[i] # "failure"
      BY DEF CompletedMeansAnswered
    <3>1. id = n + m + 1 /\ o = "completed"
      BY <2>1, <2>2, <2>7, <2>9 DEF Phases
    <3>2. /\ \/ \E i \in 1..n : log[i] = "answered"
             \/ \E j \in 1..m : before[j] = "answered"
          /\ \A i \in 1..n : log[i] # "failure"
          /\ \A j \in 1..m : before[j] # "failure"
      BY <1>2, <3>1 DEF n, m
    <3>3. \A j \in 1..m : j + n \in (n + 1)..(n + m) /\ log'[j + n] = before[j]
      BY <2>2, <2>7
    <3>4. \E i \in 1..(n + m) : log'[i] = "answered"
      <4>1. CASE \E i \in 1..n : log[i] = "answered"
        BY <2>2, <2>6, <4>1
      <4>2. CASE \E j \in 1..m : before[j] = "answered"
        <5>1. PICK j \in 1..m : before[j] = "answered"
          BY <4>2
        <5>2. j + n \in 1..(n + m) /\ log'[j + n] = "answered"
          BY <2>2, <3>3, <5>1
        <5> QED
          BY <5>2
      <4> QED
        BY <3>2, <4>1, <4>2
    <3>5. \A i \in 1..(n + m) : log'[i] # "failure"
      <4> SUFFICES ASSUME NEW i \in 1..(n + m) PROVE log'[i] # "failure"
        OBVIOUS
      <4>1. CASE i <= n
        BY <2>2, <2>6, <3>2, <4>1
      <4>2. CASE i > n
        <5>1. i - n \in 1..m /\ i \in (n + 1)..(n + m)
          BY <2>2, <4>2
        <5> QED
          BY <2>7, <3>2, <5>1
      <4> QED
        BY <2>2, <4>1, <4>2
    <3> QED
      BY <2>2, <3>1, <3>4, <3>5
  <2> QED
    BY <2>10, <2>11
<1> QED
  BY <1>1, <1>2

\* What the two flags of the coroutine say of the events it has pushed.
Evidence ==
  /\ committed => \E i \in 1..Len(log) : log[i] = "answered"
  /\ status = "running" /\ ~failed => \A i \in 1..Len(log) : log[i] # "failure"
  /\ exec = "preparing" => ~failed

RunInv == OneOutcome /\ CompletedMeansAnswered /\ Evidence

\* Publishing keeps Evidence, if the flags change with the events.
LEMMA EvidenceKept ==
  ASSUME TypeOK, Evidence, NEW kinds \in Seq(Kinds), NEW last, Publish(kinds, last),
         committed' = committed \/ \E j \in 1..Len(kinds) : kinds[j] = "answered",
         failed' = failed \/ failed' = TRUE,
         status' # "running" \/ (status' = status /\
           (failed' = TRUE \/ \A j \in 1..Len(kinds) : kinds[j] # "failure")),
         exec' = "preparing" => exec = "preparing" /\ failed' = failed
  PROVE  Evidence'
<1> DEFINE n == Len(log)
           m == Len(kinds)
<1>1. /\ n \in Nat /\ m \in Nat /\ Len(log') = n + m
      /\ \A i \in 1..n : log'[i] = log[i]
      /\ \A i \in (n + 1)..(n + m) : log'[i] = kinds[i - n]
  BY Published, LenProperties DEF TypeOK, StreamTypeOK
<1> HIDE DEF n, m
<1>2. \A j \in 1..m : j + n \in 1..(n + m) /\ log'[j + n] = kinds[j]
  BY <1>1
<1>3. ASSUME committed' PROVE \E i \in 1..Len(log') : log'[i] = "answered"
  <2>1. CASE committed' = committed
    <3>1. PICK i \in 1..n : log[i] = "answered"
      BY <1>3, <2>1 DEF Evidence, n
    <3> QED
      BY <1>1, <3>1
  <2>2. CASE \E j \in 1..m : kinds[j] = "answered"
    BY <1>1, <1>2, <2>2
  <2> QED
    BY <2>1, <2>2 DEF m
<1>4. ASSUME status' = "running", ~failed'
      PROVE  \A i \in 1..Len(log') : log'[i] # "failure"
  <2>1. /\ \A i \in 1..n : log[i] # "failure"
        /\ \A j \in 1..m : kinds[j] # "failure"
    BY <1>4 DEF Evidence, n, m
  <2> SUFFICES ASSUME NEW i \in 1..(n + m) PROVE log'[i] # "failure"
    BY <1>1
  <2>2. CASE i <= n
    BY <1>1, <2>1, <2>2
  <2>3. CASE i > n
    <3>1. i - n \in 1..m /\ i \in (n + 1)..(n + m)
      BY <1>1, <2>3
    <3> QED
      BY <1>1, <2>1, <3>1
  <2> QED
    BY <1>1, <2>2, <2>3
<1>5. exec' = "preparing" => ~failed'
  BY DEF Evidence
<1> QED
  BY <1>3, <1>4, <1>5 DEF Evidence

\* Publishing events that end nothing keeps the invariant, when the flags follow.
LEMMA QuietKeeps ==
  ASSUME TypeOK, RunInv, NEW k \in Quiet, Publish(<<k>>, FALSE), status' = status,
         exec' # "preparing",
         IF k = "failure" THEN failed' = TRUE ELSE failed' = failed,
         committed' = committed \/ k = "answered"
  PROVE  RunInv'
<1>1. /\ <<k>> \in Seq(Quiet) /\ <<k>> \in Seq(Kinds) /\ Len(<<k>>) = 1 /\ <<k>>[1] = k
  BY DEF Quiet
<1>2. OneOutcome' /\ CompletedMeansAnswered'
  BY <1>1, QuietLog DEF RunInv
<1>3. Evidence'
  <2>1. failed' = TRUE \/ \A j \in 1..Len(<<k>>) : <<k>>[j] # "failure"
    BY <1>1
  <2>2. committed' = committed \/ \E j \in 1..Len(<<k>>) : <<k>>[j] = "answered"
    BY <1>1
  <2>3. failed' = failed \/ failed' = TRUE
    OBVIOUS
  <2> QED
    BY <1>1, <2>1, <2>2, <2>3, EvidenceKept DEF RunInv
<1> QED
  BY <1>2, <1>3 DEF RunInv

\* A conclusion keeps the invariant if "completed" rests on the evidence.
LEMMA ConcludeKeeps ==
  ASSUME TypeOK, RunInv, NEW o \in Outcomes,
         NEW before \in {<<>>, <<"failure">>, <<"start", "data", "answered">>},
         NEW last \in BOOLEAN, Conclude(o, before, last),
         failed' = failed, committed' = committed,
         exec' = "preparing" => exec = "preparing",
         o = "completed" =>
           /\ status = "running" => ~failed
           /\ (before = <<>> /\ committed) \/ before = <<"start", "data", "answered">>
  PROVE  RunInv'
<1>1. /\ before \in Seq(Quiet) /\ before \in Seq(Kinds)
      /\ Phase(o) \in Kinds /\ Append(before, Phase(o)) \in Seq(Kinds)
      /\ <<>> \in Seq(Kinds) /\ Len(<<>>) = 0
  <2>1. Phase(o) \in Kinds
    BY DEF Phase, Outcomes, Kinds, Phases
  <2>2. {"start", "data", "answered", "failure"} \subseteq Quiet /\ Quiet \subseteq Kinds
    BY DEF Quiet, Kinds, Phases
  <2>3. \A K : {"start", "data", "answered", "failure"} \subseteq K =>
          /\ <<>> \in Seq(K) /\ <<"failure">> \in Seq(K)
          /\ <<"start", "data", "answered">> \in Seq(K)
    OBVIOUS
  <2>4. before \in Seq(Quiet) /\ before \in Seq(Kinds)
    <3> HIDE DEF Quiet, Kinds
    <3> QED
      BY <2>2, <2>3
  <2> QED
    BY <2>1, <2>4, KindSeqs
<1>2. ASSUME o = "completed", status = "running"
      PROVE  /\ \/ \E i \in 1..Len(log) : log[i] = "answered"
                \/ \E i \in 1..Len(before) : before[i] = "answered"
             /\ \A i \in 1..Len(log) : log[i] # "failure"
             /\ \A i \in 1..Len(before) : before[i] # "failure"
  <2>1. \A i \in 1..Len(log) : log[i] # "failure"
    BY <1>2 DEF RunInv, Evidence
  <2>2. CASE before = <<>> /\ committed
    BY <1>1, <2>1, <2>2 DEF RunInv, Evidence
  <2>3. CASE before = <<"start", "data", "answered">>
    <3>1. Len(before) = 3 /\ before[1] = "start" /\ before[2] = "data" /\ before[3] = "answered"
      BY <2>3
    <3> HIDE <2>3
    <3> QED
      BY <2>1, <3>1
  <2> QED
    BY <1>2, <2>2, <2>3
<1>3. OneOutcome' /\ CompletedMeansAnswered'
  BY <1>1, <1>2, ConcludeLog DEF RunInv
<1>4. CASE status = "running"
  <2>1. status' # "running" /\ Publish(Append(before, Phase(o)), last)
    BY <1>4 DEF Conclude, Outcomes
  <2>2. Evidence'
    BY <1>1, <2>1, EvidenceKept DEF RunInv, TypeOK, RunTypeOK
  <2> QED
    BY <1>3, <2>2 DEF RunInv
<1>5. CASE status # "running"
  <2>1. status' # "running" /\ Publish(<<>>, last)
    BY <1>5 DEF Conclude
  <2>2. Evidence'
    BY <1>1, <2>1, EvidenceKept DEF RunInv, TypeOK, RunTypeOK
  <2> QED
    BY <1>3, <2>2 DEF RunInv
<1> QED
  BY <1>4, <1>5

\* Steps that leave the log and the run's flags alone.
LEMMA SilentKeeps ==
  ASSUME RunInv, UNCHANGED <<status, failed, committed, log>>,
         exec' = "preparing" => exec = "preparing"
  PROVE  RunInv'
BY DEF RunInv, OneOutcome, CompletedMeansAnswered, Evidence, Terminal, Phase

\* A step of the run keeps RunInv.
LEMMA ExecuteKeeps ==
  ASSUME TypeOK, RunInv, Abort \/ Execute
  PROVE  RunInv'
<1>0. /\ {"start", "data", "failure", "answered"} \subseteq Quiet
      /\ {"aborted", "completed", "error", "timeout"} = Outcomes
      /\ Verdict \in Outcomes
      /\ Verdict = "completed" => ~failed /\ committed
  BY DEF Quiet, Kinds, Phases, Outcomes, Verdict
<1>1. CASE Abort
  BY <1>0, <1>1, ConcludeKeeps DEF Abort
<1>2. CASE BeginIterating
  <2>1. CASE Publish(<<"data">>, FALSE)
    BY <1>0, <1>2, <2>1, QuietKeeps DEF BeginIterating
  <2>2. CASE Publish(<<>>, FALSE)
    <3>1. <<>> \in Seq(Quiet) /\ <<>> \in Seq(Kinds) /\ Len(<<>>) = 0
      OBVIOUS
    <3>2. OneOutcome' /\ CompletedMeansAnswered'
      BY <1>2, <2>2, <3>1, QuietLog DEF BeginIterating, RunInv
    <3>3. \A j \in 1..Len(<<>>) : <<>>[j] # "failure"
      BY <3>1
    <3>4. Evidence'
      BY <1>2, <2>2, <3>1, <3>3, EvidenceKept DEF BeginIterating, RunInv
    <3> QED
      BY <3>2, <3>4 DEF RunInv
  <2> QED
    BY <1>2, <2>1, <2>2 DEF BeginIterating
<1>3. CASE StaticAnswer
  <2>1. ~failed
    BY <1>3 DEF StaticAnswer, RunInv, Evidence
  <2> QED
    BY <1>0, <1>3, <2>1, ConcludeKeeps DEF StaticAnswer
<1>4. CASE YieldStart \/ YieldData
  BY <1>0, <1>4, QuietKeeps DEF YieldStart, YieldData, Yields, runVars
<1>5. CASE YieldFailure
  BY <1>0, <1>5, QuietKeeps DEF YieldFailure, Yields
<1>6. CASE YieldAnswered
  BY <1>0, <1>6, QuietKeeps DEF YieldAnswered, Yields
<1>7. CASE YieldEnd
  BY <1>0, <1>7, ConcludeKeeps DEF YieldEnd
<1>8. CASE Exhausted \/ StopOnAbort \/ RunnerRaises
  BY <1>8, SilentKeeps DEF Exhausted, StopOnAbort, RunnerRaises, streamVars
<1>9. CASE Finish
  BY <1>0, <1>9, ConcludeKeeps DEF Finish
<1>10. ASSUME NEW o \in {"error", "timeout"}, HandleException(o)
       PROVE  RunInv'
  BY <1>0, <1>10, ConcludeKeeps DEF HandleException
<1> QED
  BY <1>1, <1>2, <1>3, <1>4, <1>5, <1>6, <1>7, <1>8, <1>9, <1>10 DEF Execute

\* A step of a client keeps RunInv.
LEMMA ClientKeeps ==
  ASSUME RunInv, NEW c \in Clients, ClientStep(c)
  PROVE  RunInv'
<1>1. UNCHANGED <<runVars, streamVars>>
  BY DEF ClientStep, Serve, Subscribe, SendReplay, GoLive, EndReplay, SendQueued,
         SeeClosed, StreamTimeout, Drop, Reload
<1> QED
  BY <1>1, SilentKeeps DEF runVars, streamVars

\* Whatever races to end a run, its stream announces one outcome, the one its
\* status keeps; "completed" is announced only after the final answer, and never
\* after a failure.  Evidence is what makes it inductive: the verdict is taken
\* from two flags, which must still agree with the log when it is.
THEOREM StreamOutcome == Spec => []TrueOutcome
<1>1. Init => RunInv
  BY LenProperties DEF Init, RunInv, OneOutcome, CompletedMeansAnswered, Evidence
<1>2. TypeOK /\ RunInv /\ [Next]_vars => RunInv'
  <2>1. ASSUME RunInv, UNCHANGED vars PROVE RunInv'
    BY <2>1, SilentKeeps DEF vars, runVars, streamVars
  <2> QED
    BY <2>1, ExecuteKeeps, ClientKeeps DEF Next, ClientStep
<1>3. RunInv => TrueOutcome
  BY DEF RunInv, TrueOutcome
<1> QED
  BY <1>1, <1>2, <1>3, StreamTypeCorrect, PTL DEF Spec

(***************************************************************************)
(* How a run's stream grows                                                *)
(***************************************************************************)

\* The events of the run fit the buffer, and with the mark a queue.
Fits == MaxEvents + 4 <= Buffer /\ MaxEvents + 5 <= QueueCap

\* How many events there are by now.
Short ==
  /\ Len(log) <= MaxEvents + 4
  /\ exec = "preparing" => Len(log) = IF status = "running" THEN 0 ELSE 1
  /\ exec \in {"iterating", "raising", "closing"} =>
       Len(log) <= MaxEvents + IF status = "running" THEN 1 ELSE 2

\* The stream is closed with or after the verdict, and not later than the
\* coroutine ends.
Settled == (closed => status # "running") /\ (exec = "done" => closed)

\* n events were pushed in one step; the stream was closed with them if last.
Adds(n, last) ==
  \E kinds \in Seq(Kinds) : Publish(kinds, last) /\ Len(kinds) = n

\* Publishing at most n events lengthens the log by at most n.
LEMMA AddsGrow ==
  ASSUME TypeOK, NEW n \in Nat, NEW last \in BOOLEAN, Adds(n, last)
  PROVE  /\ Len(log) \in Nat /\ Len(log') = Len(log) + n
         /\ closed' = (closed \/ last)
<1>1. PICK kinds \in Seq(Kinds) : Publish(kinds, last) /\ Len(kinds) = n
  BY DEF Adds
<1>2. Len(log') = Len(log) + Len(kinds)
  BY <1>1, Published DEF TypeOK, StreamTypeOK
<1> QED
  BY <1>1, <1>2, LenProperties DEF Publish, TypeOK, StreamTypeOK

\* Only the first conclusion adds anything, and then it decides the run.
LEMMA ConcludeAdds ==
  ASSUME NEW o \in Outcomes, NEW before \in Seq(Kinds), NEW n \in Nat, n = Len(before) + 1,
         NEW last \in BOOLEAN, Conclude(o, before, last)
  PROVE  \/ status = "running" /\ status' = o /\ Adds(n, last)
         \/ status # "running" /\ status' = status /\ Adds(0, last)
<1>0. Phase(o) \in Kinds
  BY DEF Phase, Outcomes, Kinds, Phases
<1>1. /\ Append(before, Phase(o)) \in Seq(Kinds)
      /\ Len(Append(before, Phase(o))) = Len(before) + 1
  BY <1>0, AppendProperties
<1>2. <<>> \in Seq(Kinds) /\ Len(<<>>) = 0
  OBVIOUS
<1> QED
  BY <1>1, <1>2 DEF Conclude, Adds

\* What a step of the run adds, and what becomes of the status and the coroutine.
LEMMA RunAdds ==
  ASSUME TypeOK, Abort \/ Execute
  PROVE  \/ /\ UNCHANGED <<streamVars, clientVars, status>>
            /\ exec = "iterating" /\ exec' \in {"raising", "closing"}
         \/ /\ status = "running" /\ status' # "running" /\ exec' = exec /\ Adds(1, TRUE)
         \/ /\ exec = "preparing" /\ exec' = "iterating" /\ status' = status
            /\ Adds(0, FALSE) \/ Adds(1, FALSE)
         \/ /\ exec = "iterating" /\ exec' = exec /\ Len(log) < MaxEvents
            /\ status' = status /\ Adds(1, FALSE)
         \/ /\ exec = "iterating" /\ exec' = "closing" /\ Len(log) < MaxEvents
            /\ status' # "running"
            /\ \/ status = "running" /\ Adds(1, FALSE)
               \/ status' = status /\ Adds(0, FALSE)
         \/ /\ exec' = "done" /\ status # "running" /\ status' = status /\ Adds(0, TRUE)
         \/ /\ exec' = "done" /\ status = "running" /\ status' # "running"
            /\ \/ exec = "preparing" /\ (Adds(4, TRUE) \/ Adds(2, TRUE))
               \/ exec \in {"raising", "closing"} /\ (Adds(1, TRUE) \/ Adds(2, TRUE))
<1>0. /\ \A k \in {"start", "data", "failure", "answered"} :
           <<k>> \in Seq(Kinds) /\ Len(<<k>>) = 1
      /\ <<>> \in Seq(Kinds) /\ Len(<<>>) = 0 /\ Len(<<"failure">>) = 1
      /\ <<"start", "data", "answered">> \in Seq(Kinds)
      /\ Len(<<"start", "data", "answered">>) = 3
      /\ Len(<<>>) + 1 = 1 /\ Len(<<"failure">>) + 1 = 2
      /\ Len(<<"start", "data", "answered">>) + 1 = 4
      /\ Verdict \in Outcomes /\ {"aborted", "completed", "error", "timeout"} \subseteq Outcomes
      /\ "running" \notin Outcomes
  BY KindSeqs DEF Kinds, Verdict, Outcomes
<1>1. CASE Abort
  <2>1. Conclude("aborted", <<>>, TRUE) /\ "aborted" \in Outcomes /\ 1 \in Nat
    BY <1>0, <1>1 DEF Abort
  <2> QED
    BY <1>0, <1>1, <2>1, ConcludeAdds DEF Abort
<1>2. CASE BeginIterating
  BY <1>0, <1>2 DEF BeginIterating, Adds
<1>3. CASE StaticAnswer
  <2>1. /\ Conclude("completed", <<"start", "data", "answered">>, TRUE)
        /\ "completed" \in Outcomes /\ 4 \in Nat
    BY <1>0, <1>3 DEF StaticAnswer
  <2> QED
    BY <1>0, <1>3, <2>1, ConcludeAdds DEF StaticAnswer
<1>4. CASE YieldStart \/ YieldData
  BY <1>0, <1>4 DEF YieldStart, YieldData, Yields, runVars, Adds
<1>5. CASE YieldFailure \/ YieldAnswered
  BY <1>0, <1>5 DEF YieldFailure, YieldAnswered, Yields, Adds
<1>6. CASE YieldEnd
  <2>1. Conclude(Verdict, <<>>, FALSE) /\ 1 \in Nat
    BY <1>0, <1>6 DEF YieldEnd
  <2>2. \/ status = "running" /\ status' = Verdict /\ Adds(1, FALSE)
        \/ status # "running" /\ status' = status /\ Adds(0, FALSE)
    BY <1>0, <2>1, ConcludeAdds
  <2> QED
    BY <1>0, <1>6, <2>2 DEF YieldEnd, Yields
<1>7. CASE Exhausted \/ StopOnAbort \/ RunnerRaises
  BY <1>7 DEF Exhausted, StopOnAbort, RunnerRaises
<1>8. CASE Finish
  <2>1. Conclude(Verdict, <<>>, TRUE) /\ 1 \in Nat
    BY <1>0, <1>8 DEF Finish
  <2>2. \/ status = "running" /\ status' = Verdict /\ Adds(1, TRUE)
        \/ status # "running" /\ status' = status /\ Adds(0, TRUE)
    BY <1>0, <2>1, ConcludeAdds
  <2> QED
    BY <1>0, <1>8, <2>2 DEF Finish
<1>9. ASSUME NEW o \in {"error", "timeout"}, HandleException(o)
      PROVE  /\ exec' = "done" /\ exec \in {"preparing", "raising"}
             /\ \/ status # "running" /\ status' = status /\ Adds(0, TRUE)
                \/ status = "running" /\ status' # "running" /\ Adds(2, TRUE)
  <2>1. o \in Outcomes /\ Conclude(o, <<"failure">>, TRUE) /\ 2 \in Nat
    BY <1>0, <1>9 DEF HandleException
  <2>2. \/ status = "running" /\ status' = o /\ Adds(2, TRUE)
        \/ status # "running" /\ status' = status /\ Adds(0, TRUE)
    BY <1>0, <2>1, ConcludeAdds
  <2> QED
    BY <1>0, <1>9, <2>1, <2>2 DEF HandleException
<1> QED
  BY <1>1, <1>2, <1>3, <1>4, <1>5, <1>6, <1>7, <1>8, <1>9 DEF Execute

\* A step of the run keeps the log within what its place in the code allows.
LEMMA RunShort ==
  ASSUME TypeOK, Short, Settled, Abort \/ Execute
  PROVE  Short' /\ Settled'
<1>1. Len(log) \in Nat /\ closed \in BOOLEAN
  BY LenProperties DEF TypeOK, StreamTypeOK
<1>2. \A n \in {0, 1, 2, 4} : \A last \in BOOLEAN : Adds(n, last) =>
        Len(log') = Len(log) + n /\ closed' = (closed \/ last)
  BY AddsGrow
<1>3. \A n \in {0, 1, 2, 4} :
        /\ Adds(n, FALSE) => Len(log') = Len(log) + n /\ (closed' <=> closed)
        /\ Adds(n, TRUE) => Len(log') = Len(log) + n /\ closed'
  BY <1>2, Zenon
<1>4. /\ MaxEvents \in Nat
      /\ exec \in {"preparing", "iterating", "raising", "closing", "done"}
  BY StreamAssumption DEF TypeOK, RunTypeOK
<1>5. UNCHANGED streamVars => log' = log /\ closed' = closed
  BY DEF streamVars
<1> DEFINE n == Len(log)
           m == Len(log')
<1>6. \/ m = n /\ (closed' <=> closed) /\ status' = status
         /\ exec = "iterating" /\ exec' \in {"raising", "closing"}
      \/ m = n + 1 /\ closed' /\ status = "running" /\ status' # "running" /\ exec' = exec
      \/ /\ m = n \/ m = n + 1
         /\ exec = "preparing" /\ exec' = "iterating" /\ status' = status /\ (closed' <=> closed)
      \/ /\ m = n + 1 /\ n < MaxEvents /\ exec = "iterating" /\ exec' = exec
         /\ status' = status /\ (closed' <=> closed)
      \/ /\ m = n \/ m = n + 1
         /\ n < MaxEvents /\ exec = "iterating" /\ exec' = "closing"
         /\ status' # "running" /\ (closed' <=> closed)
      \/ m = n /\ closed' /\ exec' = "done" /\ status # "running" /\ status' = status
      \/ /\ closed' /\ exec' = "done" /\ status = "running" /\ status' # "running"
         /\ \/ exec = "preparing" /\ (m = n + 4 \/ m = n + 2)
            \/ exec \in {"raising", "closing"} /\ (m = n + 1 \/ m = n + 2)
  <2>1. /\ Adds(0, FALSE) => m = n /\ (closed' <=> closed)
        /\ Adds(0, TRUE) => m = n /\ closed'
    <3>1. m = n + 0 => m = n
      BY <1>1
    <3> HIDE DEF m, n
    <3> QED
      BY <1>3, <3>1, Zenon DEF m, n
  <2>2. /\ Adds(1, FALSE) => m = n + 1 /\ (closed' <=> closed)
        /\ Adds(1, TRUE) => m = n + 1 /\ closed'
        /\ Adds(2, TRUE) => m = n + 2 /\ closed'
        /\ Adds(4, TRUE) => m = n + 4 /\ closed'
    BY <1>3, Zenon
  <2> HIDE DEF m, n
  <2> QED
    BY <1>5, <2>1, <2>2, RunAdds, Zenon DEF m, n
<1> HIDE DEF m, n
<1>7. Settled'
  BY <1>6 DEF Settled
<1>8. m \in Nat /\ n \in Nat
  BY <1>1, <1>6 DEF n
<1>9. Short'
  <2>1. /\ n <= MaxEvents + 4
        /\ exec = "preparing" /\ status = "running" => n = 0
        /\ exec = "preparing" /\ status # "running" => n = 1
        /\ exec \in {"iterating", "raising", "closing"} /\ status = "running" => n <= MaxEvents + 1
        /\ exec \in {"iterating", "raising", "closing"} /\ status # "running" => n <= MaxEvents + 2
        /\ exec = "done" => status # "running"
    BY DEF Short, Settled, n
  <2>2. /\ m <= MaxEvents + 4
        /\ exec' = "preparing" => status' # "running" /\ m = 1
        /\ exec' \in {"iterating", "raising", "closing"} /\ status' = "running" => m <= MaxEvents + 1
        /\ exec' \in {"iterating", "raising", "closing"} /\ status' # "running" => m <= MaxEvents + 2
    BY <1>4, <1>6, <1>8, <2>1
  <2> QED
    BY <1>4, <1>6, <1>8, <2>1, <2>2 DEF Short, m
<1> QED
  BY <1>7, <1>9

(***************************************************************************)
(* What a client is sent                                                   *)
(***************************************************************************)

\* What a client has received: the events from the first on.
Ordered(c) ==
  /\ Len(got[c]) <= Len(log)
  /\ \A i \in 1..Len(got[c]) : got[c][i] = i

\* How far a client comes with what its generator has yet to replay.
Due(c) == Len(got[c]) + Len(replay[c])

\* What waits for a connected client: the next events to replay, then the next
\* ones in its queue up to the newest, with the mark of the end at place p if it
\* was there when the stream was closed.  No terminal event comes after that mark.
Lined(c, p) ==
  /\ \A i \in 1..Len(replay[c]) : replay[c][i] = Len(got[c]) + i
  /\ \A i \in 1..Len(queue[c]) :
       queue[c][i] = IF i < p THEN Due(c) + i ELSE IF i = p THEN CloseMark ELSE Due(c) + i - 1
  /\ Due(c) + Len(queue[c]) = Len(log) + IF p <= Len(queue[c]) THEN 1 ELSE 0
  /\ p <= Len(queue[c]) <=> closed /\ ~late[c]
  /\ closed => \A id \in 1..Len(log) : Terminal(id) =>
       id <= IF late[c] THEN Due(c) ELSE Due(c) + p - 1
  /\ late[c] => closed
  /\ \A id \in 1..Len(got[c]) : Terminal(id) => sent[c]
  /\ conn[c] = "live" => replay[c] = <<>> /\ ~late[c]

Served(c) == Ordered(c) /\ (Connected(c) => \E p \in 1..(Len(queue[c]) + 1) : Lined(c, p))

FeedInv == (\A c \in Clients : Served(c)) /\ ToldTruth

\* What a client has got in order it has got up to its last id.
LEMMA LastGotIs ==
  ASSUME TypeOK, NEW c \in Clients, Ordered(c)
  PROVE  LastGot(c) = Len(got[c]) /\ Len(got[c]) \in Nat
<1>1. got[c] \in Seq(Nat) /\ Len(got[c]) \in Nat
  BY LenProperties DEF TypeOK, StreamTypeOK
<1>2. CASE got[c] = <<>>
  BY <1>2 DEF LastGot
<1>3. CASE got[c] # <<>>
  <2>1. Len(got[c]) \in 1..Len(got[c])
    BY <1>1, <1>3, EmptySeq
  <2> QED
    BY <1>1, <1>3, <2>1 DEF LastGot, Ordered
<1> QED
  BY <1>2, <1>3

\* As long as the buffer has not overflowed it holds every event.
LEMMA BufferHolds ==
  ASSUME TypeOK, Short, Fits
  PROVE  /\ Buffered = 1..Len(log)
         /\ \A id \in 0..Len(log) :
              BufferedAfter(id) = [i \in 1..(Len(log) - id) |-> id + i]
<1>1. Len(log) \in Nat /\ Len(log) <= Buffer /\ Buffer \in Nat
  BY LenProperties, StreamAssumption DEF TypeOK, StreamTypeOK, Short, Fits
<1>2. Buffered = 1..Len(log)
  BY <1>1 DEF Buffered
<1>3. ASSUME NEW id \in 0..Len(log)
      PROVE  BufferedAfter(id) = [i \in 1..(Len(log) - id) |-> id + i]
  <2>1. (IF Len(log) > Buffer THEN Len(log) - Buffer ELSE 0) = 0
    BY <1>1
  <2>2. (IF id > 0 THEN id ELSE 0) = id
    OBVIOUS
  <2> QED
    BY <2>1, <2>2 DEF BufferedAfter
<1> QED
  BY <1>2, <1>3

\* A queue with room takes everything.
LEMMA OfferedAll ==
  ASSUME NEW q \in Seq(Nat), NEW items \in Seq(Nat), Len(q) + Len(items) <= QueueCap
  PROVE  /\ Offered(q, items) \in Seq(Nat)
         /\ Len(Offered(q, items)) = Len(q) + Len(items)
         /\ \A i \in 1..(Len(q) + Len(items)) :
              Offered(q, items)[i] = IF i <= Len(q) THEN q[i] ELSE items[i - Len(q)]
<1> DEFINE all == q \o items
           n == Len(q) + Len(items)
<1>1. /\ all \in Seq(Nat) /\ Len(all) = n
      /\ \A i \in 1..n : all[i] = IF i <= Len(q) THEN q[i] ELSE items[i - Len(q)]
  BY ConcatProperties
<1>2. n \in Nat /\ n <= QueueCap /\ QueueCap \in Nat
  BY LenProperties, StreamAssumption
<1>3. Offered(q, items) = SubSeq(all, 1, IF Len(all) < QueueCap THEN Len(all) ELSE QueueCap)
  BY DEF Offered
<1> HIDE DEF all, n
<1>4. Offered(q, items) = SubSeq(all, 1, n)
  <2>1. (IF Len(all) < QueueCap THEN Len(all) ELSE QueueCap) = n
    BY <1>1, <1>2
  <2> QED
    BY <1>3, <2>1
<1>5. /\ SubSeq(all, 1, n) \in Seq(Nat) /\ Len(SubSeq(all, 1, n)) = n
      /\ \A i \in 1..n : SubSeq(all, 1, n)[i] = all[i]
  <2>1. \A i \in 1..n : all[i] \in Nat
    BY <1>1, <1>2, ElementOfSeq
  <2>2. /\ SubSeq(all, 1, n) \in Seq(Nat)
        /\ Len(SubSeq(all, 1, n)) = IF 1 <= n THEN n - 1 + 1 ELSE 0
        /\ \A i \in 1..(n - 1 + 1) : SubSeq(all, 1, n)[i] = all[1 + i - 1]
    BY <1>2, <2>1, SubSeqProperties
  <2> QED
    BY <1>2, <2>2
<1> QED
  BY <1>1, <1>4, <1>5 DEF n

\* How many marks publishing adds.
Marks(last) == IF last /\ ~closed THEN 1 ELSE 0

\* a items waited for c; k events and e marks came after them.
Grown(c, a, k, e) ==
  /\ Len(queue'[c]) = a + k + e
  /\ \A i \in 1..a : queue'[c][i] = queue[c][i]
  /\ \A i \in (a + 1)..(a + k) : queue'[c][i] = Len(log) + i - a
  /\ e = 1 => queue'[c][a + k + 1] = CloseMark

\* What is published reaches the queue of a connected client, and the mark after it.
LEMMA QueueGrows ==
  ASSUME TypeOK, NEW kinds \in Seq(Kinds), NEW last \in BOOLEAN,
         Publish(kinds, last), NEW c \in Clients, Connected(c),
         Len(queue[c]) + Len(kinds) + Marks(last) <= QueueCap
  PROVE  Grown(c, Len(queue[c]), Len(kinds), Marks(last))
<1>0. SUFFICES ASSUME NEW a \in Nat, NEW k \in Nat, NEW e \in Nat,
                      a = Len(queue[c]), k = Len(kinds), e = Marks(last)
               PROVE  Grown(c, a, k, e)
  BY LenProperties DEF TypeOK, StreamTypeOK, Marks
<1> DEFINE ids == [i \in 1..Len(kinds) |-> Len(log) + i]
           mark == IF last /\ ~closed THEN <<CloseMark>> ELSE <<>>
           l == Len(log)
<1>1. queue[c] \in Seq(Nat) /\ l \in Nat /\ QueueCap \in Nat
  BY LenProperties, StreamAssumption DEF TypeOK, StreamTypeOK
<1>2. queue'[c] = Offered(queue[c], ids \o mark)
  BY DEF Publish
<1>3. ids \in Seq(Nat) /\ Len(ids) = k /\ \A i \in 1..k : ids[i] = l + i
  BY <1>0, <1>1
<1>4. mark \in Seq(Nat) /\ Len(mark) = e /\ (e = 1 => mark[1] = CloseMark)
  <2>1. CASE last /\ ~closed
    BY <1>0, <2>1 DEF CloseMark, Marks
  <2>2. CASE ~(last /\ ~closed)
    BY <1>0, <2>2 DEF Marks
  <2> QED
    BY <2>1, <2>2
<1> HIDE DEF ids, mark, l
<1> DEFINE items == ids \o mark
<1>5. /\ items \in Seq(Nat) /\ Len(items) = k + e
      /\ \A i \in 1..(k + e) : items[i] = IF i <= k THEN ids[i] ELSE mark[i - k]
  <2>1. /\ items \in Seq(Nat) /\ Len(items) = Len(ids) + Len(mark)
        /\ \A i \in 1..(Len(ids) + Len(mark)) :
             items[i] = IF i <= Len(ids) THEN ids[i] ELSE mark[i - Len(ids)]
    BY <1>3, <1>4, ConcatProperties
  <2>2. Len(ids) = k /\ Len(mark) = e
    BY <1>3, <1>4
  <2> HIDE DEF items
  <2> QED
    BY <2>1, <2>2
<1> HIDE DEF items
<1>6. ASSUME NEW i \in 1..(k + e)
      PROVE  items[i] = IF i <= k THEN l + i ELSE CloseMark
  <2>1. CASE i <= k
    <3>1. i \in 1..k
      BY <2>1
    <3> QED
      BY <1>3, <1>5, <2>1, <3>1
  <2>2. CASE i > k
    <3>0. e = 0 \/ e = 1
      BY <1>0 DEF Marks
    <3>1. i - k = 1 /\ e = 1 /\ ~(i <= k)
      BY <2>2, <3>0
    <3> QED
      BY <1>4, <1>5, <3>1
  <2> QED
    BY <2>1, <2>2
<1>7. /\ queue'[c] \in Seq(Nat) /\ Len(queue'[c]) = a + (k + e)
      /\ \A i \in 1..(a + (k + e)) :
           queue'[c][i] = IF i <= a THEN queue[c][i] ELSE items[i - a]
  <2> DEFINE q == queue[c]
  <2>1. Len(q) + Len(items) <= QueueCap /\ q \in Seq(Nat) /\ items \in Seq(Nat)
    BY <1>0, <1>1, <1>5
  <2>2. queue'[c] = Offered(q, items)
    BY <1>2 DEF items
  <2>3. Len(q) = a /\ Len(items) = k + e
    BY <1>0, <1>5
  <2> HIDE DEF q
  <2>4. /\ Offered(q, items) \in Seq(Nat)
        /\ Len(Offered(q, items)) = Len(q) + Len(items)
        /\ \A i \in 1..(Len(q) + Len(items)) :
             Offered(q, items)[i] = IF i <= Len(q) THEN q[i] ELSE items[i - Len(q)]
    BY <2>1, OfferedAll
  <2> QED
    BY <2>2, <2>3, <2>4 DEF q
<1>8. ASSUME NEW i \in 1..a PROVE queue'[c][i] = queue[c][i]
  <2>1. i \in 1..(a + (k + e)) /\ i <= a
    OBVIOUS
  <2> QED
    BY <1>7, <2>1
<1>9. ASSUME NEW i \in (a + 1)..(a + k) PROVE queue'[c][i] = l + i - a
  <2>1. i - a \in 1..k /\ i \in 1..(a + (k + e)) /\ ~(i <= a) /\ l + (i - a) = l + i - a
    BY <1>1
  <2> QED
    BY <1>6, <1>7, <2>1
<1>10. e = 1 => queue'[c][a + k + 1] = CloseMark
  <2>1. e = 1 => a + k + 1 \in 1..(a + (k + e)) /\ (a + k + 1) - a = k + 1
                 /\ k + 1 \in 1..(k + e)
    OBVIOUS
  <2> QED
    BY <1>6, <1>7, <2>1
<1>11. Len(queue'[c]) = a + k + e
  <2>1. a + (k + e) = a + k + e
    OBVIOUS
  <2> QED
    BY <1>7, <2>1
<1> QED
  BY <1>8, <1>9, <1>10, <1>11 DEF Grown, l

\* Once the run is decided, no new terminal event can come.
LEMMA NoLateTerminal ==
  ASSUME TypeOK, OneOutcome, OneOutcome', status # "running", status' = status,
         NEW kinds \in Seq(Kinds), NEW last, Publish(kinds, last)
  PROVE  \A id \in 1..Len(log') : Terminal(id)' => id \in 1..Len(log) /\ Terminal(id)
<1>1. /\ Len(log') = Len(log) + Len(kinds) /\ Len(log) \in Nat /\ Len(kinds) \in Nat
      /\ \A i \in 1..Len(log) : log'[i] = log[i]
  BY Published, LenProperties DEF TypeOK, StreamTypeOK
<1>2. PICK id \in 1..Len(log) : Terminal(id)
  BY DEF OneOutcome
<1>3. id \in 1..Len(log') /\ Terminal(id)'
  BY <1>1, <1>2 DEF Terminal
<1>4. \A j \in 1..Len(log') : Terminal(j)' => j = id
  BY <1>3 DEF OneOutcome
<1> QED
  BY <1>2, <1>4

\* Publishing leaves a client with what it needs, when nothing is dropped.
LEMMA PublishServes ==
  ASSUME TypeOK, OneOutcome, OneOutcome', Short', Settled, Fits, NEW c \in Clients, Served(c),
         NEW kinds \in Seq(Kinds), NEW last \in BOOLEAN, Publish(kinds, last),
         status # "running" => status' = status
  PROVE  Served(c)'
<1> DEFINE n == Len(log)
           m == Len(log')
           k == Len(kinds)
           a == Len(queue[c])
           e == Marks(last)
           g == Len(got[c])
           d == Due(c)
<1>1. /\ m = n + k /\ \A i \in 1..n : log'[i] = log[i]
      /\ n \in Nat /\ k \in Nat /\ a \in Nat /\ g \in Nat /\ d \in Nat /\ e \in {0, 1}
      /\ closed \in BOOLEAN /\ late[c] \in BOOLEAN
  BY Published, LenProperties DEF TypeOK, StreamTypeOK, Due, Marks
<1>2. UNCHANGED <<got, replay, late, sent, conn>> /\ closed' = (closed \/ last)
  BY DEF Publish
<1>3. m <= MaxEvents + 4 /\ MaxEvents + 5 <= QueueCap /\ MaxEvents \in Nat /\ QueueCap \in Nat
  BY StreamAssumption DEF Short, Fits
<1>4. Ordered(c)' /\ g <= n
  BY <1>1, <1>2 DEF Served, Ordered
<1>5. CASE ~Connected(c)
  BY <1>2, <1>4, <1>5 DEF Served, Connected
<1>6. CASE Connected(c)
  <2>1. PICK p \in 1..(a + 1) : Lined(c, p)
    BY <1>6 DEF Served
  <2>2. /\ d + a = n + IF p <= a THEN 1 ELSE 0
        /\ p <= a <=> closed /\ ~late[c]
        /\ late[c] => closed
    BY <2>1 DEF Lined
  <2>3. e = IF last /\ ~closed THEN 1 ELSE 0
    BY DEF Marks
  <2>4. p <= a => closed /\ e = 0
    BY <2>2, <2>3
  <2>5. a + k + e <= QueueCap
    <3> HIDE DEF a, d, e, n, m, k, g
    <3> QED
      BY <1>1, <1>3, <2>2, <2>4
  <2>6. Grown(c, a, k, e)
    BY <1>6, <2>5, QueueGrows
  <2>60. /\ Len(queue'[c]) = a + k + e
         /\ \A i \in 1..a : queue'[c][i] = queue[c][i]
         /\ \A i \in (a + 1)..(a + k) : queue'[c][i] = n + i - a
         /\ e = 1 => queue'[c][a + k + 1] = CloseMark
    BY <2>6 DEF Grown
  <2>70. PICK p2 \in Nat : p2 = IF p <= a THEN p ELSE a + k + 1
    BY <1>1
  <2>7. p2 \in 1..(a + k + e + 1)
    BY <1>1, <2>70
  <2>8. Lined(c, p2)'
    <3>1. \A i \in 1..Len(replay'[c]) : replay'[c][i] = Len(got'[c]) + i
      BY <1>2, <2>1 DEF Lined
    <3>2. Due(c)' = d
      BY <1>2 DEF Due
    <3>3. \A i \in 1..a :
            queue[c][i] = IF i < p THEN d + i ELSE IF i = p THEN CloseMark ELSE d + i - 1
      BY <2>1 DEF Lined
    <3>4. p2 <= a + k + e <=> closed' /\ ~late'[c]
      <4>0. closed' <=> closed \/ last
        BY <1>2
      <4>1. CASE p <= a
        BY <1>1, <1>2, <2>2, <4>0, <4>1, <2>70
      <4>2. CASE ~(p <= a) /\ last /\ ~closed
        <5>1. e = 1 /\ p2 = a + k + 1 /\ p2 <= a + k + e
          BY <2>70, <1>1, <2>3, <4>2
        <5>2. closed' /\ ~late'[c]
          BY <1>2, <2>2, <4>0, <4>2
        <5> QED
          BY <5>1, <5>2
      <4>3. CASE ~(p <= a) /\ (closed \/ ~last)
        <5>1. ~(p2 <= a + k + e)
          <6>1. e = 0
            BY <2>3, <4>3
          <6>2. p2 = a + k + 1
            BY <2>70, <4>3
          <6> HIDE DEF a, k, e
          <6> QED
            BY <1>1, <6>1, <6>2
        <5>2. ~(closed' /\ ~late'[c])
          BY <1>2, <2>2, <4>0, <4>3
        <5> QED
          BY <5>1, <5>2
      <4> QED
        BY <4>1, <4>2, <4>3
    <3>5. closed' => \A id \in 1..m : Terminal(id)' =>
            id <= IF late'[c] THEN d ELSE d + p2 - 1
      <4>1. CASE ~closed
        <5>1. ~late'[c] /\ ~(p <= a)
          BY <1>2, <2>2, <4>1
        <5>2. d + p2 - 1 = m
          <6>1. p2 = a + k + 1
            BY <2>70, <5>1
          <6> HIDE DEF a, k, d, n, m
          <6> QED
            BY <1>1, <2>2, <5>1, <6>1
        <5> QED
          BY <1>1, <5>1, <5>2
      <4>2. CASE closed
        <5>1. \A id \in 1..m : Terminal(id)' => id \in 1..n /\ Terminal(id)
          BY <4>2, NoLateTerminal DEF Settled
        <5>2. \A id \in 1..n : Terminal(id) => id <= IF late[c] THEN d ELSE d + p - 1
          BY <2>1, <4>2 DEF Lined
        <5>3. late[c] \/ p2 = p
          BY <2>70, <2>2, <4>2
        <5> QED
          BY <1>2, <5>1, <5>2, <5>3
      <4> QED
        BY <4>1, <4>2
    <3>6. late'[c] => closed'
      BY <1>2, <2>2
    <3>7. \A id \in 1..Len(got'[c]) : Terminal(id)' => sent'[c]
      <4>1. \A id \in 1..g : Terminal(id) => sent[c]
        BY <2>1 DEF Lined
      <4>2. \A id \in 1..g : log'[id] = log[id]
        <5> HIDE DEF g, n
        <5> QED
          BY <1>1, <1>4
      <4> QED
        BY <1>2, <4>1, <4>2 DEF Terminal
    <3>8. conn'[c] = "live" => replay'[c] = <<>> /\ ~late'[c]
      BY <1>2, <2>1 DEF Lined
    <3> HIDE DEF a, d, e, n, m, k, g
    <3>90. a \in Nat /\ k \in Nat /\ n \in Nat /\ d \in Nat /\ e \in {0, 1} /\ m = n + k
      BY <1>1
    <3>91. p <= a => d + a = n + 1 /\ e = 0 /\ p2 = p
      BY <2>2, <2>4, <2>70
    <3>92. ~(p <= a) => d + a = n /\ p = a + 1 /\ p2 = a + k + 1
      BY <2>2, <2>70, <3>90
    <3>9. d + (a + k + e) = m + IF p2 <= a + k + e THEN 1 ELSE 0
      BY <3>90, <3>91, <3>92
    <3>10. ASSUME NEW i \in 1..(a + k + e)
           PROVE  queue'[c][i] = IF i < p2 THEN d + i
                                 ELSE IF i = p2 THEN CloseMark ELSE d + i - 1
      <4>1. CASE i <= a
        <5>1. i \in 1..a /\ (i < p2 <=> i < p) /\ (i = p2 <=> i = p)
          BY <3>90, <3>91, <3>92, <4>1
        <5> QED
          BY <2>60, <3>3, <5>1
      <4>2. CASE i > a /\ i <= a + k
        <5>1. i \in (a + 1)..(a + k)
          BY <3>90, <4>2
        <5>2. CASE p <= a
          <6>1. ~(i < p2) /\ i # p2 /\ d + i - 1 = n + i - a
            BY <3>90, <3>91, <4>2, <5>2
          <6> QED
            BY <2>60, <5>1, <6>1
        <5>3. CASE ~(p <= a)
          <6>1. i < p2 /\ d + i = n + i - a
            BY <3>90, <3>92, <4>2, <5>3
          <6> QED
            BY <2>60, <5>1, <6>1
        <5> QED
          BY <5>2, <5>3
      <4>3. CASE i > a + k
        <5>1. i = a + k + 1 /\ i = p2 /\ e = 1 /\ ~(i < p2)
          BY <3>90, <3>91, <3>92, <4>3
        <5> QED
          BY <2>60, <5>1
      <4> QED
        BY <3>90, <4>1, <4>2, <4>3
    <3>11. Len(queue'[c]) = a + k + e
      BY <2>60
    <3>12. \A i \in 1..Len(queue'[c]) :
             queue'[c][i] = IF i < p2 THEN Due(c)' + i
                            ELSE IF i = p2 THEN CloseMark ELSE Due(c)' + i - 1
      BY <3>2, <3>10, <3>11
    <3>13. /\ Due(c)' + Len(queue'[c]) = Len(log') + IF p2 <= Len(queue'[c]) THEN 1 ELSE 0
           /\ p2 <= Len(queue'[c]) <=> closed' /\ ~late'[c]
      BY <3>2, <3>4, <3>9, <3>11 DEF m
    <3>14. closed' => \A id \in 1..Len(log') : Terminal(id)' =>
             id <= IF late'[c] THEN Due(c)' ELSE Due(c)' + p2 - 1
      BY <3>2, <3>5 DEF m
    <3> QED
      BY <3>1, <3>6, <3>7, <3>8, <3>12, <3>13, <3>14, Zenon DEF Lined
  <2>9. \E p3 \in 1..(Len(queue'[c]) + 1) : Lined(c, p3)'
    <3>1. Len(queue'[c]) + 1 = a + k + e + 1
      BY <2>60
    <3> HIDE DEF a, k, e
    <3> QED
      BY <2>7, <2>8, <3>1, Zenon
  <2> QED
    BY <1>4, <2>9 DEF Served
<1> QED
  BY <1>5, <1>6

(***************************************************************************)
(* Steps of the run and of the clients keep the feed                       *)
(***************************************************************************)

\* A client none of whose variables change, while the stream stands still.
LEMMA SameServed ==
  ASSUME NEW c \in Clients, Served(c), UNCHANGED streamVars,
         conn'[c] = conn[c] \/ conn'[c] = "away", got'[c] = got[c],
         conn'[c] # "away" => /\ queue'[c] = queue[c] /\ replay'[c] = replay[c]
                              /\ late'[c] = late[c] /\ sent'[c] = sent[c]
  PROVE  Served(c)'
<1>1. Ordered(c)'
  BY DEF Served, Ordered, streamVars
<1>2. ASSUME Connected(c)', NEW p \in 1..(Len(queue[c]) + 1), Lined(c, p)
      PROVE  Lined(c, p)'
  BY <1>2 DEF Connected, Lined, Due, Terminal, streamVars
<1> QED
  BY <1>1, <1>2 DEF Served, Connected

\* A client that connects is owed what it has not got.
LEMMA SubscribeServes ==
  ASSUME TypeOK, OneOutcome, Short, Fits, NEW c \in Clients, Served(c), Subscribe(c)
  PROVE  Served(c)'
<1> DEFINE n == Len(log)
           g == Len(got[c])
<1>1. /\ LastGot(c) = g /\ g \in Nat /\ n \in Nat /\ g <= n
      /\ Buffered = 1..n
      /\ BufferedAfter(g) = [i \in 1..(n - g) |-> g + i]
  <2>1. LastGot(c) = g /\ g \in Nat /\ g <= n
    BY LastGotIs DEF Served, Ordered
  <2>2. n \in Nat
    BY LenProperties DEF TypeOK, StreamTypeOK
  <2>3. /\ Buffered = 1..n
        /\ \A id \in 0..n : BufferedAfter(id) = [i \in 1..(n - id) |-> id + i]
    BY BufferHolds, Zenon
  <2> HIDE DEF g, n
  <2> QED
    BY <2>1, <2>2, <2>3
<1>2. /\ replay'[c] = BufferedAfter(g) /\ queue'[c] = <<>>
      /\ (late'[c] <=> closed) /\ conn'[c] = "replaying"
      /\ UNCHANGED <<log, closed, got>>
      /\ sent'[c] <=> g \in Buffered /\ \E id \in Buffered : id <= g /\ Terminal(id)
  <2>1. g = 0 \/ g \in Buffered
    BY <1>1
  <2>2. replay'[c] = IF g = 0 \/ g \in Buffered THEN BufferedAfter(g) ELSE <<>>
    BY <1>1 DEF Subscribe, TypeOK, StreamTypeOK
  <2>3. sent'[c] = (g \in Buffered /\ \E id \in Buffered : id <= g /\ Terminal(id))
    BY <1>1 DEF Subscribe, TypeOK, StreamTypeOK
  <2>4. /\ queue'[c] = <<>> /\ late'[c] = closed /\ conn'[c] = "replaying"
        /\ UNCHANGED <<log, closed, got>>
    BY DEF Subscribe, TypeOK, StreamTypeOK, streamVars
  <2> HIDE DEF g
  <2> QED
    BY <2>1, <2>2, <2>3, <2>4
<1>3. Ordered(c)'
  BY <1>2 DEF Served, Ordered
<1> HIDE DEF g, n
<1>4. Len(replay'[c]) = n - g /\ \A i \in 1..(n - g) : replay'[c][i] = g + i
  BY <1>1, <1>2
<1>5. Len(queue'[c]) = 0 /\ Len(got'[c]) = g /\ Len(log') = n
  BY <1>2 DEF g, n
<1>6. Due(c)' = n
  BY <1>1, <1>4, <1>5 DEF Due
<1>7. Lined(c, 1)'
  <2>1. \A i \in 1..Len(replay'[c]) : replay'[c][i] = Len(got'[c]) + i
    BY <1>4, <1>5
  <2>2. \A i \in 1..Len(queue'[c]) : queue'[c][i] =
          IF i < 1 THEN Due(c)' + i ELSE IF i = 1 THEN CloseMark ELSE Due(c)' + i - 1
    BY <1>5
  <2>3. /\ Due(c)' + Len(queue'[c]) = Len(log') + IF 1 <= Len(queue'[c]) THEN 1 ELSE 0
        /\ ~(1 <= Len(queue'[c]))
    BY <1>1, <1>5, <1>6
  <2>4. closed' /\ ~late'[c] <=> FALSE
    BY <1>2
  <2>5. closed' => \A id \in 1..Len(log') : Terminal(id)' =>
          id <= IF late'[c] THEN Due(c)' ELSE Due(c)' + 1 - 1
    BY <1>1, <1>5, <1>6
  <2>6. late'[c] => closed'
    BY <1>2
  <2>7. ASSUME NEW id \in 1..Len(got'[c]), Terminal(id)' PROVE sent'[c]
    <3>1. id \in 1..g /\ Terminal(id)
      BY <1>2, <1>5, <2>7 DEF Terminal
    <3>2. g \in Buffered /\ id \in Buffered /\ id <= g
      BY <1>1, <3>1
    <3> QED
      BY <1>2, <3>1, <3>2
  <2>8. conn'[c] = "live" => replay'[c] = <<>> /\ ~late'[c]
    BY <1>2
  <2> QED
    BY <2>1, <2>2, <2>3, <2>4, <2>5, <2>6, <2>7, <2>8, Zenon DEF Lined
<1>8. 1 \in 1..(Len(queue'[c]) + 1)
  BY <1>5
<1> QED
  BY <1>3, <1>7, <1>8 DEF Served

\* What a client receives is its next event: it has then received one more, and
\* knows of the terminal event if this was it.
LEMMA Received ==
  ASSUME TypeOK, OneOutcome, ToldTruth, NEW c \in Clients, Served(c), UNCHANGED <<log, status>>,
         NEW id \in Nat, id = Len(got[c]) + 1, id <= Len(log), Receive(c, id)
  PROVE  /\ Ordered(c)' /\ Len(got'[c]) = Len(got[c]) + 1
         /\ (\A i \in 1..Len(got[c]) : Terminal(i) => sent[c]) =>
              \A i \in 1..Len(got'[c]) : Terminal(i)' => sent'[c]
         /\ \A d \in Clients \ {c} : got'[d] = got[d] /\ sent'[d] = sent[d]
         /\ told' = told \/ (status # "running" /\ told' = [told EXCEPT ![c] = status])
         /\ LastGot(c)' = LastGot(c) + 1
<1> DEFINE g == Len(got[c])
           more == Append(got[c], id)
<1>1. /\ got[c] \in Seq(Nat) /\ g \in Nat /\ Len(log) \in Nat
      /\ got' = [got EXCEPT ![c] = more]
      /\ sent' = [sent EXCEPT ![c] = @ \/ Terminal(id)]
      /\ told' = [told EXCEPT ![c] = IF Terminal(id) THEN Outcome(log[id]) ELSE @]
  BY LenProperties DEF Receive, TypeOK, StreamTypeOK
<1>2. /\ Len(more) = g + 1 /\ more[g + 1] = id /\ more # <<>>
      /\ \A i \in 1..g : more[i] = got[c][i]
  BY <1>1, AppendProperties
<1>3. got'[c] = more /\ \A d \in Clients \ {c} : got'[d] = got[d]
  BY <1>1 DEF TypeOK, StreamTypeOK
<1>4. (sent'[c] <=> sent[c] \/ Terminal(id)) /\ \A d \in Clients \ {c} : sent'[d] = sent[d]
  BY <1>1 DEF TypeOK, StreamTypeOK
<1> HIDE DEF more
<1>5. g <= Len(log) /\ \A i \in 1..g : got[c][i] = i
  BY DEF Served, Ordered
<1>6. /\ Len(got'[c]) = g + 1 /\ g + 1 <= Len(log)
      /\ \A i \in 1..(g + 1) : got'[c][i] = i
  <2> HIDE DEF g
  <2>1. g + 1 = id /\ g + 1 <= Len(log)
    BY DEF g
  <2>2. ASSUME NEW i \in 1..(g + 1) PROVE more[i] = i
    <3>1. i \in 1..g \/ i = g + 1
      BY <1>1
    <3> QED
      BY <1>2, <1>5, <2>1, <3>1
  <2> QED
    BY <1>2, <1>3, <2>1, <2>2
<1>7. Ordered(c)'
  BY <1>6 DEF Ordered
<1>8. ASSUME \A i \in 1..g : Terminal(i) => sent[c], NEW i \in 1..(g + 1), Terminal(i)'
      PROVE  sent'[c]
  <2>1. Terminal(i)
    BY <1>8 DEF Terminal
  <2>2. i \in 1..g \/ i = id
    BY <1>1
  <2> QED
    BY <1>4, <1>8, <2>1, <2>2
<1>9. told' = told \/ (status # "running" /\ told' = [told EXCEPT ![c] = status])
  <2>1. CASE Terminal(id)
    <3>1. id \in 1..Len(log)
      BY <1>1
    <3>2. status # "running" /\ log[id] = Phase(status)
      BY <2>1, <3>1 DEF OneOutcome
    <3>3. Outcome(log[id]) = status
      BY <3>2 DEF Outcome, Phase, TypeOK, RunTypeOK, Outcomes
    <3> QED
      BY <1>1, <2>1, <3>2, <3>3
  <2>2. CASE ~Terminal(id)
    BY <1>1, <2>2 DEF TypeOK, StreamTypeOK
  <2> QED
    BY <2>1, <2>2
<1>10. LastGot(c)' = g + 1 /\ LastGot(c) = g
  BY <1>2, <1>3, <1>6, LastGotIs DEF LastGot, Served
<1> QED
  BY <1>3, <1>4, <1>6, <1>7, <1>8, <1>9, <1>10

\* Sending from the replay keeps a client served.
LEMMA ReplayServes ==
  ASSUME TypeOK, OneOutcome, ToldTruth, NEW c \in Clients, Served(c), SendReplay(c)
  PROVE  /\ Served(c)'
         /\ LastGot(c) < Len(log) /\ LastGot(c)' = LastGot(c) + 1
         /\ \A d \in Clients \ {c} : got'[d] = got[d] /\ sent'[d] = sent[d]
         /\ told' = told \/ (status # "running" /\ told' = [told EXCEPT ![c] = status])
<1> DEFINE n == Len(log)
           g == Len(got[c])
           r == Len(replay[c])
           a == Len(queue[c])
           id == Head(replay[c])
<1>1. /\ replay[c] \in Seq(Nat) /\ replay[c] # <<>> /\ r \in Nat /\ r > 0
      /\ n \in Nat /\ g \in Nat /\ a \in Nat /\ conn[c] = "replaying"
  BY LenProperties, EmptySeq DEF SendReplay, TypeOK, StreamTypeOK
<1>2. PICK p \in 1..(a + 1) : Lined(c, p)
  BY <1>1 DEF Served, Connected
<1>3. /\ id = replay[c][1] /\ Len(Tail(replay[c])) = r - 1
      /\ \A i \in 1..(r - 1) : Tail(replay[c])[i] = replay[c][i + 1]
  BY <1>1, HeadTailProperties
<1>4. id = g + 1 /\ id \in Nat /\ id <= n
  <2>1. /\ \A i \in 1..r : replay[c][i] = g + i
        /\ g + r + a = n + IF p <= a THEN 1 ELSE 0
    BY <1>2 DEF Lined, Due
  <2> HIDE DEF n, g, r, a, id
  <2> QED
    BY <1>1, <1>3, <2>1
<1>5. /\ Receive(c, id) /\ UNCHANGED <<runVars, streamVars, conn, queue, late>>
      /\ replay'[c] = Tail(replay[c])
  BY <1>1 DEF SendReplay, TypeOK, StreamTypeOK
<1>6. UNCHANGED <<log, closed, status>>
  BY <1>5 DEF runVars, streamVars
<1> HIDE DEF id
<1>7. /\ Ordered(c)' /\ Len(got'[c]) = g + 1
      /\ (\A i \in 1..g : Terminal(i) => sent[c]) =>
           \A i \in 1..Len(got'[c]) : Terminal(i)' => sent'[c]
      /\ \A d \in Clients \ {c} : got'[d] = got[d] /\ sent'[d] = sent[d]
      /\ told' = told \/ (status # "running" /\ told' = [told EXCEPT ![c] = status])
      /\ LastGot(c)' = LastGot(c) + 1
  BY <1>4, <1>5, <1>6, Received
<1>8. Due(c)' = Due(c) /\ Due(c) \in Nat
  <2>1. Len(replay'[c]) = r - 1
    BY <1>3, <1>5
  <2>2. Due(c)' = Len(got'[c]) + Len(replay'[c]) /\ Due(c) = g + r
    BY DEF Due
  <2> HIDE DEF g, r
  <2> QED
    BY <1>1, <1>7, <2>1, <2>2
<1>9. Lined(c, p)'
  <2>1. \A i \in 1..Len(replay'[c]) : replay'[c][i] = Len(got'[c]) + i
    <3>1. \A i \in 1..r : replay[c][i] = g + i
      BY <1>2 DEF Lined
    <3>2. Len(replay'[c]) = r - 1 /\ \A i \in 1..(r - 1) : replay'[c][i] = replay[c][i + 1]
      BY <1>3, <1>5
    <3>3. g \in Nat /\ r \in Nat /\ Len(got'[c]) = g + 1
      BY <1>1, <1>7
    <3> HIDE DEF g, r
    <3>4. ASSUME NEW i \in 1..(r - 1) PROVE replay'[c][i] = (g + 1) + i
      <4>1. i + 1 \in 1..r /\ g + (i + 1) = (g + 1) + i
        BY <3>3
      <4> QED
        BY <3>1, <3>2, <4>1
    <3> QED
      BY <3>2, <3>3, <3>4
  <2>2. UNCHANGED <<queue, late, conn>> /\ \A i \in Nat : Terminal(i)' <=> Terminal(i)
    BY <1>5, <1>6 DEF Terminal
  <2>3. \A i \in 1..Len(got'[c]) : Terminal(i)' => sent'[c]
    BY <1>2, <1>7 DEF Lined
  <2>4. conn'[c] # "live"
    BY <1>1, <1>5
  <2>5. /\ \A i \in 1..Len(queue'[c]) : queue'[c][i] =
             IF i < p THEN Due(c)' + i ELSE IF i = p THEN CloseMark ELSE Due(c)' + i - 1
        /\ Due(c)' + Len(queue'[c]) = Len(log') + IF p <= Len(queue'[c]) THEN 1 ELSE 0
        /\ p <= Len(queue'[c]) <=> closed' /\ ~late'[c]
        /\ late'[c] => closed'
    BY <1>2, <1>6, <1>8, <2>2 DEF Lined
  <2>6. closed' => \A i \in 1..Len(log') : Terminal(i)' =>
          i <= IF late'[c] THEN Due(c)' ELSE Due(c)' + p - 1
    BY <1>1, <1>2, <1>6, <1>8, <2>2 DEF Lined
  <2> QED
    BY <2>1, <2>3, <2>4, <2>5, <2>6, Zenon DEF Lined
<1>10. LastGot(c) < n
  BY <1>1, <1>4, LastGotIs DEF Served
<1>11. p \in 1..(Len(queue'[c]) + 1)
  BY <1>5
<1> QED
  BY <1>7, <1>9, <1>10, <1>11 DEF Served

\* Sending from the queue keeps a client served.
LEMMA QueueServes ==
  ASSUME TypeOK, OneOutcome, ToldTruth, NEW c \in Clients, Served(c), SendQueued(c)
  PROVE  /\ Served(c)'
         /\ LastGot(c) < Len(log) /\ LastGot(c)' = LastGot(c) + 1
         /\ \A d \in Clients \ {c} : got'[d] = got[d] /\ sent'[d] = sent[d]
         /\ told' = told \/ (status # "running" /\ told' = [told EXCEPT ![c] = status])
<1> DEFINE n == Len(log)
           g == Len(got[c])
           a == Len(queue[c])
           id == Head(queue[c])
<1>1. /\ queue[c] \in Seq(Nat) /\ queue[c] # <<>> /\ a \in Nat /\ a > 0
      /\ n \in Nat /\ g \in Nat /\ conn[c] = "live" /\ id # CloseMark
  BY LenProperties, EmptySeq DEF SendQueued, TypeOK, StreamTypeOK
<1>2. PICK p \in 1..(a + 1) : Lined(c, p)
  BY <1>1 DEF Served, Connected
<1>3. /\ id = queue[c][1] /\ Len(Tail(queue[c])) = a - 1
      /\ \A i \in 1..(a - 1) : Tail(queue[c])[i] = queue[c][i + 1]
  BY <1>1, HeadTailProperties
<1>4. replay[c] = <<>> /\ ~late[c] /\ Due(c) = g
  <2>1. replay[c] = <<>> /\ ~late[c]
    BY <1>1, <1>2 DEF Lined
  <2> QED
    BY <1>1, <2>1 DEF Due
<1>5. /\ \A i \in 1..a :
           queue[c][i] = IF i < p THEN g + i ELSE IF i = p THEN CloseMark ELSE g + i - 1
      /\ g + a = n + IF p <= a THEN 1 ELSE 0
      /\ p <= a <=> closed
  BY <1>2, <1>4 DEF Lined
<1>6. p # 1 /\ id = g + 1 /\ id \in Nat /\ id <= n
  <2> HIDE DEF n, g, a, id
  <2> QED
    BY <1>1, <1>3, <1>5
<1>7. /\ Receive(c, id) /\ UNCHANGED <<runVars, streamVars, conn, replay, late>>
      /\ queue'[c] = Tail(queue[c])
  BY <1>1 DEF SendQueued, TypeOK, StreamTypeOK
<1>8. UNCHANGED <<log, closed, status>>
  BY <1>7 DEF runVars, streamVars
<1> HIDE DEF id
<1>9. /\ Ordered(c)' /\ Len(got'[c]) = g + 1
      /\ (\A i \in 1..g : Terminal(i) => sent[c]) =>
           \A i \in 1..Len(got'[c]) : Terminal(i)' => sent'[c]
      /\ \A d \in Clients \ {c} : got'[d] = got[d] /\ sent'[d] = sent[d]
      /\ told' = told \/ (status # "running" /\ told' = [told EXCEPT ![c] = status])
      /\ LastGot(c)' = LastGot(c) + 1
  BY <1>6, <1>7, <1>8, Received
<1>10. /\ Due(c)' = g + 1 /\ Len(queue'[c]) = a - 1
       /\ \A i \in 1..(a - 1) : queue'[c][i] = queue[c][i + 1]
  <2>1. Len(replay'[c]) = 0 /\ Due(c)' = Len(got'[c]) + Len(replay'[c])
    BY <1>4, <1>7 DEF Due
  <2>2. Due(c)' = g + 1
    BY <1>1, <1>9, <2>1
  <2> QED
    BY <1>3, <1>7, <2>2
<1>11. p - 1 \in 1..(Len(queue'[c]) + 1)
  <2> HIDE DEF a
  <2> QED
    BY <1>1, <1>6, <1>10
<1>12. Lined(c, p - 1)'
  <2>1. \A i \in 1..Len(replay'[c]) : replay'[c][i] = Len(got'[c]) + i
    BY <1>4, <1>7
  <2>2. UNCHANGED <<replay, late, conn>> /\ \A i \in Nat : Terminal(i)' <=> Terminal(i)
    BY <1>7, <1>8 DEF Terminal
  <2>3. \A i \in 1..Len(got'[c]) : Terminal(i)' => sent'[c]
    BY <1>2, <1>9 DEF Lined
  <2>4. conn'[c] = "live" => replay'[c] = <<>> /\ ~late'[c]
    BY <1>4, <2>2
  <2>5. \A i \in 1..Len(queue'[c]) : queue'[c][i] =
          IF i < p - 1 THEN Due(c)' + i ELSE IF i = p - 1 THEN CloseMark ELSE Due(c)' + i - 1
    <3> SUFFICES ASSUME NEW i \in 1..(a - 1)
                 PROVE  queue'[c][i] = IF i < p - 1 THEN g + 1 + i
                          ELSE IF i = p - 1 THEN CloseMark ELSE g + 1 + i - 1
      BY <1>10
    <3> HIDE DEF g, a
    <3> QED
      BY <1>1, <1>5, <1>10
  <2>6. Due(c)' + Len(queue'[c]) = Len(log') + IF p - 1 <= Len(queue'[c]) THEN 1 ELSE 0
    <3>1. Len(log') = n
      BY <1>8
    <3> HIDE DEF n, g, a
    <3> QED
      BY <1>1, <1>5, <1>10, <3>1
  <2>7. p - 1 <= Len(queue'[c]) <=> closed' /\ ~late'[c]
    <3>1. p - 1 <= Len(queue'[c]) <=> p <= a
      BY <1>1, <1>10
    <3> QED
      BY <1>4, <1>5, <1>8, <2>2, <3>1
  <2>8. closed' => \A i \in 1..Len(log') : Terminal(i)' =>
          i <= IF late'[c] THEN Due(c)' ELSE Due(c)' + (p - 1) - 1
    <3>1. closed => \A i \in 1..n : Terminal(i) => i <= g + p - 1
      BY <1>2, <1>4 DEF Lined
    <3>2. (g + 1) + (p - 1) - 1 = g + p - 1
      <4> HIDE DEF g, a
      <4> QED
        BY <1>1
    <3> QED
      BY <1>4, <1>8, <1>10, <2>2, <3>1, <3>2
  <2> QED
    BY <1>4, <2>1, <2>2, <2>3, <2>4, <2>5, <2>6, <2>7, <2>8, Zenon DEF Lined
<1>13. LastGot(c) < n
  BY <1>1, <1>6, LastGotIs DEF Served
<1> QED
  BY <1>9, <1>11, <1>12, <1>13 DEF Served

\* A client that has everything from the buffer reads its queue from now on.
LEMMA LiveServes ==
  ASSUME NEW c \in Clients, TypeOK, Served(c), GoLive(c)
  PROVE  Served(c)'
<1>1. PICK p \in 1..(Len(queue[c]) + 1) : Lined(c, p)
  BY DEF Served, Connected, GoLive
<1>2. /\ UNCHANGED <<streamVars, replay, queue, late, sent, got>>
      /\ replay[c] = <<>> /\ ~late[c]
  BY DEF GoLive
<1>3. Ordered(c)'
  BY <1>2 DEF Served, Ordered, streamVars
<1>4. Lined(c, p)'
  BY <1>1, <1>2 DEF Lined, Due, Terminal, streamVars
<1> QED
  BY <1>2, <1>3, <1>4 DEF Served

\* When its generator is done, a client has the event that ended the run.
LEMMA LeaversKnow ==
  ASSUME TypeOK, OneOutcome, Settled, NEW c \in Clients, Served(c)
  PROVE  /\ EndReplay(c) \/ SeeClosed(c) => sent[c]
         /\ ~StreamTimeout(c)
<1> DEFINE n == Len(log)
           g == Len(got[c])
<1>1. n \in Nat /\ g \in Nat /\ <<>> \in Seq(Nat) /\ Len(<<>>) = 0
  BY LenProperties DEF TypeOK, StreamTypeOK
<1>2. ASSUME EndReplay(c) \/ SeeClosed(c) PROVE sent[c]
  <2>1. PICK p \in 1..(Len(queue[c]) + 1) : Lined(c, p)
    BY <1>2 DEF Served, Connected, EndReplay, SeeClosed
  <2>2. replay[c] = <<>> /\ Due(c) = g
    <3>1. replay[c] = <<>>
      BY <1>2, <2>1 DEF EndReplay, SeeClosed, Lined
    <3> QED
      BY <1>1, <3>1 DEF Due
  <2>3. closed /\ (late[c] \/ p = 1)
    <3>1. CASE EndReplay(c)
      BY <2>1, <3>1 DEF EndReplay, Lined
    <3>2. CASE SeeClosed(c)
      <4>1. queue[c] # <<>> /\ Head(queue[c]) = 0 /\ queue[c] \in Seq(Nat)
        BY <3>2 DEF SeeClosed, CloseMark, TypeOK, StreamTypeOK
      <4>2. Len(queue[c]) \in Nat /\ 1 \in 1..Len(queue[c]) /\ queue[c][1] = 0
        BY <4>1, HeadTailProperties, LenProperties, EmptySeq
      <4>3. queue[c][1] = IF 1 < p THEN g + 1 ELSE IF 1 = p THEN CloseMark ELSE g
        BY <1>1, <2>1, <2>2, <4>2 DEF Lined
      <4>4. p = 1
        BY <1>1, <4>2, <4>3
      <4>5. p <= Len(queue[c])
        BY <4>2, <4>4
      <4> QED
        BY <2>1, <4>4, <4>5 DEF Lined
    <3> QED
      BY <1>2, <3>1, <3>2
  <2>4. PICK id \in 1..n : Terminal(id)
    BY <2>3 DEF OneOutcome, Settled
  <2>5. id <= IF late[c] THEN g ELSE g + p - 1
    BY <2>1, <2>2, <2>3, <2>4 DEF Lined
  <2>6. id \in 1..g
    BY <1>1, <2>3, <2>5
  <2> QED
    BY <2>1, <2>4, <2>6 DEF Lined
<1>3. ASSUME StreamTimeout(c) PROVE FALSE
  <2>1. PICK p \in 1..(Len(queue[c]) + 1) : Lined(c, p)
    BY <1>3 DEF Served, Connected, StreamTimeout
  <2>2. closed /\ ~late[c] /\ Len(queue[c]) = 0
    BY <1>1, <1>3, <2>1 DEF StreamTimeout, Settled, Lined
  <2>3. p <= Len(queue[c])
    BY <2>1, <2>2 DEF Lined
  <2> QED
    BY <2>2, <2>3
<1> QED
  BY <1>2, <1>3

(***************************************************************************)
(* The stream implements the feed                                          *)
(***************************************************************************)

Position == [c \in Clients |-> LastGot(c)]

FeedVars == <<status, Len(log), Position, told>>

\* The feed's steps, in terms of the stream's variables.
LEMMA FeedSteps ==
  /\ \A c \in Clients : Feed!Read(c) <=>
       /\ LastGot(c) < Len(log)
       /\ Position' = [Position EXCEPT ![c] = LastGot(c) + 1]
       /\ told' = told \/ (status # Unknown /\ told' = [told EXCEPT ![c] = status])
       /\ UNCHANGED <<status, Len(log)>>
  /\ \A c \in Clients : Feed!Restart(c) <=>
       /\ Position' = [Position EXCEPT ![c] = 0]
       /\ told' = [told EXCEPT ![c] = Unknown]
       /\ UNCHANGED <<status, Len(log)>>
  /\ Feed!Extend <=>
       /\ Len(log)' \in Nat /\ Len(log') > Len(log)
       /\ status' = status \/ (status = Unknown /\ status' \in Outcomes)
       /\ UNCHANGED <<Position, told>>
  /\ UNCHANGED FeedVars => UNCHANGED Feed!feedVars
BY DEF Feed!Read, Feed!Restart, Feed!Extend, Feed!feedVars, Position, FeedVars

\* A step of the run extends the feed, or does not show.
LEMMA RunFeeds ==
  ASSUME TypeOK, TypeOK', OneOutcome, OneOutcome', Short', Settled, Fits, FeedInv, Abort \/ Execute
  PROVE  FeedInv' /\ [Feed!FeedNext]_(Feed!feedVars)
<1>1. /\ UNCHANGED <<streamVars, clientVars, status>>
         \/ \E n \in Nat, last \in BOOLEAN : Adds(n, last) /\ (status' # status => n > 0)
      /\ status # "running" => status' = status
  <2> DEFINE E == \E n \in Nat, last \in BOOLEAN : Adds(n, last) /\ (status' # status => n > 0)
  <2>1. /\ Adds(1, TRUE) \/ Adds(1, FALSE) \/ Adds(2, TRUE) \/ Adds(4, TRUE) => E
        /\ status' = status /\ (Adds(0, TRUE) \/ Adds(0, FALSE)) => E
    <3>1. /\ 0 \in Nat /\ 1 \in Nat /\ 2 \in Nat /\ 4 \in Nat /\ 1 > 0 /\ 2 > 0 /\ 4 > 0
          /\ TRUE \in BOOLEAN /\ FALSE \in BOOLEAN
      OBVIOUS
    <3> QED
      BY <3>1, Zenon
  <2>2. status # "running" => status' = status
    BY RunAdds, Zenon
  <2> HIDE DEF E
  <2>3. UNCHANGED <<streamVars, clientVars, status>> \/ E
    BY <2>1, RunAdds, Zenon
  <2> QED
    BY <2>2, <2>3 DEF E
<1>2. CASE UNCHANGED <<streamVars, clientVars, status>>
  <2>1. \A c \in Clients : Served(c)'
    BY <1>2, SameServed DEF FeedInv, clientVars
  <2>2. ToldTruth'
    BY <1>2 DEF FeedInv, ToldTruth, clientVars
  <2>3. UNCHANGED FeedVars
    BY <1>2 DEF FeedVars, Position, LastGot, clientVars, streamVars
  <2> QED
    BY <2>1, <2>2, <2>3, FeedSteps DEF FeedInv
<1>3. ASSUME NEW n \in Nat, NEW last \in BOOLEAN, Adds(n, last), status' # status => n > 0
      PROVE  FeedInv' /\ [Feed!FeedNext]_(Feed!feedVars)
  <2>1. PICK kinds \in Seq(Kinds) : Publish(kinds, last) /\ Len(kinds) = n
    BY <1>3 DEF Adds
  <2>2. \A c \in Clients : Served(c)'
    BY <1>1, <2>1, PublishServes DEF FeedInv
  <2>3. UNCHANGED <<got, told>>
    BY <2>1 DEF Publish
  <2>4. ToldTruth'
    BY <1>1, <2>3 DEF FeedInv, ToldTruth, Unknown
  <2>5. Len(log') = Len(log) + n /\ Len(log) \in Nat
    BY <1>3, AddsGrow
  <2>6. UNCHANGED Position
    BY <2>3 DEF Position, LastGot
  <2>7. status' = status \/ (status = Unknown /\ status' \in Outcomes)
    BY <1>1 DEF Unknown, TypeOK, RunTypeOK
  <2>8. CASE n > 0
    <3>1. Feed!Extend
      BY <2>3, <2>5, <2>6, <2>7, <2>8, FeedSteps
    <3> QED
      BY <2>2, <2>4, <3>1 DEF FeedInv, Feed!FeedNext
  <2>9. CASE n = 0
    <3>1. UNCHANGED FeedVars
      BY <1>3, <2>3, <2>5, <2>6, <2>9 DEF FeedVars
    <3> QED
      BY <2>2, <2>4, <3>1, FeedSteps DEF FeedInv
  <2> QED
    BY <2>8, <2>9
<1> QED
  BY <1>1, <1>2, <1>3

\* A client's step leaves the run and the other clients alone.
LEMMA OthersSame ==
  ASSUME TypeOK, NEW c \in Clients, ClientStep(c)
  PROVE  /\ UNCHANGED <<status, streamVars>>
         /\ \A d \in Clients \ {c} :
              /\ conn'[d] = conn[d] /\ got'[d] = got[d] /\ queue'[d] = queue[d]
              /\ replay'[d] = replay[d] /\ late'[d] = late[d] /\ sent'[d] = sent[d]
<1> USE DEF TypeOK, StreamTypeOK, runVars
<1>1. CASE Subscribe(c)
  BY <1>1 DEF Subscribe
<1>2. CASE SendReplay(c) \/ SendQueued(c)
  BY <1>2 DEF SendReplay, SendQueued, Receive
<1>3. CASE EndReplay(c) \/ SeeClosed(c)
  BY <1>3 DEF EndReplay, SeeClosed, Leave
<1>4. CASE GoLive(c) \/ StreamTimeout(c) \/ Drop(c) \/ Reload(c)
  BY <1>4 DEF GoLive, StreamTimeout, Drop, Reload
<1> QED
  BY <1>1, <1>2, <1>3, <1>4 DEF ClientStep, Serve

\* A client's step reads the next event, starts over, or does not show.
LEMMA ClientFeeds ==
  ASSUME TypeOK, TypeOK', OneOutcome, Short, Settled, Fits, FeedInv,
         NEW c \in Clients, ClientStep(c)
  PROVE  FeedInv' /\ [Feed!FeedNext]_(Feed!feedVars)
<1>1. Served(c) /\ ToldTruth
  BY DEF FeedInv
<1>2. \A d \in Clients \ {c} : Served(d)'
  BY OthersSame, SameServed DEF FeedInv
<1>3. UNCHANGED <<status, streamVars, log>>
  BY OthersSame DEF streamVars
<1>4. /\ \A d \in Clients \ {c} : LastGot(d)' = LastGot(d)
      /\ Position = [d \in Clients |-> LastGot(d)]
      /\ Position' = [d \in Clients |-> LastGot(d)']
  BY OthersSame DEF LastGot, Position
\* What is left to show of each kind of step.
<1>5. ASSUME Served(c)', UNCHANGED <<told, got>>
      PROVE  FeedInv' /\ [Feed!FeedNext]_(Feed!feedVars)
  <2>1. ToldTruth'
    BY <1>1, <1>3, <1>5 DEF ToldTruth
  <2>2. UNCHANGED FeedVars
    BY <1>3, <1>5 DEF FeedVars, Position, LastGot
  <2> QED
    BY <1>2, <1>5, <2>1, <2>2, FeedSteps DEF FeedInv
<1>6. ASSUME Served(c)', LastGot(c) < Len(log), LastGot(c)' = LastGot(c) + 1,
             told' = told \/ (status # "running" /\ told' = [told EXCEPT ![c] = status])
      PROVE  FeedInv' /\ [Feed!FeedNext]_(Feed!feedVars)
  <2>1. ToldTruth'
    BY <1>1, <1>3, <1>6 DEF ToldTruth, TypeOK, StreamTypeOK
  <2>2. Position' = [Position EXCEPT ![c] = LastGot(c) + 1]
    BY <1>4, <1>6
  <2>3. Feed!Read(c)
    BY <1>3, <1>6, <2>2, FeedSteps DEF Unknown
  <2> QED
    BY <1>2, <1>6, <2>1, <2>3 DEF FeedInv, Feed!FeedNext
<1>7. CASE Subscribe(c)
  <2>1. UNCHANGED <<told, got>>
    BY <1>7 DEF Subscribe
  <2> QED
    BY <1>1, <1>5, <1>7, <2>1, SubscribeServes
<1>8. CASE SendReplay(c)
  BY <1>1, <1>6, <1>8, ReplayServes
<1>9. CASE SendQueued(c)
  BY <1>1, <1>6, <1>9, QueueServes
<1>10. CASE GoLive(c)
  <2>1. UNCHANGED <<told, got>>
    BY <1>10 DEF GoLive
  <2> QED
    BY <1>1, <1>5, <1>10, <2>1, LiveServes
<1>11. CASE EndReplay(c) \/ SeeClosed(c)
  <2>1. sent[c]
    BY <1>1, <1>11, LeaversKnow
  <2>2. told' = told /\ got' = got /\ conn'[c] = "away"
    BY <1>11, <2>1 DEF EndReplay, SeeClosed, Leave, TypeOK, StreamTypeOK
  <2> QED
    BY <1>1, <1>3, <1>5, <2>2, SameServed
<1>12. ~StreamTimeout(c)
  BY <1>1, LeaversKnow
<1>13. CASE Drop(c)
  <2>1. told' = told /\ got' = got /\ conn'[c] = "away"
    BY <1>13 DEF Drop, TypeOK, StreamTypeOK
  <2> QED
    BY <1>1, <1>3, <1>5, <2>1, SameServed
<1>14. CASE Reload(c)
  <2>1. /\ got'[c] = <<>> /\ conn'[c] = "away" /\ told' = [told EXCEPT ![c] = Unknown]
        /\ Len(<<>>) = 0 /\ Len(log) \in Nat
    BY <1>14, LenProperties DEF Reload, TypeOK, StreamTypeOK
  <2>2. Served(c)'
    <3>1. Ordered(c)'
      BY <1>3, <2>1 DEF Ordered
    <3> QED
      BY <2>1, <3>1 DEF Served, Connected
  <2>3. ToldTruth'
    BY <1>1, <1>3, <2>1 DEF ToldTruth, TypeOK, StreamTypeOK
  <2>4. LastGot(c)' = 0
    BY <2>1 DEF LastGot
  <2>5. Position' = [Position EXCEPT ![c] = 0]
    BY <1>4, <2>4
  <2>6. Feed!Restart(c)
    BY <1>3, <2>1, <2>5, FeedSteps
  <2> QED
    BY <1>2, <2>2, <2>3, <2>6 DEF FeedInv, Feed!FeedNext
<1> QED
  BY <1>7, <1>8, <1>9, <1>10, <1>11, <1>12, <1>13, <1>14 DEF ClientStep, Serve

StreamInv == TypeOK /\ RunInv /\ Short /\ Settled /\ FeedInv

\* StreamInv holds at first, and the first state is one of the feed.
LEMMA InitStream == Init => StreamInv /\ Feed!FeedInit
<1> SUFFICES ASSUME Init PROVE StreamInv /\ Feed!FeedInit
  OBVIOUS
<1>1. Len(<<>>) = 0 /\ MaxEvents \in Nat
  BY StreamAssumption
<1>2. RunInv
  BY <1>1 DEF Init, RunInv, OneOutcome, CompletedMeansAnswered, Evidence
<1>3. Short /\ Settled
  BY <1>1 DEF Init, Short, Settled
<1>4. FeedInv
  BY <1>1 DEF Init, FeedInv, Served, Ordered, Connected, ToldTruth
<1>5. Feed!FeedInit
  BY <1>1 DEF Init, Feed!FeedInit, LastGot, Unknown
<1> QED
  BY <1>2, <1>3, <1>4, <1>5, InitType DEF StreamInv

\* Every step keeps StreamInv and is a step of the feed or a stutter.
LEMMA StreamStep ==
  ASSUME StreamInv, [Next]_vars, Fits
  PROVE  StreamInv' /\ [Feed!FeedNext]_(Feed!feedVars)
<1> USE DEF StreamInv
<1>1. TypeOK'
  BY RunType, ClientType, StutterType DEF Next, ClientStep
<1>2. CASE Abort \/ Execute
  <2>1. RunInv' /\ Short' /\ Settled'
    BY <1>2, ExecuteKeeps, RunShort
  <2> QED
    BY <1>1, <1>2, <2>1, RunFeeds DEF RunInv
<1>3. ASSUME NEW c \in Clients, ClientStep(c)
      PROVE  StreamInv' /\ [Feed!FeedNext]_(Feed!feedVars)
  <2>1. RunInv' /\ UNCHANGED <<runVars, streamVars>>
    BY <1>3, ClientKeeps DEF ClientStep, Serve, Subscribe, SendReplay, GoLive, EndReplay,
       SendQueued, SeeClosed, StreamTimeout, Drop, Reload
  <2>2. Short' /\ Settled'
    BY <2>1 DEF Short, Settled, runVars, streamVars
  <2>3. FeedInv' /\ [Feed!FeedNext]_(Feed!feedVars)
    BY <1>3, ClientFeeds, <1>1 DEF RunInv
  <2> QED
    BY <1>1, <2>1, <2>2, <2>3
<1>4. CASE UNCHANGED vars
  <2>1. UNCHANGED <<status, exec, failed, committed>> /\ UNCHANGED <<streamVars, clientVars>>
    BY <1>4 DEF vars, runVars
  <2>2. RunInv' /\ Short' /\ Settled'
    BY <2>1, SilentKeeps DEF Short, Settled, streamVars
  <2>3. \A c \in Clients : Served(c)'
    BY <2>1, SameServed DEF FeedInv, clientVars
  <2>4. ToldTruth' /\ UNCHANGED FeedVars
    BY <2>1 DEF FeedInv, ToldTruth, FeedVars, Position, LastGot, clientVars, streamVars
  <2> QED
    BY <1>1, <2>2, <2>3, <2>4, FeedSteps DEF FeedInv
<1> QED
  BY <1>2, <1>3, <1>4 DEF Next, ClientStep

\* The invariant of the stream as long as nothing overflows.
LEMMA StreamKept == ASSUME Fits PROVE Spec => []StreamInv
<1>1. StreamInv /\ [Next]_vars => StreamInv'
  BY StreamStep
<1>2. Init => StreamInv
  BY InitStream
<1> QED
  BY <1>1, <1>2, PTL DEF Spec

\* What a client is told of the end of its run is how it ended, as long as no
\* queue and no buffer overflows: neither the "end" a generator makes up when it
\* returns without a terminal event nor the "timeout" it makes up after an hour
\* is ever said of a run that ended otherwise.
THEOREM StreamTellsTruth == ASSUME Fits PROVE Spec => []ToldTruth
<1>1. StreamInv => ToldTruth
  BY DEF StreamInv, FeedInv
<1> QED
  BY <1>1, StreamKept, PTL

\* As long as nothing overflows, what a connected client has not received is in
\* its replay or in its queue: the two are taken in one step of the loop, so no
\* event falls between them, and a client that reconnects resumes exactly.
THEOREM StreamForgetsNothing == ASSUME Fits PROVE Spec => []NothingForgotten
<1>1. StreamInv => NothingForgotten
  <2> SUFFICES ASSUME StreamInv, NEW c \in Clients, Connected(c),
                      NEW id \in Buffered, id > LastGot(c)
               PROVE  \/ \E i \in 1..Len(replay[c]) : replay[c][i] = id
                      \/ \E i \in 1..Len(queue[c]) : queue[c][i] = id
    BY DEF NothingForgotten
  <2> DEFINE n == Len(log)
             g == Len(got[c])
             r == Len(replay[c])
             a == Len(queue[c])
  <2>1. PICK p \in 1..(a + 1) : Lined(c, p)
    BY DEF StreamInv, FeedInv, Served
  <2>2. n \in Nat /\ g \in Nat /\ r \in Nat /\ a \in Nat
    BY LenProperties DEF StreamInv, TypeOK, StreamTypeOK
  <2>3. LastGot(c) = g
    BY LastGotIs DEF StreamInv, FeedInv, Served
  <2>4. id \in 1..n
    BY BufferHolds DEF StreamInv
  <2>5. /\ \A i \in 1..r : replay[c][i] = g + i
        /\ \A i \in 1..a :
             queue[c][i] = IF i < p THEN g + r + i
                           ELSE IF i = p THEN CloseMark ELSE g + r + i - 1
        /\ g + r + a = n + IF p <= a THEN 1 ELSE 0
    BY <2>1 DEF Lined, Due
  <2>6. id > g
    BY <2>3
  <2> HIDE DEF n, g, r, a
  <2>7. CASE id <= g + r
    <3>1. id - g \in 1..r /\ g + (id - g) = id
      BY <2>2, <2>4, <2>6, <2>7
    <3> QED
      BY <2>5, <3>1 DEF r
  <2>8. CASE id > g + r
    <3>1. CASE id < g + r + p
      <4>1. id - (g + r) \in 1..a /\ queue[c][id - (g + r)] = id
        BY <2>2, <2>4, <2>5, <2>8, <3>1
      <4> QED
        BY <4>1 DEF a
    <3>2. CASE id >= g + r + p
      <4>1. id - (g + r) + 1 \in 1..a /\ queue[c][id - (g + r) + 1] = id
        BY <2>2, <2>4, <2>5, <2>8, <3>2
      <4> QED
        BY <4>1 DEF a
    <3> QED
      BY <2>2, <2>4, <3>1, <3>2
  <2> QED
    BY <2>2, <2>4, <2>7, <2>8
<1> QED
  BY <1>1, StreamKept, PTL

\* As long as nothing overflows, the buffer, the replay, the queues and the
\* reconnections are one feed that every client reads in order, no event left
\* out and none read twice, and whose outcome it is told truly.
THEOREM StreamImplementsFeed == ASSUME Fits PROVE Spec => ImplementsFeed
<1>1. Init => Feed!FeedInit
  BY InitStream
<1>2. StreamInv /\ [Next]_vars => [Feed!FeedNext]_(Feed!feedVars)
  BY StreamStep
<1> QED
  BY <1>1, <1>2, StreamKept, PTL DEF Spec, ImplementsFeed, Feed!FeedSpec
=============================================================================
