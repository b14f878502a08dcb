-------------------------- MODULE TokenSlotsProofs --------------------------
(***************************************************************************)
(* Proofs about TokenSlots, for any number of runs, sessions and tokens,   *)
(* any limit of an instance and any pattern of turns that overlap.         *)
(***************************************************************************)
EXTENDS TokenSlots, FiniteSetTheorems, SequenceTheorems, TLAPS

(***************************************************************************)
(* Counting the holders of a slot                                          *)
(***************************************************************************)

\* The runs that hold a slot of a token are finitely many.
LEMMA HoldersFinite ==
  ASSUME NEW t
  PROVE  /\ IsFiniteSet(Holders(t))
         /\ Cardinality(Holders(t)) \in Nat
<1>1. Holders(t) \subseteq Runs
  BY DEF Holders
<1> QED
  BY <1>1, FiniteAssumption, FS_Subset, FS_CardinalityType

\* Nobody's hold on t changes.
LEMMA SameHolders ==
  ASSUME NEW t, \A q \in Runs : Holds(q, t)' = Holds(q, t)
  PROVE  Cardinality(Holders(t))' = Cardinality(Holders(t))
<1>1. Holders(t)' = Holders(t)
  BY DEF Holders
<1> QED
  BY <1>1

\* r takes a slot of t.
LEMMA HolderJoins ==
  ASSUME NEW t, NEW r \in Runs, ~Holds(r, t), Holds(r, t)',
         \A q \in Runs \ {r} : Holds(q, t)' = Holds(q, t)
  PROVE  Cardinality(Holders(t))' = Cardinality(Holders(t)) + 1
<1>1. Holders(t)' = Holders(t) \cup {r}
  BY DEF Holders
<1>2. r \notin Holders(t)
  BY DEF Holders
<1> QED
  BY <1>1, <1>2, HoldersFinite, FS_AddElement

\* r leaves t, if it held a slot there at all.
LEMMA HolderLeaves ==
  ASSUME NEW t, NEW r \in Runs, ~Holds(r, t)',
         \A q \in Runs \ {r} : Holds(q, t)' = Holds(q, t)
  PROVE  Cardinality(Holders(t)) = Cardinality(Holders(t))' + One(Holds(r, t))
<1>1. Holders(t)' = Holders(t) \ {r}
  BY DEF Holders
<1>2. CASE Holds(r, t)
  <2>1. r \in Holders(t)
    BY <1>2 DEF Holders
  <2>2. Cardinality(Holders(t) \ {r}) = Cardinality(Holders(t)) - 1
    BY <2>1, HoldersFinite, FS_RemoveElement
  <2> QED
    BY <1>1, <1>2, <2>2, HoldersFinite DEF One
<1>3. CASE ~Holds(r, t)
  <2>1. r \notin Holders(t)
    BY <1>3 DEF Holders
  <2>2. Holders(t)' = Holders(t)
    BY <1>1, <2>1
  <2> QED
    BY <1>3, <2>2, HoldersFinite DEF One
<1> QED
  BY <1>2, <1>3

(***************************************************************************)
(* Types                                                                   *)
(***************************************************************************)

\* The best tokens of a set are in it.
LEMMA BestSubset ==
  ASSUME NEW S, NEW bad
  PROVE  Best(S, bad) \subseteq S
BY DEF Best

\* Closing a run keeps the types.
LEMMA CloseType ==
  ASSUME TypeOK, NEW r \in Runs, NEW a \in BOOLEAN, NEW b \in BOOLEAN, Close(r, a, b)
  PROVE  /\ pc' \in [Runs -> Phases]
         /\ permits' \in [Tokens -> Nat]
         /\ token' \in [Runs -> Tokens \cup {None}] /\ (\A q \in Runs \ {r} : token'[q] = token[q])
              => Placed'
<1>1. pc' \in [Runs -> Phases]
  BY DEF TypeOK, Close, Phases
<1>3. ASSUME token' \in [Runs -> Tokens \cup {None}], \A q \in Runs \ {r} : token'[q] = token[q]
      PROVE  Placed'
  <2> SUFFICES ASSUME NEW q \in Runs, pc'[q] \in {"queued", "prepare", "model"}
               PROVE  token'[q] \in Tokens
    BY DEF Placed
  <2>1. q # r /\ pc'[q] = pc[q]
    BY DEF TypeOK, Close
  <2> QED
    BY <1>3, <2>1 DEF TypeOK, Placed
<1>2. \A t \in Tokens : permits[t] + One(a /\ Holds(r, t)) + One(~b /\ gaveBack[r] = t) \in Nat
  BY DEF TypeOK, One
<1> QED
  BY <1>1, <1>2, <1>3 DEF Close

\* A step of a run keeps every variable in its type.
LEMMA TypeStep ==
  ASSUME TypeOK, NEW r \in Runs, Step(r) \/ Abort(r)
  PROVE  TypeOK'
<1>1. CASE Resolve(r)
  <2>1. SessionOf[r] \in Sessions
    BY RunAssumption
  <2>2. TokenFor(SessionOf[r]) \subseteq Tokens
    BY <2>1, BestSubset, TokenAssumption DEF TypeOK, TokenFor
  <2>3. PICK t \in TokenFor(SessionOf[r]) :
          /\ pin' = [pin EXCEPT ![SessionOf[r]] = t]
          /\ token' = [token EXCEPT ![r] = t]
          /\ \/ /\ waiting' = [waiting EXCEPT ![t] = Append(@, r)]
                /\ pc' = [pc EXCEPT ![r] = "queued"]
                /\ UNCHANGED permits
             \/ /\ Close(r, FALSE, Caller[r] = "webhook")
                /\ UNCHANGED waiting
    BY <1>1 DEF Resolve
  <2>4. /\ pin' \in [Sessions -> Tokens \cup {None}]
        /\ token' \in [Runs -> Tokens \cup {None}]
    BY <2>2, <2>3 DEF TypeOK
  <2>5. CASE Close(r, FALSE, Caller[r] = "webhook") /\ UNCHANGED waiting
    <3>1. \A q \in Runs \ {r} : token'[q] = token[q]
      BY <2>3 DEF TypeOK
    <3> QED
      BY <1>1, <2>4, <2>5, <3>1, CloseType DEF TypeOK, Resolve
  <2>6. CASE /\ waiting' = [waiting EXCEPT ![t] = Append(@, r)]
             /\ pc' = [pc EXCEPT ![r] = "queued"]
             /\ UNCHANGED permits
    <3>1. waiting' \in [Tokens -> Seq(Runs)]
      BY <2>2, <2>6, AppendProperties DEF TypeOK
    <3>2. pc' \in [Runs -> Phases]
      BY <2>6 DEF TypeOK, Phases
    <3>3. Placed'
      BY <2>2, <2>3, <2>6 DEF TypeOK, Placed
    <3> QED
      BY <1>1, <2>4, <2>6, <3>1, <3>2, <3>3 DEF TypeOK, Resolve
  <2> QED
    BY <2>3, <2>5, <2>6
<1>2. CASE Acquire(r)
  <2> DEFINE t == token[r]
  <2>0. t \in Tokens
    BY <1>2 DEF Acquire, TypeOK, Placed
  <2>1. /\ permits[t] > 0 /\ waiting[t] # <<>> /\ Head(waiting[t]) = r
        /\ permits' = [permits EXCEPT ![t] = @ - 1]
        /\ waiting' = [waiting EXCEPT ![t] = Tail(@)]
        /\ pc' = [pc EXCEPT ![r] = "prepare"]
    BY <1>2 DEF Acquire
  <2>2. permits' \in [Tokens -> Nat]
    BY <2>0, <2>1 DEF TypeOK
  <2>3. waiting' \in [Tokens -> Seq(Runs)]
    BY <2>0, <2>1, HeadTailProperties DEF TypeOK
  <2>4. pc' \in [Runs -> Phases]
    BY <2>1 DEF TypeOK, Phases
  <2>5. Placed'
    BY <1>2, <2>0, <2>1 DEF TypeOK, Placed, Acquire
  <2> QED
    BY <1>2, <2>2, <2>3, <2>4, <2>5 DEF TypeOK, Acquire
<1>3. CASE Prepared(r)
  BY <1>3 DEF TypeOK, Prepared, Phases, Placed
<1>4. CASE PrepareError(r)
  BY <1>4, CloseType DEF TypeOK, PrepareError
<1>5. CASE Answer(r)
  BY <1>5, CloseType DEF TypeOK, Answer
<1>6. CASE Fail(r)
  BY <1>6, CloseType DEF TypeOK, Fail
<1>7. CASE HardFail(r)
  <2> DEFINE s == SessionOf[r]
             bad == unhealthy \cup {token[r]} \cup ({pin[s]} \ {None})
             next == Replacement(r, bad)
  <2>1. s \in Sessions /\ Eligible[r] \subseteq Tokens
    BY RunAssumption
  <2>2. next \subseteq Tokens
    BY <2>1, BestSubset DEF Replacement
  <2>3. /\ unhealthy' = bad
        /\ \/ /\ next \ {token[r]} = {}
              /\ pin' = [pin EXCEPT ![s] = IF next = {} THEN None ELSE token[r]]
              /\ Close(r, TRUE, TRUE)
              /\ UNCHANGED gaveBack
           \/ \E t \in next \ {token[r]} :
                /\ pin' = [pin EXCEPT ![s] = t]
                /\ permits' = [permits EXCEPT ![token[r]] = @ + 1]
                /\ gaveBack' = [gaveBack EXCEPT ![r] = token[r]]
                /\ pc' = [pc EXCEPT ![r] = "retry"]
        /\ UNCHANGED <<waiting, token>>
    BY <1>7 DEF HardFail
  <2>4. token[r] \in Tokens
    BY <1>7 DEF HardFail, TypeOK, Placed
  <2>5. unhealthy' \in SUBSET Tokens
    BY <2>1, <2>3, <2>4 DEF TypeOK
  <2> HIDE DEF next
  <2>6. CASE /\ pin' = [pin EXCEPT ![s] = IF next = {} THEN None ELSE token[r]]
             /\ Close(r, TRUE, TRUE)
             /\ UNCHANGED gaveBack
    <3>1. pin' \in [Sessions -> Tokens \cup {None}]
      BY <2>1, <2>4, <2>6 DEF TypeOK
    <3> QED
      BY <2>3, <2>5, <2>6, <3>1, CloseType DEF TypeOK
  <2>7. ASSUME NEW t \in next,
               pin' = [pin EXCEPT ![s] = t],
               permits' = [permits EXCEPT ![token[r]] = @ + 1],
               gaveBack' = [gaveBack EXCEPT ![r] = token[r]],
               pc' = [pc EXCEPT ![r] = "retry"]
        PROVE  TypeOK'
    <3>1. permits' \in [Tokens -> Nat] /\ pc' \in [Runs -> Phases]
      BY <2>4, <2>7 DEF TypeOK, Phases
    <3>2. /\ pin' \in [Sessions -> Tokens \cup {None}]
          /\ gaveBack' \in [Runs -> Tokens \cup {None}]
      BY <2>1, <2>2, <2>4, <2>7 DEF TypeOK
    <3>3. Placed'
      BY <2>3, <2>7 DEF TypeOK, Placed
    <3> QED
      BY <2>3, <2>5, <3>1, <3>2, <3>3 DEF TypeOK
  <2> QED
    BY <2>3, <2>6, <2>7
<1>8. CASE Abort(r)
  <2>1. waiting' \in [Tokens -> Seq(Runs)]
    <3>1. CASE UNCHANGED waiting
      BY <3>1 DEF TypeOK
    <3>2. ASSUME NEW i \in 1..Len(waiting[token[r]]),
                 waiting[token[r]][i] = r,
                 waiting' = [waiting EXCEPT ![token[r]] =
                    SubSeq(@, 1, i - 1) \o SubSeq(@, i + 1, Len(@))]
          PROVE  waiting' \in [Tokens -> Seq(Runs)]
      <4>1. ASSUME token[r] \in Tokens
            PROVE  SubSeq(waiting[token[r]], 1, i - 1)
                     \o SubSeq(waiting[token[r]], i + 1, Len(waiting[token[r]])) \in Seq(Runs)
        <5> DEFINE w == waiting[token[r]]
        <5>1. w \in Seq(Runs)
          BY <4>1 DEF TypeOK
        <5> HIDE DEF w
        <5>2. SubSeq(w, 1, i - 1) \in Seq(Runs) /\ SubSeq(w, i + 1, Len(w)) \in Seq(Runs)
          BY <5>1, <3>2, LenProperties, SubSeqProperties DEF w
        <5> QED
          BY <5>2, ConcatProperties DEF w
      <4> QED
        BY <3>2, <4>1 DEF TypeOK
    <3> QED
      BY <1>8, <3>1, <3>2 DEF Abort
  <2> QED
    BY <1>8, <2>1, CloseType DEF TypeOK, Abort
<1> QED
  BY <1>1, <1>2, <1>3, <1>4, <1>5, <1>6, <1>7, <1>8 DEF Step

\* The pool begins with full semaphores and nobody waiting.
LEMMA InitType == Init => TypeOK
<1> SUFFICES ASSUME Init PROVE TypeOK
  OBVIOUS
<1>1. <<>> \in Seq(Runs)
  BY EmptySeq
<1> QED
  BY <1>1, SlotAssumption DEF Init, TypeOK, Phases, Placed

\* TypeOK is an invariant: in particular a semaphore never goes below zero.
THEOREM TypeCorrect == Spec => []TypeOK
<1>1. Init => TypeOK
  BY InitType
<1>2. TypeOK /\ [Next]_vars => TypeOK'
  <2>1. ASSUME TypeOK, Next PROVE TypeOK'
    BY <2>1, TypeStep DEF Next
  <2>2. ASSUME TypeOK, UNCHANGED vars PROVE TypeOK'
    BY <2>2 DEF TypeOK, Placed, vars
  <2> QED
    BY <2>1, <2>2
<1> QED
  BY <1>1, <1>2, PTL DEF Spec

(***************************************************************************)
(* Accounting: what the semaphore of t has left and what runs hold         *)
(***************************************************************************)

Slots(t) == permits[t] + Cardinality(Holders(t))

\* Only run r moves.
Others(r) == \A q \in Runs \ {r} : pc'[q] = pc[q] /\ token'[q] = token[q] /\ gaveBack'[q] = gaveBack[q]

\* The runs that caused a surplus are finitely many.
LEMMA SurplusFinite ==
  ASSUME NEW t
  PROVE  IsFiniteSet(Surplus(t)) /\ Cardinality(Surplus(t)) \in Nat
<1>1. Surplus(t) \subseteq Runs
  BY DEF Surplus
<1> QED
  BY <1>1, FiniteAssumption, FS_Subset, FS_CardinalityType

\* A run that is not over counts for nothing in the surplus, and the surplus
\* never shrinks.
LEMMA SurplusGrows ==
  ASSUME NEW t, NEW r \in Runs, pc[r] # "done", Others(r)
  PROVE  /\ Cardinality(Surplus(t))' \in Nat
         /\ Cardinality(Surplus(t))' = Cardinality(Surplus(t)) + One((r \in Surplus(t))')
<1>1. r \notin Surplus(t)
  BY DEF Surplus
<1>2. Surplus(t)' = IF (r \in Surplus(t))' THEN Surplus(t) \cup {r} ELSE Surplus(t)
  BY <1>1 DEF Surplus, Others
<1>3. IsFiniteSet(Surplus(t)) /\ Cardinality(Surplus(t)) \in Nat
  BY SurplusFinite
<1>4. Cardinality(Surplus(t) \cup {r}) = Cardinality(Surplus(t)) + 1
  BY <1>1, <1>3, FS_AddElement
<1>5. CASE (r \in Surplus(t))'
  <2>1. Surplus(t)' = Surplus(t) \cup {r}
    BY <1>2, <1>5
  <2>2. Cardinality(Surplus(t))' = Cardinality(Surplus(t)) + 1
    BY <1>4, <2>1
  <2> QED
    BY <1>3, <1>5, <2>2 DEF One
<1>6. CASE ~(r \in Surplus(t))'
  <2>1. Surplus(t)' = Surplus(t)
    BY <1>2, <1>6
  <2>2. Cardinality(Surplus(t))' = Cardinality(Surplus(t))
    BY <2>1
  <2> QED
    BY <1>3, <1>6, <2>2 DEF One
<1> QED
  BY <1>5, <1>6

\* Closing a run keeps the account of slots.
LEMMA CloseAccounts ==
  ASSUME TypeOK, NEW r \in Runs, NEW a \in BOOLEAN, NEW b \in BOOLEAN, Close(r, a, b),
         Others(r), NEW t \in Tokens
  PROVE  /\ Slots(t)' = Slots(t) - One(~a /\ Holds(r, t)) + One(~b /\ gaveBack[r] = t)
         /\ pc'[r] = "done"
<1>1. pc'[r] = "done"
  BY DEF TypeOK, Close
<1>2. ~Holds(r, t)' /\ \A q \in Runs \ {r} : Holds(q, t)' = Holds(q, t)
  BY <1>1 DEF Holds, Others
<1>3. Cardinality(Holders(t)) = Cardinality(Holders(t))' + One(Holds(r, t))
  BY <1>2, HolderLeaves
<1>4. permits'[t] = permits[t] + One(a /\ Holds(r, t)) + One(~b /\ gaveBack[r] = t)
  BY DEF Close
<1>5. Cardinality(Holders(t))' \in Nat /\ permits[t] \in Nat
  <2>1. \A S : S \subseteq Runs => Cardinality(S) \in Nat
    BY FiniteAssumption, FS_Subset, FS_CardinalityType
  <2>2. Holders(t)' \subseteq Runs
    BY DEF Holders
  <2> QED
    BY <2>1, <2>2 DEF TypeOK
<1>6. One(Holds(r, t)) = One(a /\ Holds(r, t)) + One(~a /\ Holds(r, t))
  BY DEF One
<1>7. /\ One(a /\ Holds(r, t)) \in Nat /\ One(~a /\ Holds(r, t)) \in Nat
      /\ One(~b /\ gaveBack[r] = t) \in Nat
  BY DEF One
<1> QED
  BY <1>1, <1>3, <1>4, <1>5, <1>6, <1>7 DEF Slots

\* What one step does to the slots of t.
LEMMA StepAccounts ==
  ASSUME TypeOK, NEW r \in Runs, Step(r) \/ Abort(r), NEW t \in Tokens
  PROVE  /\ pc[r] # "done" /\ Others(r)
         /\ Slots(t) \in Nat
         /\ Slots(t)' <= Slots(t) + One((r \in Surplus(t))')
         /\ Caller[r] # "channel" => Slots(t)' >= Slots(t)
<1>0. /\ Slots(t) \in Nat /\ permits[t] \in Nat /\ Cardinality(Holders(t)) \in Nat
  BY HoldersFinite DEF Slots, TypeOK
<1>a. ASSUME NEW a \in BOOLEAN, NEW b \in BOOLEAN, Close(r, a, b), Others(r),
             gaveBack'[r] = gaveBack[r],
             Caller[r] = "webhook" => b,
             Caller[r] # "channel" => a \/ ~Holds(r, t)
      PROVE  /\ Slots(t)' <= Slots(t) + One((r \in Surplus(t))')
             /\ Caller[r] # "channel" => Slots(t)' >= Slots(t)
  <2>1. /\ Slots(t)' = Slots(t) - One(~a /\ Holds(r, t)) + One(~b /\ gaveBack[r] = t)
        /\ pc'[r] = "done"
    BY <1>a, CloseAccounts
  <2>2. ~b /\ gaveBack[r] = t => (r \in Surplus(t))'
    BY <1>a, <2>1 DEF Surplus
  <2>3. /\ One(~b /\ gaveBack[r] = t) <= One((r \in Surplus(t))')
        /\ One(~b /\ gaveBack[r] = t) \in Nat /\ One((r \in Surplus(t))') \in Nat
        /\ One(~a /\ Holds(r, t)) \in Nat
    BY <2>2 DEF One
  <2>4. Caller[r] # "channel" => One(~a /\ Holds(r, t)) = 0
    BY <1>a DEF One
  <2> QED
    BY <1>0, <2>1, <2>3, <2>4
<1>b. ASSUME Others(r), Slots(t)' = Slots(t)
      PROVE  /\ Slots(t)' <= Slots(t) + One((r \in Surplus(t))')
             /\ Caller[r] # "channel" => Slots(t)' >= Slots(t)
  BY <1>0, <1>b DEF One
<1>1. CASE Resolve(r)
  <2>1. /\ pc[r] \in {"idle", "retry"} /\ gaveBack' = gaveBack
        /\ \E u : /\ token' = [token EXCEPT ![r] = u]
                  /\ \/ pc' = [pc EXCEPT ![r] = "queued"] /\ UNCHANGED permits
                     \/ Close(r, FALSE, Caller[r] = "webhook")
    BY <1>1 DEF Resolve
  <2>2. Others(r)
    BY <2>1 DEF TypeOK, Others, Close
  <2>3. ~Holds(r, t)
    BY <2>1 DEF Holds
  <2>4. CASE pc' = [pc EXCEPT ![r] = "queued"] /\ UNCHANGED permits
    <3>1. \A q \in Runs : Holds(q, t)' = Holds(q, t)
      BY <2>2, <2>3, <2>4 DEF Holds, Others, TypeOK
    <3>2. Slots(t)' = Slots(t)
      BY <2>4, <3>1, SameHolders DEF Slots
    <3> QED
      BY <1>0, <1>b, <2>1, <2>2, <3>2
  <2>5. CASE Close(r, FALSE, Caller[r] = "webhook")
    BY <1>0, <1>a, <2>1, <2>2, <2>3, <2>5
  <2> QED
    BY <2>1, <2>4, <2>5
<1>2. CASE Acquire(r)
  <2>1. /\ pc[r] = "queued" /\ token' = token /\ gaveBack' = gaveBack
        /\ permits[token[r]] > 0
        /\ permits' = [permits EXCEPT ![token[r]] = @ - 1]
        /\ pc' = [pc EXCEPT ![r] = "prepare"]
    BY <1>2 DEF Acquire
  <2>2. Others(r) /\ token[r] \in Tokens
    BY <2>1 DEF TypeOK, Placed, Others
  <2>3. CASE t = token[r]
    <3>1. ~Holds(r, t) /\ Holds(r, t)' /\ \A q \in Runs \ {r} : Holds(q, t)' = Holds(q, t)
      BY <2>1, <2>2, <2>3 DEF Holds, TypeOK, Others
    <3>2. Cardinality(Holders(t))' = Cardinality(Holders(t)) + 1
      BY <3>1, HolderJoins
    <3>3. permits'[t] = permits[t] - 1
      BY <2>1, <2>2, <2>3 DEF TypeOK
    <3>4. Slots(t)' = Slots(t)
      BY <1>0, <3>2, <3>3 DEF Slots
    <3> QED
      BY <1>0, <1>b, <2>1, <2>2, <3>4
  <2>4. CASE t # token[r]
    <3>1. \A q \in Runs : Holds(q, t)' = Holds(q, t)
      BY <2>1, <2>2, <2>4 DEF Holds, TypeOK, Others
    <3>2. permits'[t] = permits[t]
      BY <2>1, <2>4 DEF TypeOK
    <3>3. Slots(t)' = Slots(t)
      BY <3>1, <3>2, SameHolders DEF Slots
    <3> QED
      BY <1>0, <1>b, <2>1, <2>2, <3>3
  <2> QED
    BY <2>3, <2>4
<1>3. CASE Prepared(r)
  <2>1. /\ pc[r] = "prepare" /\ pc' = [pc EXCEPT ![r] = "model"]
        /\ token' = token /\ gaveBack' = gaveBack /\ permits' = permits
    BY <1>3 DEF Prepared
  <2>2. Others(r)
    BY <2>1 DEF TypeOK, Others
  <2>3. \A q \in Runs : Holds(q, t)' = Holds(q, t)
    BY <2>1, <2>2 DEF Holds, TypeOK, Others
  <2>4. Slots(t)' = Slots(t)
    BY <2>1, <2>3, SameHolders DEF Slots
  <2> QED
    BY <1>0, <1>b, <2>1, <2>2, <2>4
<1>4. CASE PrepareError(r)
  <2>1. /\ pc[r] = "prepare" /\ token' = token /\ gaveBack' = gaveBack
        /\ Close(r, ~SlotLostByReader(r), Caller[r] = "webhook")
    BY <1>4 DEF PrepareError
  <2>2. Others(r)
    BY <2>1 DEF TypeOK, Others, Close
  <2>3. SlotLostByReader(r) \in BOOLEAN /\ (Caller[r] # "channel" => ~SlotLostByReader(r))
    BY DEF SlotLostByReader
  <2> QED
    BY <1>0, <1>a, <2>1, <2>2, <2>3
<1>5. CASE Answer(r)
  <2>1. /\ pc[r] = "model" /\ token' = token /\ gaveBack' = gaveBack
        /\ Close(r, TRUE, Caller[r] # "api")
    BY <1>5 DEF Answer
  <2>2. Others(r)
    BY <2>1 DEF TypeOK, Others, Close
  <2> QED
    BY <1>0, <1>a, <2>1, <2>2
<1>6. CASE Fail(r)
  <2>1. /\ pc[r] = "model" /\ token' = token /\ gaveBack' = gaveBack
        /\ Close(r, TRUE, Caller[r] = "webhook")
    BY <1>6 DEF Fail
  <2>2. Others(r)
    BY <2>1 DEF TypeOK, Others, Close
  <2> QED
    BY <1>0, <1>a, <2>1, <2>2
<1>7. CASE HardFail(r)
  <2>1. /\ pc[r] = "model" /\ token' = token
        /\ \/ Close(r, TRUE, TRUE) /\ gaveBack' = gaveBack
           \/ /\ permits' = [permits EXCEPT ![token[r]] = @ + 1]
              /\ gaveBack' = [gaveBack EXCEPT ![r] = token[r]]
              /\ pc' = [pc EXCEPT ![r] = "retry"]
    BY <1>7 DEF HardFail
  <2>2. Others(r)
    BY <2>1 DEF TypeOK, Others, Close
  <2>3. CASE Close(r, TRUE, TRUE) /\ gaveBack' = gaveBack
    BY <1>0, <1>a, <2>1, <2>2, <2>3
  <2>4. CASE /\ permits' = [permits EXCEPT ![token[r]] = @ + 1]
             /\ gaveBack' = [gaveBack EXCEPT ![r] = token[r]]
             /\ pc' = [pc EXCEPT ![r] = "retry"]
    <3>1. ~Holds(r, t)' /\ \A q \in Runs \ {r} : Holds(q, t)' = Holds(q, t)
      BY <2>2, <2>4 DEF Holds, Others, TypeOK
    <3>2. Cardinality(Holders(t)) = Cardinality(Holders(t))' + One(Holds(r, t))
      BY <3>1, HolderLeaves
    <3>3. permits'[t] = permits[t] + One(Holds(r, t))
      BY <2>1, <2>4 DEF TypeOK, One, Holds
    <3>4. Holders(t)' \subseteq Runs
      BY DEF Holders
    <3>5. Cardinality(Holders(t))' \in Nat
      BY <3>4, FiniteAssumption, FS_Subset, FS_CardinalityType
    <3>6. Slots(t)' = Slots(t)
      BY <1>0, <3>2, <3>3, <3>5 DEF Slots, One
    <3> QED
      BY <1>0, <1>b, <2>1, <2>2, <3>6
  <2> QED
    BY <2>1, <2>3, <2>4
<1>8. CASE Abort(r)
  <2>1. /\ pc[r] # "done" /\ Caller[r] = "api" /\ token' = token /\ gaveBack' = gaveBack
        /\ Close(r, TRUE, FALSE)
    BY <1>8 DEF Abort
  <2>2. Others(r)
    BY <2>1 DEF TypeOK, Others, Close
  <2> QED
    BY <1>0, <1>a, <2>1, <2>2
<1> QED
  BY <1>1, <1>2, <1>3, <1>4, <1>5, <1>6, <1>7, <1>8 DEF Step

\* At first every slot is free and accounted for.
LEMMA InitialSlots ==
  ASSUME Init, NEW t \in Tokens
  PROVE  Slots(t) = MaxConcurrent /\ Surplus(t) = {}
<1>1. Holders(t) = {} /\ Surplus(t) = {}
  BY DEF Init, Holders, Holds, Surplus
<1>2. Cardinality(Holders(t)) = 0
  BY <1>1, FS_EmptySet
<1>3. permits[t] = MaxConcurrent
  BY DEF Init
<1> QED
  BY <1>1, <1>2, <1>3, SlotAssumption DEF Slots

\* A step that changes nothing keeps the account.
LEMMA StutterSlots ==
  ASSUME UNCHANGED vars, NEW t \in Tokens
  PROVE  Slots(t)' = Slots(t) /\ Surplus(t)' = Surplus(t)
<1>1. Holders(t)' = Holders(t) /\ Surplus(t)' = Surplus(t)
  BY DEF vars, Holders, Holds, Surplus
<1> QED
  BY <1>1 DEF Slots, vars

\* Whoever reads the streams: a slot too many comes from a run that failed
\* over and whose reader dropped it, one from each at most.
THEOREM SurplusIsExplained == Spec => []SurplusExplained
<1>1. Init => SurplusExplained
  BY InitialSlots, SurplusFinite, SlotAssumption DEF SurplusExplained, Slots
<1>2. TypeOK /\ SurplusExplained /\ [Next]_vars => SurplusExplained'
  <2> SUFFICES ASSUME TypeOK, SurplusExplained, [Next]_vars, NEW t \in Tokens
               PROVE  Slots(t)' <= MaxConcurrent + Cardinality(Surplus(t))'
    BY DEF SurplusExplained, Slots
  <2>1. Slots(t) <= MaxConcurrent + Cardinality(Surplus(t))
    BY DEF SurplusExplained, Slots
  <2>2. CASE Next
    <3>1. PICK r \in Runs : Step(r) \/ Abort(r)
      BY <2>2 DEF Next
    <3>2. /\ Slots(t) \in Nat
          /\ Slots(t)' <= Slots(t) + One((r \in Surplus(t))')
          /\ Cardinality(Surplus(t))' = Cardinality(Surplus(t)) + One((r \in Surplus(t))')
      BY <3>1, StepAccounts, SurplusGrows
    <3>3. Slots(t)' \in Nat
      <4>1. TypeOK'
        BY <3>1, TypeStep
      <4>2. Holders(t)' \subseteq Runs
        BY DEF Holders
      <4>3. Cardinality(Holders(t))' \in Nat
        BY <4>2, FiniteAssumption, FS_Subset, FS_CardinalityType
      <4> QED
        BY <4>1, <4>3 DEF Slots, TypeOK
    <3>4. One((r \in Surplus(t))') \in Nat
      BY DEF One
    <3> QED
      BY <2>1, <3>2, <3>3, <3>4, SurplusFinite, SlotAssumption
  <2>3. CASE UNCHANGED vars
    BY <2>1, <2>3, StutterSlots
  <2> QED
    BY <2>2, <2>3
<1> QED
  BY <1>1, <1>2, TypeCorrect, PTL DEF Spec

\* Where no reader stops at an error event, no slot is ever lost: every run
\* that ends, fails over or is aborted leaves what it held behind.
THEOREM NoSlotIsLost ==
  ASSUME \A r \in Runs : Caller[r] # "channel"
  PROVE  Spec => []NoSlotLost
<1>1. Init => NoSlotLost
  BY InitialSlots, SlotAssumption DEF NoSlotLost, Slots
<1>2. TypeOK /\ NoSlotLost /\ [Next]_vars => NoSlotLost'
  <2> SUFFICES ASSUME TypeOK, NoSlotLost, [Next]_vars, NEW t \in Tokens
               PROVE  Slots(t)' >= MaxConcurrent
    BY DEF NoSlotLost, Slots
  <2>1. Slots(t) >= MaxConcurrent
    BY DEF NoSlotLost, Slots
  <2>2. CASE Next
    <3>1. PICK r \in Runs : Step(r) \/ Abort(r)
      BY <2>2 DEF Next
    <3>2. /\ Slots(t) \in Nat /\ Slots(t)' >= Slots(t)
      BY <3>1, StepAccounts
    <3>3. Slots(t)' \in Nat
      <4>1. TypeOK'
        BY <3>1, TypeStep
      <4>2. Holders(t)' \subseteq Runs
        BY DEF Holders
      <4>3. Cardinality(Holders(t))' \in Nat
        BY <4>2, FiniteAssumption, FS_Subset, FS_CardinalityType
      <4> QED
        BY <4>1, <4>3 DEF Slots, TypeOK
    <3> QED
      BY <2>1, <3>2, <3>3, SlotAssumption
  <2>3. CASE UNCHANGED vars
    BY <2>1, <2>3, StutterSlots
  <2> QED
    BY <2>2, <2>3
<1> QED
  BY <1>1, <1>2, TypeCorrect, PTL DEF Spec

\* Where every reader reads to the end, an instance never serves more runs
\* than its limit.
THEOREM ReadToTheEndIsBounded ==
  ASSUME \A r \in Runs : Caller[r] = "webhook"
  PROVE  Spec => []SlotsBounded
<1>1. TypeOK /\ SurplusExplained => SlotsBounded
  <2> SUFFICES ASSUME TypeOK, SurplusExplained, NEW t \in Tokens
               PROVE  Cardinality(Holders(t)) <= MaxConcurrent
    BY DEF SlotsBounded
  <2>1. Surplus(t) = {}
    BY DEF Surplus
  <2>2. Cardinality(Surplus(t)) = 0
    BY <2>1, FS_EmptySet
  <2>3. permits[t] + Cardinality(Holders(t)) <= MaxConcurrent
    BY <2>2, SlotAssumption DEF SurplusExplained
  <2> QED
    BY <2>3, HoldersFinite, SlotAssumption DEF TypeOK
<1> QED
  BY <1>1, TypeCorrect, SurplusIsExplained, PTL

(***************************************************************************)
(* Where a second attempt is made                                          *)
(***************************************************************************)

\* The token a run has given back has failed, and its session is put on it
\* again, or the run is, only when the session has run out of tokens.
Avoids(r) ==
  gaveBack[r] # None =>
    /\ gaveBack[r] \in unhealthy
    /\ pin[SessionOf[r]] = gaveBack[r] => Exhausted(SessionOf[r])
    /\ pc[r] \in {"queued", "prepare", "model"} /\ token[r] = gaveBack[r]
         => Exhausted(SessionOf[r])

RetryInv == TypeOK /\ \A r \in Runs : Avoids(r)

\* A selection comes to a token that has failed only when all candidates have.
LEMMA BestIsLast ==
  ASSUME NEW S, NEW bad, NEW t \in Best(S, bad), t \in bad
  PROVE  S \subseteq bad
<1> SUFFICES ASSUME NEW u \in S, u \notin bad PROVE FALSE
  OBVIOUS
<1>1. u # t
  OBVIOUS
<1>2. (t \in bad) = (u \in bad) => FALSE
  OBVIOUS
<1>3. IF (t \in bad) = (u \in bad) THEN Rank[t] > Rank[u] ELSE u \in bad
  BY <1>1 DEF Best
<1> QED
  BY <1>2, <1>3

\* A session that has run out of tokens stays so: no token recovers.
LEMMA ExhaustedStays ==
  ASSUME NEW s, Exhausted(s), unhealthy \subseteq unhealthy',
         \A q \in Runs : pc[q] # "idle" => pc'[q] # "idle"
  PROVE  Exhausted(s)'
BY DEF Exhausted

\* What a session is given if it is a token that has failed.
LEMMA TokenForFailed ==
  ASSUME TypeOK, NEW r \in Runs, NEW t \in TokenFor(SessionOf[r]), t \in unhealthy
  PROVE  pin[SessionOf[r]] = t \/ Eligible[r] \subseteq unhealthy
<1>1. SessionOf[r] \in Sessions /\ Eligible[r] \subseteq Tokens
  BY RunAssumption
<1>2. CASE pin[SessionOf[r]] # None
  BY <1>2 DEF TokenFor
<1>3. CASE pin[SessionOf[r]] = None /\ Primary \notin unhealthy
  BY <1>3 DEF TokenFor
<1>4. CASE pin[SessionOf[r]] = None /\ Primary \in unhealthy
  <2>1. t \in Best(Tokens, unhealthy)
    BY <1>4 DEF TokenFor
  <2> QED
    BY <1>1, <2>1, BestIsLast
<1> QED
  BY <1>2, <1>3, <1>4

\* A replacement that has failed itself was the last choice of a run none of
\* whose tokens is left.
LEMMA ReplacementFailed ==
  ASSUME TypeOK, NEW r \in Runs, NEW bad \in SUBSET Tokens,
         {pin[SessionOf[r]]} \ {None} \subseteq bad,
         NEW t \in Replacement(r, bad), t \in bad
  PROVE  Eligible[r] \subseteq bad
<1>1. Eligible[r] \subseteq Tokens /\ None \notin Tokens
  BY RunAssumption, TokenAssumption
<1> DEFINE elsewhere == Eligible[r] \ {pin[SessionOf[r]]}
<1>2. CASE elsewhere # {}
  <2>1. t \in Best(elsewhere, bad)
    BY <1>2 DEF Replacement
  <2>2. elsewhere \subseteq bad
    BY <2>1, BestIsLast
  <2> QED
    BY <1>1, <2>2
<1>3. CASE elsewhere = {}
  BY <1>1, <1>3
<1> QED
  BY <1>2, <1>3

\* A step that blames no token and moves no pin, and leaves the runs it moves
\* where they were or on the token they had.
LEMMA RetryStays ==
  ASSUME RetryInv, TypeOK', NEW r \in Runs, UNCHANGED <<unhealthy, pin, gaveBack, token>>,
         pc[r] # "idle", pc'[r] # "idle",
         \A q \in Runs \ {r} : pc'[q] = pc[q],
         pc'[r] \in {"queued", "prepare", "model"} => pc[r] \in {"queued", "prepare", "model"}
  PROVE  RetryInv'
<1> SUFFICES ASSUME NEW q \in Runs PROVE Avoids(q)'
  BY DEF RetryInv
<1>1. Avoids(q)
  BY DEF RetryInv
<1>2. Exhausted(SessionOf[q]) => Exhausted(SessionOf[q])'
  BY ExhaustedStays
<1> QED
  BY <1>1, <1>2 DEF Avoids

\* A step of a run keeps RetryInv.
LEMMA RetryStep ==
  ASSUME RetryInv, NEW r \in Runs, Step(r) \/ Abort(r)
  PROVE  RetryInv'
<1>0. TypeOK /\ TypeOK' /\ Others(r) /\ SessionOf[r] \in Sessions
  BY TypeStep, StepAccounts, RunAssumption, TokenAssumption DEF RetryInv
<1>1. CASE Resolve(r)
  <2>1. PICK t \in TokenFor(SessionOf[r]) :
          /\ pin' = [pin EXCEPT ![SessionOf[r]] = t]
          /\ token' = [token EXCEPT ![r] = t]
    BY <1>1 DEF Resolve
  <2>2. /\ UNCHANGED <<unhealthy, gaveBack>> /\ pc'[r] \in {"queued", "done"}
        /\ pin'[SessionOf[r]] = t /\ token'[r] = t
        /\ \A s \in Sessions \ {SessionOf[r]} : pin'[s] = pin[s]
    BY <1>0, <1>1, <2>1 DEF Resolve, Close, TypeOK
  <2>3. \A s : Exhausted(s) => Exhausted(s)'
    BY <1>0, <2>2, ExhaustedStays DEF Others
  <2> SUFFICES ASSUME NEW q \in Runs, gaveBack[q] # None PROVE Avoids(q)'
    BY <1>0, <2>2 DEF RetryInv, Avoids
  <2>4. /\ gaveBack[q] \in unhealthy
        /\ pin[SessionOf[q]] = gaveBack[q] => Exhausted(SessionOf[q])
        /\ pc[q] \in {"queued", "prepare", "model"} /\ token[q] = gaveBack[q]
             => Exhausted(SessionOf[q])
    BY DEF RetryInv, Avoids
  <2>5. ASSUME SessionOf[q] = SessionOf[r], t = gaveBack[q] PROVE Exhausted(SessionOf[q])'
    <3>1. pin[SessionOf[r]] = t \/ Eligible[r] \subseteq unhealthy
      BY <1>0, <2>4, <2>5, TokenForFailed
    <3> QED
      BY <2>2, <2>3, <2>4, <2>5, <3>1 DEF Exhausted
  <2>6. pin'[SessionOf[q]] = gaveBack[q] => Exhausted(SessionOf[q])'
    BY <2>2, <2>3, <2>4, <2>5, RunAssumption
  <2>7. pc'[q] \in {"queued", "prepare", "model"} /\ token'[q] = gaveBack[q]
             => Exhausted(SessionOf[q])'
    BY <1>0, <2>2, <2>3, <2>4, <2>5 DEF Others
  <2> QED
    BY <2>2, <2>4, <2>6, <2>7 DEF Avoids
<1>2. CASE Acquire(r) \/ Prepared(r) \/ PrepareError(r) \/ Answer(r) \/ Fail(r) \/ Abort(r)
  <2>1. /\ UNCHANGED <<unhealthy, pin, gaveBack, token>>
        /\ pc[r] # "idle" /\ pc'[r] \in {"prepare", "model", "done"}
        /\ pc'[r] # "done" => pc[r] \in {"queued", "prepare"}
    BY <1>0, <1>2 DEF Acquire, Prepared, PrepareError, Answer, Fail, Abort, Close, TypeOK
  <2> QED
    BY <1>0, <2>1, RetryStays DEF Others
<1>3. CASE HardFail(r)
  <2> DEFINE s == SessionOf[r]
             bad == unhealthy \cup {token[r]} \cup ({pin[s]} \ {None})
             next == Replacement(r, bad)
  <2>1. /\ unhealthy' = bad /\ UNCHANGED token /\ pc[r] = "model" /\ gaveBack[r] = None
        /\ pc'[r] \in {"done", "retry"} /\ token[r] \in Tokens /\ bad \subseteq Tokens
        /\ \/ /\ next \ {token[r]} = {} /\ gaveBack' = gaveBack
              /\ pin' = [pin EXCEPT ![s] = IF next = {} THEN None ELSE token[r]]
           \/ \E t \in next \ {token[r]} :
                /\ pin' = [pin EXCEPT ![s] = t] /\ gaveBack' = [gaveBack EXCEPT ![r] = token[r]]
    <3>1. /\ unhealthy' = bad /\ UNCHANGED token /\ pc[r] = "model" /\ gaveBack[r] = None
          /\ \/ /\ next \ {token[r]} = {} /\ gaveBack' = gaveBack
                /\ pin' = [pin EXCEPT ![s] = IF next = {} THEN None ELSE token[r]]
             \/ \E t \in next \ {token[r]} :
                  /\ pin' = [pin EXCEPT ![s] = t] /\ gaveBack' = [gaveBack EXCEPT ![r] = token[r]]
      BY <1>3 DEF HardFail, Nested
    <3>2. pc'[r] \in {"done", "retry"}
      BY <1>0, <1>3 DEF HardFail, Close, TypeOK
    <3>3. token[r] \in Tokens /\ bad \subseteq Tokens
      BY <1>0, <3>1 DEF TypeOK, Placed
    <3> QED
      BY <3>1, <3>2, <3>3
  <2> HIDE DEF bad, next
  <2>2. \A z : Exhausted(z) => Exhausted(z)'
    <3>1. unhealthy \subseteq unhealthy'
      BY <2>1 DEF bad
    <3> QED
      BY <1>0, <2>1, <3>1, ExhaustedStays DEF Others
  <2>3. pin'[s] \in bad => Exhausted(s)'
    <3>1. ASSUME NEW t \in next, t \in bad PROVE Eligible[r] \subseteq bad
      <4>1. {pin[s]} \ {None} \subseteq bad
        BY DEF bad
      <4> QED
        BY <1>0, <2>1, <3>1, <4>1, ReplacementFailed DEF next
    <3>2. Eligible[r] \subseteq bad => Exhausted(s)'
      BY <2>1 DEF Exhausted
    <3>3. pin'[s] \in next \/ pin'[s] = None
      BY <1>0, <2>1 DEF TypeOK
    <3>4. None \notin bad
      BY <2>1, TokenAssumption
    <3> QED
      BY <3>1, <3>2, <3>3, <3>4
  <2> SUFFICES ASSUME NEW q \in Runs, gaveBack'[q] # None PROVE Avoids(q)'
    BY <1>0 DEF RetryInv, Avoids
  <2>4. CASE q = r
    <3>1. gaveBack'[r] = token[r] /\ token[r] \in unhealthy'
      BY <1>0, <2>1, <2>4 DEF TypeOK, bad
    <3> QED
      BY <2>1, <2>3, <2>4, <3>1 DEF Avoids
  <2>5. CASE q # r
    <3>1. gaveBack'[q] = gaveBack[q] /\ pc'[q] = pc[q] /\ token'[q] = token[q]
      BY <1>0, <2>5 DEF Others
    <3>2. Avoids(q) /\ gaveBack[q] \in bad
      BY <3>1 DEF RetryInv, Avoids, bad
    <3>3. pin'[SessionOf[q]] = gaveBack[q] => Exhausted(SessionOf[q])'
      <4>1. CASE SessionOf[q] = s
        BY <2>3, <3>2, <4>1
      <4>2. CASE SessionOf[q] # s
        <5>1. pin'[SessionOf[q]] = pin[SessionOf[q]]
          BY <1>0, <2>1, <4>2, RunAssumption DEF TypeOK
        <5> QED
          BY <2>2, <3>1, <3>2, <5>1 DEF Avoids
      <4> QED
        BY <4>1, <4>2
    <3> QED
      BY <2>1, <2>2, <3>1, <3>2, <3>3 DEF Avoids
  <2> QED
    BY <2>4, <2>5
<1> QED
  BY <1>1, <1>2, <1>3 DEF Step

\* However the turns of a session overlap, blame tokens and move its pin, a run
\* that is made again after its token failed is made on another token, unless a
\* run of the session that has begun has no healthy token left.
THEOREM RetriesElsewhere == Spec => []RetryElsewhere
<1>1. Init => RetryInv
  <2>1. Init => \A r \in Runs : Avoids(r)
    BY DEF Init, Avoids
  <2> QED
    BY <2>1, InitType DEF RetryInv
<1>2. RetryInv /\ [Next]_vars => RetryInv'
  <2>1. ASSUME RetryInv, UNCHANGED vars PROVE RetryInv'
    BY <2>1 DEF RetryInv, TypeOK, Placed, Avoids, Exhausted, vars
  <2> QED
    BY <2>1, RetryStep DEF Next
<1>3. RetryInv => RetryElsewhere
  BY DEF RetryInv, Avoids, RetryElsewhere, Nested
<1> QED
  BY <1>1, <1>2, <1>3, PTL DEF Spec

=============================================================================
