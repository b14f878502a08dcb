-------------------------- MODULE SessionStoreProofs --------------------------
(***************************************************************************)
(* Proofs about SessionStore, for any number of sessions, of calls and of  *)
(* crashes, with and without the reset policy.  What is said of the types  *)
(* and of the transcript cache holds whatever calls overlap; what is said  *)
(* of the sessions and of the entries holds of one writing call at a time, *)
(* with any number of readers: two that overlap may lose an entry.         *)
(***************************************************************************)
EXTENDS SessionStore, TLAPS

(***************************************************************************)
(* The transcript cache                                                    *)
(***************************************************************************)

\* A version is of one transcript at most, and every later one is newer.
Versions ==
  /\ clock \in Nat
  /\ \A i \in DOMAIN file : file[i].stat \in Nat \ {0} /\ file[i].stat <= clock
  /\ \A i, j \in DOMAIN file : file[i].stat = file[j].stat => i = j

\* What v says of a version is what that version holds.
Honest(v) ==
  /\ v.stat \in Nat /\ v.stat <= clock
  /\ \A i \in DOMAIN file : file[i].stat = v.stat => file[i].has = v.has

\* A call that has taken a stat will read the transcript it took it of.
Watching(c) ==
  /\ view[c].stat \in Nat /\ view[c].stat <= clock
  /\ \A i \in DOMAIN file : file[i].stat = view[c].stat => i = sid[c]

CacheTypes ==
  /\ kept \in [Keys -> [stat : Nat, has : SUBSET Calls]]
  /\ view \in [Calls -> [stat : Nat, has : SUBSET Calls]]
  /\ \A i \in DOMAIN file : file[i].has \subseteq Calls
  /\ sid = [c \in Calls |-> sid[c]]
  /\ pc \in [Calls -> Places]
  /\ key \in [Calls -> Keys]

CacheInv ==
  /\ Versions
  /\ CacheTypes
  /\ \A k \in Keys : Honest(kept[k])
  /\ \A c \in Calls : pc[c] = "fetching" => Watching(c)
  /\ \A c \in Calls : pc[c] = "fetched" => Honest(view[c])

\* What any step does to the transcripts: one may get a new version, others may
\* be removed, and the rest stay.
Evolves ==
  /\ clock' \in Nat /\ clock <= clock'
  /\ \A i \in DOMAIN file' :
       \/ i \in DOMAIN file /\ file'[i] = file[i]
       \/ clock' = clock + 1 /\ file'[i].stat = clock' /\ file'[i].has \subseteq Calls
  /\ \A i, j \in DOMAIN file' : file'[i].stat = clock + 1 /\ file'[j].stat = clock + 1 => i = j

\* A change that only adds versions keeps versions unique.
LEMMA EvolvesVersions ==
  ASSUME Versions, Evolves, \A i \in DOMAIN file : file[i].has \subseteq Calls
  PROVE  /\ Versions'
         /\ \A i \in DOMAIN file' : file'[i].has \subseteq Calls
<1>1. \A i \in DOMAIN file' : file'[i].stat \in Nat \ {0} /\ file'[i].stat <= clock'
  BY DEF Versions, Evolves
<1>2. ASSUME NEW i \in DOMAIN file', NEW j \in DOMAIN file', file'[i].stat = file'[j].stat
      PROVE  i = j
  <2>1. CASE file'[i].stat = clock + 1
    BY <1>2, <2>1 DEF Evolves
  <2>2. CASE file'[i].stat # clock + 1
    <3>1. /\ i \in DOMAIN file /\ file'[i] = file[i]
          /\ j \in DOMAIN file /\ file'[j] = file[j]
      BY <1>2, <2>2 DEF Evolves
    <3> QED
      BY <1>2, <3>1 DEF Versions
  <2> QED
    BY <2>1, <2>2
<1>3. \A i \in DOMAIN file' : file'[i].has \subseteq Calls
  BY DEF Evolves
<1> QED
  BY <1>1, <1>2, <1>3 DEF Versions, Evolves

\* What was known of a version stays true: a new version has a new number.
LEMMA HonestStays ==
  ASSUME Versions, Evolves, NEW s \in Nat, s <= clock, NEW h,
         \A i \in DOMAIN file : file[i].stat = s => file[i].has = h
  PROVE  s <= clock' /\ \A i \in DOMAIN file' : file'[i].stat = s => file'[i].has = h
BY DEF Versions, Evolves

\* A read in progress still looks at the version its stat was taken of.
LEMMA WatchingStays ==
  ASSUME Versions, Evolves, NEW s \in Nat, s <= clock, NEW id,
         \A i \in DOMAIN file : file[i].stat = s => i = id
  PROVE  s <= clock' /\ \A i \in DOMAIN file' : file'[i].stat = s => i = id
BY DEF Versions, Evolves

\* A write adds one version.
LEMMA WriteEvolves ==
  ASSUME Versions, NEW id, NEW has \in SUBSET Calls, NEW cut, Write(id, has, cut)
  PROVE  Evolves
<1>1. \A i \in DOMAIN file' :
        IF i = id THEN file'[i].stat = clock + 1 /\ file'[i].has = has
        ELSE i \in DOMAIN file /\ file'[i] = file[i]
  BY DEF Write
<1> QED
  BY <1>1 DEF Write, Versions, Evolves

\* Removing a file adds none.
LEMMA RemoveEvolves ==
  ASSUME Versions, NEW id, file' = Without(id), clock' = clock
  PROVE  Evolves
<1>1. \A i \in DOMAIN file' : i \in DOMAIN file /\ file'[i] = file[i]
  BY DEF Without
<1> QED
  BY <1>1 DEF Versions, Evolves

\* A step that touches no file adds none.
LEMMA SameEvolves ==
  ASSUME Versions, UNCHANGED <<file, clock>>
  PROVE  Evolves
BY DEF Versions, Evolves

\* A step that changes transcripts, drops cache entries and moves calls on, but
\* takes no stat, reads no transcript and keeps none.
LEMMA StoreKeeps ==
  ASSUME CacheInv, Evolves, UNCHANGED <<view, key>>,
         \A k \in Keys : kept'[k] = kept[k] \/ kept'[k] = NoView,
         kept' = [k \in Keys |-> kept'[k]],
         sid' = [c \in Calls |-> sid'[c]],
         pc' \in [Calls -> Places],
         \A c \in Calls : pc'[c] \in {"fetching", "fetched"} => pc'[c] = pc[c] /\ sid'[c] = sid[c]
  PROVE  CacheInv'
<1>1. Versions' /\ \A i \in DOMAIN file' : file'[i].has \subseteq Calls
  BY EvolvesVersions DEF CacheInv, CacheTypes
<1>2. NoView \in [stat : Nat, has : SUBSET Calls] /\ NoView.stat = 0
  BY DEF NoView
<1>3. CacheTypes'
  <2>1. \A k \in Keys : kept'[k] \in [stat : Nat, has : SUBSET Calls]
    BY <1>2 DEF CacheInv, CacheTypes
  <2>2. kept' \in [Keys -> [stat : Nat, has : SUBSET Calls]]
    BY <2>1
  <2>3. view' \in [Calls -> [stat : Nat, has : SUBSET Calls]] /\ key' \in [Calls -> Keys]
    BY DEF CacheInv, CacheTypes
  <2> QED
    BY <1>1, <2>2, <2>3 DEF CacheTypes
<1>4. ASSUME NEW k \in Keys PROVE Honest(kept[k])'
  <2>1. CASE kept'[k] = NoView
    BY <1>1, <1>2, <2>1 DEF Honest, Versions
  <2>2. CASE kept'[k] = kept[k]
    <3>1. Versions /\ Honest(kept[k])
      BY DEF CacheInv
    <3>2. kept[k].stat \in Nat /\ kept[k].stat <= clock
      BY <3>1 DEF Honest
    <3>3. /\ kept[k].stat <= clock'
          /\ \A i \in DOMAIN file' : file'[i].stat = kept[k].stat => file'[i].has = kept[k].has
      BY <3>1, <3>2, HonestStays DEF Honest
    <3> QED
      BY <2>2, <3>2, <3>3 DEF Honest
  <2> QED
    BY <2>1, <2>2
<1>5. ASSUME NEW c \in Calls, pc'[c] = "fetching" PROVE Watching(c)'
  <2>1. Watching(c) /\ sid'[c] = sid[c] /\ view'[c] = view[c]
    BY <1>5 DEF CacheInv
  <2>2. Versions
    BY DEF CacheInv
  <2>3. view[c].stat \in Nat /\ view[c].stat <= clock
    BY <2>1 DEF Watching
  <2>4. /\ view[c].stat <= clock'
        /\ \A i \in DOMAIN file' : file'[i].stat = view[c].stat => i = sid[c]
    BY <2>1, <2>2, <2>3, WatchingStays DEF Watching
  <2> QED
    BY <2>1, <2>3, <2>4 DEF Watching
<1>6. ASSUME NEW c \in Calls, pc'[c] = "fetched" PROVE Honest(view[c])'
  <2>1. Honest(view[c]) /\ view'[c] = view[c]
    BY <1>6 DEF CacheInv
  <2>2. Versions
    BY DEF CacheInv
  <2>3. view[c].stat \in Nat /\ view[c].stat <= clock
    BY <2>1 DEF Honest
  <2>4. /\ view[c].stat <= clock'
        /\ \A i \in DOMAIN file' : file'[i].stat = view[c].stat => file'[i].has = view[c].has
    BY <2>1, <2>2, <2>3, HonestStays DEF Honest
  <2> QED
    BY <2>1, <2>3, <2>4 DEF Honest
<1> QED
  BY <1>1, <1>3, <1>4, <1>5, <1>6 DEF CacheInv

(***************************************************************************)
(* Each step keeps the invariant                                           *)
(***************************************************************************)

\* The start of a call keeps CacheInv.
LEMMA StartKeeps ==
  ASSUME CacheInv, NEW c \in Calls,
         \/ \E o \in Ops : Start(c, o)
         \/ ReadIndex(c) \/ Merge(c) \/ DeleteNothing(c) \/ Saved(c) \/ Answer(c)
         \/ Touch(c) \/ Resaved(c)
  PROVE  CacheInv'
<1> USE DEF CacheInv, CacheTypes
<1>0. /\ {"opening", "reading", "entering", "done", "viewing", "writing", "resaving"}
           \subseteq Places \ {"fetching", "fetched"}
  BY DEF Places
<1>1. UNCHANGED <<file, clock, view, key, sid>>
  BY DEF Start, ReadIndex, Merge, DeleteNothing, Saved, Answer, Touch, Resaved,
         memory, disk, counters
<1>2. \A k \in Keys : kept'[k] = kept[k] \/ kept'[k] = NoView
  BY DEF Start, ReadIndex, Merge, DeleteNothing, Saved, Answer, Touch, Resaved, memory
<1>3. kept' = [k \in Keys |-> kept'[k]]
  <2>1. CASE kept' = kept
    BY <2>1
  <2>2. CASE Touch(c)
    BY <2>2 DEF Touch
  <2> QED
    BY <2>1, <2>2 DEF Start, ReadIndex, Merge, DeleteNothing, Saved, Answer, Resaved, memory
<1>4. \E p \in Places \ {"fetching", "fetched"} : pc' = [pc EXCEPT ![c] = p]
  BY <1>0 DEF Start, ReadIndex, Merge, DeleteNothing, Saved, Answer, Touch, Resaved, Goto
<1>5. /\ pc' \in [Calls -> Places]
      /\ \A d \in Calls : pc'[d] \in {"fetching", "fetched"} => pc'[d] = pc[d] /\ sid'[d] = sid[d]
  BY <1>1, <1>4
<1>6. sid' = [d \in Calls |-> sid'[d]]
  BY <1>1
<1>7. Evolves
  BY <1>1, SameEvolves
<1> QED
  BY <1>1, <1>2, <1>3, <1>5, <1>6, <1>7, StoreKeeps

\* The steps under the lock keep CacheInv.
LEMMA LockedKeeps ==
  ASSUME CacheInv, NEW c \in Calls,
         GetOrCreate(c) \/ Reset(c) \/ Discard(c) \/ Delete(c)
  PROVE  CacheInv'
<1> USE DEF CacheInv, CacheTypes
<1>1. pc' = [pc EXCEPT ![c] = "saving"] /\ UNCHANGED <<view, key>>
  BY DEF GetOrCreate, Reset, Discard, Delete, Renew, SaveLocked, Goto
<1>2. \E id : sid' = [sid EXCEPT ![c] = id]
  <2>1. CASE sid' = sid
    BY <2>1
  <2> QED
    BY <2>1 DEF GetOrCreate, Reset, Discard, Delete, Renew
<1>3. \E k \in Keys : kept' = kept \/ kept' = [kept EXCEPT ![k] = NoView]
  BY DEF GetOrCreate, Reset, Discard, Delete, Archive
<1>4. clock' = clock /\ (file' = file \/ \E id : file' = Without(id))
  BY DEF GetOrCreate, Reset, Discard, Delete, Archive, disk
<1>5. Evolves
  BY <1>4, SameEvolves, RemoveEvolves
<1>6. /\ \A k \in Keys : kept'[k] = kept[k] \/ kept'[k] = NoView
      /\ kept' = [k \in Keys |-> kept'[k]]
  BY <1>3
<1>7. /\ pc' \in [Calls -> Places]
      /\ sid' = [d \in Calls |-> sid'[d]]
      /\ \A d \in Calls : pc'[d] \in {"fetching", "fetched"} => pc'[d] = pc[d] /\ sid'[d] = sid[d]
  BY <1>1, <1>2 DEF Places
<1> QED
  BY <1>1, <1>5, <1>6, <1>7, StoreKeeps

\* Reads and writes of a transcript keep CacheInv.
LEMMA WriteKeeps ==
  ASSUME CacheInv, NEW c \in Calls,
         AppendEntry(c) \/ Truncate(c) \/ Rewrite(c)
  PROVE  CacheInv'
<1> USE DEF CacheInv, CacheTypes
<1>1. /\ UNCHANGED <<view, key, sid, kept>>
      /\ \E p \in {"truncated", "written"} : pc' = [pc EXCEPT ![c] = p]
  BY DEF AppendEntry, Truncate, Rewrite, Goto, memory
<1>2. /\ pc' \in [Calls -> Places]
      /\ \A d \in Calls : pc'[d] \in {"fetching", "fetched"} => pc'[d] = pc[d] /\ sid'[d] = sid[d]
  BY <1>1 DEF Places
<1>3. Evolves
  <2>1. view[c].has \cup {c} \in SUBSET Calls /\ {c} \in SUBSET Calls /\ {} \in SUBSET Calls
    OBVIOUS
  <2>2. CASE AppendEntry(c)
    <3>1. Exists(sid[c]) => file[sid[c]].has \cup {c} \in SUBSET Calls
      BY DEF Exists
    <3> QED
      BY <2>1, <2>2, <3>1, WriteEvolves DEF AppendEntry
  <2>3. CASE Truncate(c)
    BY <2>1, <2>3, WriteEvolves DEF Truncate
  <2>4. CASE Rewrite(c)
    BY <2>1, <2>4, WriteEvolves, SameEvolves DEF Rewrite
  <2> QED
    BY <2>2, <2>3, <2>4
<1> QED
  BY <1>1, <1>2, <1>3, StoreKeeps

\* A load: the stat, the read, and the entry kept under the stat.
LEMMA LoadKeeps ==
  ASSUME CacheInv, NEW c \in Calls, View(c) \/ Fetch(c) \/ Keep(c)
  PROVE  CacheInv'
<1> USE DEF CacheInv
<1>0. /\ UNCHANGED <<file, clock, key>>
      /\ NoView \in [stat : Nat, has : SUBSET Calls] /\ NoView.stat = 0
      /\ {"working", "done", "fetching", "fetched"} \subseteq Places
  BY DEF View, Fetch, Keep, disk, counters, NoView, Places
<1>1. Versions' /\ \A v : Honest(v) => /\ v.stat \in Nat /\ v.stat <= clock'
        /\ \A i \in DOMAIN file' : file'[i].stat = v.stat => file'[i].has = v.has
  BY <1>0 DEF Versions, Honest
<1>2. Honest(NoView)
  BY <1>0 DEF Honest, Versions
<1>3. CASE View(c)
  <2> DEFINE id == cached[key[c]]
  <2>1. \A k \in Keys : kept'[k] = kept[k] \/ kept'[k] = NoView
    BY <1>3 DEF View, CacheTypes
  <2>2. kept' \in [Keys -> [stat : Nat, has : SUBSET Calls]]
    BY <1>0, <1>3 DEF View, CacheTypes
  <2>3. \E p \in {"working", "done", "fetching"} : pc' = [pc EXCEPT ![c] = p]
    BY <1>3 DEF View, Viewed, Goto
  <2>4. \E v \in [stat : Nat, has : SUBSET Calls] : view' = [view EXCEPT ![c] = v]
    <3>1. kept[key[c]] \in [stat : Nat, has : SUBSET Calls]
      BY DEF CacheTypes
    <3>2. Exists(id) => [stat |-> file[id].stat, has |-> {}] \in [stat : Nat, has : SUBSET Calls]
      BY DEF Exists, Versions
    <3> QED
      BY <1>0, <1>3, <3>1, <3>2 DEF View
  <2>5. sid' = [d \in Calls |-> sid'[d]]
    BY <1>3 DEF View, CacheTypes
  <2>6. CacheTypes'
    <3>1. pc' \in [Calls -> Places] /\ view' \in [Calls -> [stat : Nat, has : SUBSET Calls]]
      BY <1>0, <2>3, <2>4 DEF CacheTypes
    <3>2. key' \in [Calls -> Keys] /\ \A i \in DOMAIN file' : file'[i].has \subseteq Calls
      BY <1>0 DEF CacheTypes
    <3> QED
      BY <2>2, <2>5, <3>1, <3>2 DEF CacheTypes
  <2>7. \A d \in Calls \ {c} : pc'[d] = pc[d] /\ view'[d] = view[d] /\ sid'[d] = sid[d]
    BY <1>3 DEF View, Viewed, Goto, CacheTypes
  <2>8. pc'[c] # "fetched"
    BY <2>3 DEF CacheTypes
  <2>9. ASSUME pc'[c] = "fetching" PROVE Watching(c)'
    <3>1. /\ Exists(id) /\ view'[c].stat = file[id].stat /\ sid'[c] = id
      BY <1>3, <2>9 DEF View, Viewed, Goto, CacheTypes
    <3> QED
      BY <1>0, <3>1 DEF Watching, Versions, Exists
  <2>10. ASSUME NEW d \in Calls \ {c}, pc'[d] = "fetching" PROVE Watching(d)'
    BY <1>0, <2>7, <2>10 DEF Watching
  <2>11. ASSUME NEW d \in Calls \ {c}, pc'[d] = "fetched" PROVE Honest(view[d])'
    BY <1>0, <2>7, <2>11 DEF Honest
  <2>12. ASSUME NEW k \in Keys PROVE Honest(kept[k])'
    BY <1>0, <1>2, <2>1 DEF Honest
  <2> QED
    BY <1>1, <2>6, <2>8, <2>9, <2>10, <2>11, <2>12
<1>4. CASE Fetch(c)
  <2>1. UNCHANGED <<kept, sid>> /\ \E p \in {"working", "done", "fetched"} : pc' = [pc EXCEPT ![c] = p]
    BY <1>4 DEF Fetch, Viewed, Goto, memory
  <2>2. \E v \in [stat : Nat, has : SUBSET Calls] : view' = [view EXCEPT ![c] = v]
    <3>1. CASE Exists(sid[c])
      <4>1. view' = [view EXCEPT ![c] = [view[c] EXCEPT !.has = file[sid[c]].has]]
        BY <1>4, <3>1 DEF Fetch
      <4>2. [view[c] EXCEPT !.has = file[sid[c]].has] \in [stat : Nat, has : SUBSET Calls]
        BY <3>1 DEF Exists, CacheTypes
      <4> QED
        BY <4>1, <4>2
    <3>2. CASE ~Exists(sid[c])
      BY <1>0, <1>4, <3>2 DEF Fetch
    <3> QED
      BY <3>1, <3>2
  <2>3. CacheTypes'
    BY <1>0, <2>1, <2>2 DEF CacheTypes
  <2>4. \A d \in Calls \ {c} : pc'[d] = pc[d] /\ view'[d] = view[d] /\ sid'[d] = sid[d]
    BY <2>1, <2>2 DEF CacheTypes
  <2>5. pc'[c] # "fetching"
    BY <2>1 DEF CacheTypes
  <2>6. ASSUME pc'[c] = "fetched" PROVE Honest(view[c])'
    <3>1. /\ Exists(sid[c])
          /\ view'[c].stat = view[c].stat /\ view'[c].has = file[sid[c]].has
      BY <1>4, <2>6 DEF Fetch, Viewed, Goto, CacheTypes
    <3>2. Watching(c)
      BY <1>4 DEF Fetch
    <3> QED
      BY <1>0, <3>1, <3>2 DEF Watching, Honest
  <2>7. ASSUME NEW d \in Calls \ {c}, pc'[d] = "fetching" PROVE Watching(d)'
    BY <1>0, <2>4, <2>7 DEF Watching
  <2>8. ASSUME NEW d \in Calls \ {c}, pc'[d] = "fetched" PROVE Honest(view[d])'
    BY <1>0, <2>4, <2>8 DEF Honest
  <2>9. ASSUME NEW k \in Keys PROVE Honest(kept[k])'
    BY <1>0, <2>1 DEF Honest
  <2> QED
    BY <1>1, <2>3, <2>5, <2>6, <2>7, <2>8, <2>9
<1>5. CASE Keep(c)
  <2>1. /\ UNCHANGED <<view, sid>>
        /\ \E p \in {"working", "done"} : pc' = [pc EXCEPT ![c] = p]
        /\ kept' = [kept EXCEPT ![key[c]] = view[c]]
    BY <1>5 DEF Keep, Viewed, Goto
  <2>2. CacheTypes'
    BY <1>0, <2>1 DEF CacheTypes
  <2>3. \A d \in Calls \ {c} : pc'[d] = pc[d]
    BY <2>1 DEF CacheTypes
  <2>4. pc'[c] \notin {"fetching", "fetched"}
    BY <2>1 DEF CacheTypes
  <2>5. Honest(view[c])
    BY <1>5 DEF Keep
  <2>6. ASSUME NEW k \in Keys PROVE Honest(kept[k])'
    <3>1. kept'[k] = kept[k] \/ kept'[k] = view[c]
      BY <2>1 DEF CacheTypes
    <3> QED
      BY <1>0, <2>5, <3>1 DEF Honest
  <2>7. ASSUME NEW d \in Calls, pc'[d] = "fetching" PROVE Watching(d)'
    BY <1>0, <2>1, <2>3, <2>4, <2>7 DEF Watching
  <2>8. ASSUME NEW d \in Calls, pc'[d] = "fetched" PROVE Honest(view[d])'
    BY <1>0, <2>1, <2>3, <2>4, <2>8 DEF Honest
  <2> QED
    BY <1>1, <2>2, <2>6, <2>7, <2>8
<1> QED
  BY <1>3, <1>4, <1>5

\* A crash keeps CacheInv: the cache is empty afterwards.
LEMMA CrashKeeps ==
  ASSUME CacheInv, Crash
  PROVE  CacheInv'
<1>1. /\ UNCHANGED <<file, clock, view, key, sid>>
      /\ kept' = [k \in Keys |-> NoView]
      /\ pc' = [c \in Calls |-> IF c \in Busy THEN "dead" ELSE pc[c]]
  BY DEF Crash, disk
<1>2. /\ pc' \in [Calls -> Places]
      /\ \A d \in Calls : pc'[d] \in {"fetching", "fetched"} => pc'[d] = pc[d] /\ sid'[d] = sid[d]
  BY <1>1 DEF Places, CacheInv, CacheTypes
<1>3. Evolves
  BY <1>1, SameEvolves DEF CacheInv
<1> QED
  BY <1>1, <1>2, <1>3, StoreKeeps DEF CacheInv, CacheTypes

\* CacheInv holds at first.
LEMMA CacheInit == Init => CacheInv
<1> SUFFICES ASSUME Init PROVE CacheInv
  OBVIOUS
<1>1. NoView \in [stat : Nat, has : SUBSET Calls] /\ NoView.stat = 0
  BY DEF NoView
<1>2. DOMAIN file = {}
  BY DEF Init
<1>3. Versions /\ \A k \in Keys : Honest(kept[k])
  BY <1>1, <1>2 DEF Init, Versions, Honest
<1>4. CacheTypes /\ \A c \in Calls : pc[c] = "idle"
  BY <1>1, <1>2 DEF Init, CacheTypes, Places
<1> QED
  BY <1>3, <1>4 DEF CacheInv

\* The cache is honest, and the calls that load transcripts keep it so.
LEMMA CacheInvHolds == Spec => []CacheInv
<1>1. CacheInv /\ [Next]_vars => CacheInv'
  <2>1. ASSUME CacheInv, UNCHANGED vars PROVE CacheInv'
    BY <2>1 DEF vars, memory, disk, callVars, counters, CacheInv, CacheTypes, Versions,
                Honest, Watching
  <2> QED
    BY <2>1, StartKeeps, LockedKeeps, WriteKeeps, LoadKeeps, CrashKeeps DEF Next, Step
<1> QED
  BY <1>1, CacheInit, PTL DEF Spec

\* Whatever calls overlap and wherever the process dies, a cached transcript that
\* load_transcript would serve is what the file holds.  The invariant follows the
\* stat from where it is taken to where the entry is kept under it: versions are
\* never reused, so what was read later than the stat is never served under it.
THEOREM CacheIsHonest == Spec => []CacheHonest
<1>1. CacheInv => CacheHonest
  BY DEF CacheInv, CacheHonest, Honest, Exists
<1> QED
  BY <1>1, CacheInvHolds, PTL

(***************************************************************************)
(* Type correctness                                                        *)
(***************************************************************************)

LocksOK ==
  /\ lock \in [Keys -> Calls \cup {None}]
  /\ \A k \in Keys : lock[k] # None => pc[lock[k]] = "saving" /\ key[lock[k]] = k

FilesOK ==
  /\ DOMAIN file \subseteq Sessions
  /\ \A id \in DOMAIN file : file[id] \in [stat : 0..clock, has : SUBSET Calls, cut : BOOLEAN]
  /\ moved \subseteq Sessions
  /\ archived \subseteq Calls

\* An index is read only if there is one.
OpeningOK == \A c \in Calls : pc[c] = "opening" => index # None

SessionInv == TypeOK /\ OpeningOK

\* Sessions and views stay what they are when the numbers grow.
LEMMA NumbersGrow ==
  ASSUME TypeOK, lastId' \in {lastId, lastId + 1}, clock' \in {clock, clock + 1}
  PROVE  /\ lastId' \in Nat /\ clock' \in Nat
         /\ Sessions \subseteq Sessions' /\ Views \subseteq Views'
         /\ 0..clock \subseteq 0..clock' /\ NoView \in Views' /\ NoId \in Sessions'
         /\ NoSessions \in [Keys -> Sessions']
         /\ [Keys -> Sessions] \subseteq [Keys -> Sessions']
         /\ [Keys -> Views] \subseteq [Keys -> Views']
         /\ [Calls -> Sessions] \subseteq [Calls -> Sessions']
         /\ [Calls -> Views] \subseteq [Calls -> Views']
         /\ [Calls -> [Keys -> Sessions]] \subseteq [Calls -> [Keys -> Sessions']]
         /\ lastId' \in Sessions'
<1>1. lastId \in Nat /\ clock \in Nat
  BY DEF TypeOK
<1>2. /\ lastId' \in Nat /\ clock' \in Nat /\ 0..clock \subseteq 0..clock'
      /\ 0..lastId \subseteq 0..lastId' /\ 0 \in 0..clock' /\ 0 \in 0..lastId'
      /\ lastId' \in 0..lastId'
  BY <1>1
<1>3. /\ Sessions \subseteq Sessions' /\ Views \subseteq Views' /\ NoView \in Views'
      /\ NoId \in Sessions' /\ lastId' \in Sessions'
  BY <1>2 DEF Sessions, Views, NoView, NoId
<1>4. NoSessions \in [Keys -> Sessions']
  BY <1>3 DEF NoSessions
<1> HIDE DEF Sessions, Views
<1>5. /\ [Keys -> Sessions] \subseteq [Keys -> Sessions']
      /\ [Keys -> Views] \subseteq [Keys -> Views']
      /\ [Calls -> Sessions] \subseteq [Calls -> Sessions']
      /\ [Calls -> Views] \subseteq [Calls -> Views']
  BY <1>3
<1>6. [Calls -> [Keys -> Sessions]] \subseteq [Calls -> [Keys -> Sessions']]
  BY <1>5
<1> QED
  BY <1>2, <1>3, <1>4, <1>5, <1>6

\* A write keeps the types of the files.
LEMMA WriteType ==
  ASSUME TypeOK, NEW id \in Sessions, NEW has \in SUBSET Calls, NEW cut \in BOOLEAN,
         Write(id, has, cut), UNCHANGED <<lastId, moved, archived>>
  PROVE  FilesOK' /\ clock' = clock + 1
<1>1. clock \in Nat /\ clock + 1 \in 0..clock' /\ 0..clock \subseteq 0..clock' /\ clock' = clock + 1
  BY DEF TypeOK, Write
<1>2. DOMAIN file' \subseteq Sessions'
  BY DEF TypeOK, Write, Sessions
<1>3. ASSUME NEW i \in DOMAIN file'
      PROVE  file'[i] \in [stat : 0..clock', has : SUBSET Calls, cut : BOOLEAN]
  <2>1. CASE i = id
    <3>1. file'[i] = [stat |-> clock + 1, has |-> has, cut |-> cut]
      BY <1>3, <2>1 DEF Write
    <3> QED
      BY <1>1, <3>1
  <2>2. CASE i # id
    <3>1. i \in DOMAIN file /\ file'[i] = file[i]
      BY <1>3, <2>2 DEF Write
    <3>2. file[i] \in [stat : 0..clock, has : SUBSET Calls, cut : BOOLEAN]
      BY <3>1 DEF TypeOK
    <3> QED
      BY <1>1, <3>1, <3>2
  <2> QED
    BY <2>1, <2>2
<1> QED
  BY <1>1, <1>2, <1>3 DEF FilesOK, TypeOK, Sessions

\* Files that are removed or stay, and an archive that takes what one held.
LEMMA FilesType ==
  ASSUME TypeOK, clock' = clock, lastId' \in {lastId, lastId + 1},
         NEW id \in Sessions, file' = file \/ file' = Without(id),
         moved' \in {moved, moved \cup {id}},
         archived' = archived \/ (Exists(id) /\ archived' = archived \cup file[id].has)
  PROVE  FilesOK'
<1>1. Sessions \subseteq Sessions'
  BY NumbersGrow
<1>2. \A i \in DOMAIN file' : i \in DOMAIN file /\ file'[i] = file[i]
  BY DEF Without
<1>3. Exists(id) => file[id].has \subseteq Calls
  BY DEF TypeOK, Exists
<1> HIDE DEF Sessions
<1> QED
  BY <1>1, <1>2, <1>3 DEF FilesOK, TypeOK

\* A call takes the lock and starts to save.
LEMMA LocksTaken ==
  ASSUME TypeOK, NEW c \in Calls, key' = key,
         lock' = [lock EXCEPT ![key[c]] = c], pc' = [pc EXCEPT ![c] = "saving"]
  PROVE  LocksOK'
BY DEF TypeOK, LocksOK

\* A call that is not saving moves on.
LEMMA LocksStay ==
  ASSUME TypeOK, NEW c \in Calls, pc[c] # "saving", UNCHANGED <<key, lock>>,
         \A d \in Calls \ {c} : pc'[d] = pc[d]
  PROVE  LocksOK'
BY DEF TypeOK, LocksOK

\* The parts TypeOK is made of.
CallsOK ==
  /\ pc \in [Calls -> Places]
  /\ op \in [Calls -> Operations \cup {"persist"}]
  /\ key \in [Calls -> Keys]
  /\ sid \in [Calls -> Sessions]
  /\ snap \in [Calls -> [Keys -> Sessions]]
  /\ view \in [Calls -> Views]

MemoryOK ==
  /\ loaded \in BOOLEAN
  /\ cached \in [Keys -> Sessions]
  /\ kept \in [Keys -> Views]

RestOK ==
  /\ index = None \/ index \in [Keys -> Sessions]
  /\ clock \in Nat /\ lastId \in Nat
  /\ owed \subseteq Calls
  /\ crashes \in 0..Crashes

\* TypeOK is the conjunction of its parts.
LEMMA TypeParts ==
  /\ TypeOK <=> MemoryOK /\ LocksOK /\ FilesOK /\ CallsOK /\ RestOK
  /\ TypeOK' <=> MemoryOK' /\ LocksOK' /\ FilesOK' /\ CallsOK' /\ RestOK'
BY DEF TypeOK, MemoryOK, LocksOK, FilesOK, CallsOK, RestOK

\* Calls and memory that stay, or change by one entry of the right type.
LEMMA CallsStay ==
  ASSUME TypeOK, lastId' \in {lastId, lastId + 1}, clock' \in {clock, clock + 1},
         NEW c \in Calls,
         NEW place \in Places, pc' = [pc EXCEPT ![c] = place],
         UNCHANGED key,
         op' = op \/ \E o \in Operations \cup {"persist"} : op' = [op EXCEPT ![c] = o],
         sid' = sid \/ \E id \in Sessions' : sid' = [sid EXCEPT ![c] = id],
         snap' = snap \/ \E m \in [Keys -> Sessions'] : snap' = [snap EXCEPT ![c] = m],
         view' = view \/ \E v \in Views' : view' = [view EXCEPT ![c] = v]
  PROVE  CallsOK'
<1>1. CallsOK
  BY TypeParts
<1>2. pc' \in [Calls -> Places] /\ key' \in [Calls -> Keys]
  BY <1>1 DEF CallsOK
<1>3. op' \in [Calls -> Operations \cup {"persist"}]
  BY <1>1 DEF CallsOK
<1>4. sid' \in [Calls -> Sessions']
  <2>1. sid \in [Calls -> Sessions']
    BY <1>1, NumbersGrow DEF CallsOK
  <2> QED
    BY <2>1
<1>5. snap' \in [Calls -> [Keys -> Sessions']]
  <2>1. snap \in [Calls -> [Keys -> Sessions']]
    BY <1>1, NumbersGrow DEF CallsOK
  <2> QED
    BY <2>1
<1>6. view' \in [Calls -> Views']
  <2>1. view \in [Calls -> Views']
    BY <1>1, NumbersGrow DEF CallsOK
  <2> QED
    BY <2>1
<1> QED
  BY <1>2, <1>3, <1>4, <1>5, <1>6 DEF CallsOK

\* The types of the memory outlast a step of the counters.
LEMMA MemoryStays ==
  ASSUME TypeOK, lastId' \in {lastId, lastId + 1}, clock' \in {clock, clock + 1},
         loaded' \in BOOLEAN,
         cached' = cached \/ \E k \in Keys, id \in Sessions' : cached' = [cached EXCEPT ![k] = id],
         kept' = kept \/ \E k \in Keys, v \in Views' : kept' = [kept EXCEPT ![k] = v]
  PROVE  MemoryOK'
<1>1. cached \in [Keys -> Sessions'] /\ kept \in [Keys -> Views']
  BY NumbersGrow DEF TypeOK
<1>2. cached' \in [Keys -> Sessions'] /\ kept' \in [Keys -> Views']
  BY <1>1
<1> QED
  BY <1>2 DEF MemoryOK

\* The other types outlast a step of the counters.
LEMMA RestStays ==
  ASSUME TypeOK, lastId' \in {lastId, lastId + 1}, clock' \in {clock, clock + 1},
         index' = index \/ index' \in [Keys -> Sessions],
         owed' \subseteq Calls, crashes' = crashes
  PROVE  RestOK'
BY NumbersGrow DEF TypeOK, RestOK

\* The types of the files outlast a step of the counters.
LEMMA FilesStay ==
  ASSUME TypeOK, lastId' \in {lastId, lastId + 1}, UNCHANGED <<file, moved, archived, clock>>
  PROVE  FilesOK'
<1>1. Sessions \subseteq Sessions'
  BY NumbersGrow
<1> HIDE DEF Sessions
<1> QED
  BY <1>1 DEF FilesOK, TypeOK

(***************************************************************************)
(* Each step keeps the types                                               *)
(***************************************************************************)

\* The start of a call keeps SessionInv.
LEMMA StartType ==
  ASSUME SessionInv, NEW c \in Calls,
         (\E o \in Ops : Start(c, o)) \/ ReadIndex(c) \/ Merge(c) \/ DeleteNothing(c) \/ Answer(c)
  PROVE  SessionInv'
<1>0. {"opening", "reading", "entering", "done"} \subseteq Places
  BY DEF Places
<1>1. UNCHANGED <<lastId, clock, key, lock, file, moved, archived, index, owed, crashes, kept>>
  BY DEF Start, ReadIndex, Merge, DeleteNothing, Answer, disk, counters, memory
<1>2. \E place \in Places : pc' = [pc EXCEPT ![c] = place] /\ (place = "opening" => index # None)
  BY <1>0 DEF Start, ReadIndex, Merge, DeleteNothing, Answer, Goto
<1>3. PICK place \in Places : pc' = [pc EXCEPT ![c] = place] /\ (place = "opening" => index # None)
  BY <1>2
<1>4. pc[c] # "saving" /\ \A d \in Calls \ {c} : pc'[d] = pc[d]
  BY <1>3 DEF Start, ReadIndex, Merge, DeleteNothing, Answer, Hold, SessionInv, TypeOK
<1>5. UNCHANGED <<sid, view>>
  BY DEF Start, ReadIndex, Merge, DeleteNothing, Answer
<1>6. op' = op \/ \E o \in Operations \cup {"persist"} : op' = [op EXCEPT ![c] = o]
  BY SessionAssumption DEF Start, ReadIndex, Merge, DeleteNothing, Answer
<1>7. snap' = snap \/ \E m \in [Keys -> Sessions'] : snap' = [snap EXCEPT ![c] = m]
  <2>1. CASE ReadIndex(c)
    <3>1. index # None /\ index \in [Keys -> Sessions']
      BY <1>1, <2>1, NumbersGrow DEF ReadIndex, SessionInv, OpeningOK, TypeOK
    <3> QED
      BY <2>1, <3>1 DEF ReadIndex
  <2>2. CASE ~ReadIndex(c)
    BY <2>2 DEF Start, Merge, DeleteNothing, Answer
  <2> QED
    BY <2>1, <2>2
<1>8. MemoryOK'
  <2>1. CASE Merge(c)
    <3>1. cached' \in [Keys -> Sessions]
      BY <2>1 DEF Merge, SessionInv, TypeOK
    <3> QED
      BY <1>1, <2>1, <3>1 DEF Merge, MemoryOK, SessionInv, TypeOK, Sessions, Views
  <2>2. CASE ~Merge(c)
    BY <1>1, <2>2, MemoryStays
       DEF Start, ReadIndex, DeleteNothing, Answer, memory, SessionInv, TypeOK
  <2> QED
    BY <2>1, <2>2
<1>9. CallsOK'
  BY <1>1, <1>3, <1>5, <1>6, <1>7, CallsStay DEF SessionInv
<1>10. RestOK'
  BY <1>1, RestStays DEF SessionInv, TypeOK
<1>11. LocksOK' /\ FilesOK'
  BY <1>1, <1>4, LocksStay, FilesStay DEF SessionInv
<1>12. OpeningOK'
  BY <1>1, <1>3, <1>4 DEF OpeningOK, SessionInv, TypeOK
<1> QED
  BY <1>8, <1>9, <1>10, <1>11, <1>12, TypeParts DEF SessionInv

\* What an operation under the lock has in common with the others.
LEMMA LockedType ==
  ASSUME SessionInv, NEW c \in Calls, clock' = clock, lastId' \in {lastId, lastId + 1},
         UNCHANGED <<loaded, index, op, key, view, crashes>>, owed' \subseteq Calls,
         NEW id \in Sessions', SaveLocked(c, [cached EXCEPT ![key[c]] = id]),
         sid' = sid \/ \E i \in Sessions' : sid' = [sid EXCEPT ![c] = i],
         kept' = kept \/ kept' = [kept EXCEPT ![key[c]] = NoView],
         FilesOK'
  PROVE  SessionInv'
<1> DEFINE sessions == [cached EXCEPT ![key[c]] = id]
<1>1. key[c] \in Keys /\ NoView \in Views' /\ "saving" \in Places
  BY NumbersGrow DEF SessionInv, TypeOK, Places
<1>2. sessions \in [Keys -> Sessions']
  <2>1. cached \in [Keys -> Sessions']
    BY NumbersGrow DEF SessionInv, TypeOK
  <2> QED
    BY <1>1, <2>1
<1>3. /\ cached' = [cached EXCEPT ![key[c]] = id]
      /\ lock' = [lock EXCEPT ![key[c]] = c] /\ snap' = [snap EXCEPT ![c] = sessions]
      /\ pc' = [pc EXCEPT ![c] = "saving"]
  BY DEF SaveLocked, Goto
<1> HIDE DEF sessions
<1>4. MemoryOK'
  BY <1>1, <1>3, MemoryStays DEF SessionInv, TypeOK
<1>5. CallsOK'
  BY <1>1, <1>2, <1>3, CallsStay DEF SessionInv
<1>6. LocksOK' /\ RestOK'
  BY <1>3, LocksTaken, RestStays DEF SessionInv
<1>7. OpeningOK'
  BY <1>3 DEF OpeningOK, SessionInv, TypeOK
<1> QED
  BY <1>4, <1>5, <1>6, <1>7, TypeParts DEF SessionInv

\* The steps under the lock keep SessionInv.
LEMMA LockedKeepsType ==
  ASSUME SessionInv, NEW c \in Calls,
         GetOrCreate(c) \/ Reset(c) \/ Discard(c) \/ Delete(c)
  PROVE  SessionInv'
<1> DEFINE k == key[c]
           id == cached[k]
<1>1. /\ k \in Keys /\ id \in Sessions /\ lastId \in Nat /\ clock' = clock
      /\ UNCHANGED <<loaded, index, op, key, view, crashes>>
      /\ cached \in [Keys -> Sessions] /\ owed \subseteq Calls
  BY DEF SessionInv, TypeOK, GetOrCreate, Reset, Discard, Delete, disk
<1>2. cached = [cached EXCEPT ![k] = id]
  BY <1>1
<1>3. ASSUME lastId' \in {lastId, lastId + 1}, file' = file \/ file' = Without(id),
             moved' \in {moved, moved \cup {id}},
             archived' = archived \/ (Exists(id) /\ archived' = archived \cup file[id].has)
      PROVE  FilesOK' /\ Sessions \subseteq Sessions' /\ lastId' \in Sessions' /\ NoId \in Sessions'
  BY <1>1, <1>3, FilesType, NumbersGrow DEF SessionInv
<1> HIDE DEF Sessions
<1>4. CASE Reset(c)
  <2>1. FilesOK' /\ lastId' \in Sessions'
    BY <1>3, <1>4 DEF Reset, Renew, Archive
  <2> QED
    BY <1>1, <1>4, <2>1, LockedType DEF Reset, Renew
<1>5. CASE Discard(c)
  <2>1. FilesOK' /\ lastId' \in Sessions'
    BY <1>3, <1>5 DEF Discard, Renew, disk
  <2> QED
    BY <1>1, <1>5, <2>1, LockedType DEF Discard, Renew
<1>6. CASE Delete(c)
  <2>1. FilesOK' /\ NoId \in Sessions'
    BY <1>3, <1>6 DEF Delete
  <2> QED
    BY <1>1, <1>6, <2>1, LockedType DEF Delete
<1>7. CASE GetOrCreate(c)
  <2>1. CASE sid' = [sid EXCEPT ![c] = id] /\ SaveLocked(c, cached)
             /\ UNCHANGED <<kept, file, moved, archived, lastId>>
    <3>1. FilesOK' /\ id \in Sessions'
      BY <1>1, <1>3, <2>1
    <3>2. SaveLocked(c, [cached EXCEPT ![k] = id])
      BY <1>2, <2>1
    <3> QED
      BY <1>1, <1>7, <2>1, <3>1, <3>2, LockedType DEF GetOrCreate
  <2>2. CASE Archive(k) /\ (kept' = kept \/ kept' = [kept EXCEPT ![k] = NoView]) /\ Renew(c)
    <3>1. FilesOK' /\ lastId' \in Sessions'
      BY <1>3, <2>2 DEF Renew, Archive
    <3> QED
      BY <1>1, <1>7, <2>2, <3>1, LockedType DEF GetOrCreate, Renew
  <2>3. CASE Renew(c) /\ UNCHANGED <<kept, file, moved, archived>>
    <3>1. FilesOK' /\ lastId' \in Sessions'
      BY <1>3, <2>3 DEF Renew
    <3> QED
      BY <1>1, <1>7, <2>3, <3>1, LockedType DEF GetOrCreate, Renew
  <2> QED
    BY <1>7, <2>1, <2>2, <2>3 DEF GetOrCreate
<1> QED
  BY <1>4, <1>5, <1>6, <1>7

\* A save of the index keeps SessionInv.
LEMMA SavedKeepsType ==
  ASSUME SessionInv, NEW c \in Calls, Saved(c)
  PROVE  SessionInv'
<1>1. /\ UNCHANGED <<loaded, cached, kept, file, moved, archived, op, key, sid, view>>
      /\ UNCHANGED <<clock, lastId, owed, crashes>>
      /\ pc[c] = "saving" /\ index' = snap[c] /\ snap' = [snap EXCEPT ![c] = cached]
      /\ lock' = [lock EXCEPT ![key[c]] = None]
  BY DEF Saved, counters
<1>2. PICK place \in Places : pc' = [pc EXCEPT ![c] = place] /\ place # "opening"
  BY DEF Saved, Goto, Places
<1>3. snap[c] \in [Keys -> Sessions] /\ cached \in [Keys -> Sessions'] /\ owed \subseteq Calls
  BY <1>1 DEF SessionInv, TypeOK, Sessions
<1>4. CallsOK'
  BY <1>1, <1>2, <1>3, CallsStay DEF SessionInv
<1>50. loaded' \in BOOLEAN
  BY <1>1 DEF SessionInv, TypeOK
<1>51. snap[c] # None
  BY <1>3, SessionAssumption DEF Sessions, SessionInv, TypeOK
<1>5. MemoryOK' /\ RestOK' /\ FilesOK'
  <2>1. MemoryOK'
    BY <1>1, <1>50, MemoryStays DEF SessionInv
  <2>2. RestOK'
    <3>1. index' \in [Keys -> Sessions] /\ owed' \subseteq Calls
      BY <1>1, <1>3
    <3>2. lastId' \in {lastId, lastId + 1} /\ clock' \in {clock, clock + 1} /\ crashes' = crashes
      BY <1>1
    <3> QED
      BY <3>1, <3>2, RestStays DEF SessionInv
  <2>3. FilesOK'
    BY <1>1, FilesStay DEF SessionInv
  <2> QED
    BY <2>1, <2>2, <2>3
<1>6. LocksOK'
  BY <1>1, <1>2 DEF LocksOK, SessionInv, TypeOK
<1>7. OpeningOK'
  BY <1>1, <1>51 DEF OpeningOK
<1> QED
  BY <1>4, <1>5, <1>6, <1>7, TypeParts DEF SessionInv

\* Steps of a call that is not saving, and leaves the index and the locks alone.
LEMMA OtherType ==
  ASSUME SessionInv, NEW c \in Calls, NEW place \in Places \ {"opening"},
         pc[c] # "saving", pc' = [pc EXCEPT ![c] = place],
         clock' \in {clock, clock + 1}, FilesOK', owed' \subseteq Calls,
         UNCHANGED <<loaded, cached, lock, index, op, key, lastId, crashes>>,
         kept' = kept \/ \E k \in Keys, v \in Views' : kept' = [kept EXCEPT ![k] = v],
         sid' = sid \/ \E id \in Sessions' : sid' = [sid EXCEPT ![c] = id],
         snap' = snap \/ snap' = [snap EXCEPT ![c] = cached],
         view' = view \/ \E v \in Views' : view' = [view EXCEPT ![c] = v]
  PROVE  SessionInv'
<1>1. cached \in [Keys -> Sessions'] /\ loaded' \in BOOLEAN
  BY NumbersGrow DEF SessionInv, TypeOK
<1>2. CallsOK' /\ MemoryOK' /\ RestOK'
  BY <1>1, CallsStay, MemoryStays, RestStays DEF SessionInv
<1>3. LocksOK'
  BY LocksStay DEF SessionInv, TypeOK
<1>4. OpeningOK'
  BY DEF OpeningOK, SessionInv, TypeOK
<1> QED
  BY <1>2, <1>3, <1>4, TypeParts DEF SessionInv

\* Reading a transcript keeps SessionInv.
LEMMA LoadKeepsType ==
  ASSUME SessionInv, NEW c \in Calls, View(c) \/ Fetch(c) \/ Keep(c)
  PROVE  SessionInv'
<1>1. /\ UNCHANGED <<loaded, cached, lock, disk, op, key, snap, counters>>
      /\ UNCHANGED <<index, file, moved, archived, clock, lastId, owed, crashes>>
  BY DEF View, Fetch, Keep, memory, disk, counters
<1>2. /\ key[c] \in Keys /\ cached[key[c]] \in Sessions' /\ owed' \subseteq Calls
      /\ kept[key[c]] \in Views' /\ view[c] \in Views' /\ FilesOK'
  BY <1>1, NumbersGrow, FilesStay DEF SessionInv, TypeOK
<1>3. NoView \in Views' /\ \A id \in DOMAIN file : /\ [stat |-> file[id].stat, has |-> {}] \in Views'
                                                  /\ file[id].has \in SUBSET Calls
  BY <1>1, NumbersGrow DEF SessionInv, TypeOK, Views
<1>4. \E place \in Places \ {"opening"} : pc[c] # "saving" /\ pc' = [pc EXCEPT ![c] = place]
  BY DEF View, Fetch, Keep, Viewed, Goto, Places
<1>5. kept' = kept \/ \E k \in Keys, v \in Views' : kept' = [kept EXCEPT ![k] = v]
  BY <1>2, <1>3 DEF View, Fetch, Keep, memory
<1>6. sid' = sid \/ \E id \in Sessions' : sid' = [sid EXCEPT ![c] = id]
  BY <1>2 DEF View, Fetch, Keep
<1>7. view' = view \/ \E v \in Views' : view' = [view EXCEPT ![c] = v]
  <2>1. CASE View(c)
    BY <1>2, <1>3, <2>1 DEF View, Exists
  <2>2. CASE Keep(c)
    BY <2>2 DEF Keep
  <2>3. CASE Fetch(c)
    <3>1. CASE Exists(sid[c])
      <4>1. view' = [view EXCEPT ![c] = [view[c] EXCEPT !.has = file[sid[c]].has]]
        BY <2>3, <3>1 DEF Fetch
      <4>2. [view[c] EXCEPT !.has = file[sid[c]].has] \in Views'
        BY <1>2, <1>3, <3>1 DEF Views, Exists
      <4> QED
        BY <4>1, <4>2
    <3>2. CASE ~Exists(sid[c])
      BY <1>3, <2>3, <3>2 DEF Fetch
    <3> QED
      BY <3>1, <3>2
  <2> QED
    BY <2>1, <2>2, <2>3
<1> QED
  BY <1>1, <1>2, <1>4, <1>5, <1>6, <1>7, OtherType

\* Writing a transcript keeps SessionInv.
LEMMA StoreKeepsType ==
  ASSUME SessionInv, NEW c \in Calls,
         AppendEntry(c) \/ Truncate(c) \/ Rewrite(c) \/ Touch(c)
  PROVE  SessionInv'
<1>1. /\ UNCHANGED <<loaded, cached, lock, index, op, key, sid, view, lastId, crashes, owed, moved>>
      /\ owed \subseteq Calls /\ key[c] \in Keys /\ sid[c] \in Sessions /\ {c} \in SUBSET Calls
      /\ view[c].has \cup {c} \in SUBSET Calls /\ archived \subseteq Calls
  BY DEF AppendEntry, Truncate, Rewrite, Touch, memory, disk, counters, SessionInv, TypeOK, Views
<1>2. \E place \in Places \ {"opening"} : pc[c] # "saving" /\ pc' = [pc EXCEPT ![c] = place]
  BY DEF AppendEntry, Truncate, Rewrite, Touch, Goto, Places
<1>3. clock' \in {clock, clock + 1} /\ FilesOK'
  <2>1. CASE AppendEntry(c)
    <3>1. Exists(sid[c]) =>
            file[sid[c]].has \cup {c} \in SUBSET Calls /\ file[sid[c]].cut \in BOOLEAN
      BY DEF Exists, SessionInv, TypeOK
    <3>2. \E has \in SUBSET Calls, cut \in BOOLEAN : Write(sid[c], has, cut)
      BY <1>1, <2>1, <3>1 DEF AppendEntry
    <3> QED
      BY <1>1, <2>1, <3>2, WriteType DEF AppendEntry, SessionInv
  <2>2. CASE Truncate(c)
    <3>1. Write(sid[c], {}, TRUE) /\ {} \in SUBSET Calls /\ TRUE \in BOOLEAN
      BY <2>2 DEF Truncate
    <3> QED
      BY <1>1, <2>2, <3>1, WriteType DEF Truncate, SessionInv
  <2>3. CASE Rewrite(c) /\ Exists(sid[c])
    <3>1. Write(sid[c], view[c].has \cup {c}, FALSE) /\ FALSE \in BOOLEAN /\ UNCHANGED archived
      BY <2>3 DEF Rewrite
    <3> QED
      BY <1>1, <3>1, WriteType DEF SessionInv
  <2>4. CASE Rewrite(c) /\ ~Exists(sid[c])
    <3>1. UNCHANGED <<file, clock, moved>> /\ archived' \subseteq Calls
      BY <1>1, <2>4 DEF Rewrite
    <3> QED
      BY <1>1, <3>1 DEF FilesOK, SessionInv, TypeOK, Sessions
  <2>5. CASE Touch(c)
    BY <2>5, FilesStay DEF Touch, disk, counters, SessionInv
  <2> QED
    BY <2>1, <2>2, <2>3, <2>4, <2>5
<1>4. kept' = kept \/ \E k \in Keys, v \in Views' : kept' = [kept EXCEPT ![k] = v]
  <2>1. NoView \in Views'
    BY <1>1, <1>3, NumbersGrow DEF SessionInv
  <2> QED
    BY <1>1, <2>1 DEF AppendEntry, Truncate, Rewrite, Touch, memory
<1>5. snap' = snap \/ snap' = [snap EXCEPT ![c] = cached]
  BY DEF AppendEntry, Truncate, Rewrite, Touch
<1> QED
  BY <1>1, <1>2, <1>3, <1>4, <1>5, OtherType

\* The second save of a call keeps SessionInv.
LEMMA ResavedKeepsType ==
  ASSUME SessionInv, NEW c \in Calls, Resaved(c)
  PROVE  SessionInv'
<1>1. /\ UNCHANGED <<loaded, cached, kept, lock, file, moved, archived, op, key, sid, snap, view>>
      /\ UNCHANGED <<clock, lastId, crashes>> /\ index' = snap[c] /\ owed' \subseteq Calls
      /\ pc[c] # "saving" /\ pc' = [pc EXCEPT ![c] = "done"] /\ "done" \in Places
  BY DEF Resaved, memory, SessionInv, TypeOK, Goto, Places
<1>2. snap[c] \in [Keys -> Sessions]
  BY DEF SessionInv, TypeOK
<1>3. CallsOK' /\ FilesOK'
  BY <1>1, CallsStay, FilesStay DEF SessionInv
<1>4. MemoryOK' /\ RestOK'
  <2>1. loaded' \in BOOLEAN
    BY <1>1 DEF SessionInv, TypeOK
  <2>2. MemoryOK'
    BY <1>1, <2>1, MemoryStays DEF SessionInv
  <2>3. RestOK'
    <3>1. index' \in [Keys -> Sessions] /\ owed' \subseteq Calls
      BY <1>1, <1>2
    <3>2. lastId' \in {lastId, lastId + 1} /\ clock' \in {clock, clock + 1} /\ crashes' = crashes
      BY <1>1
    <3> QED
      BY <3>1, <3>2, RestStays DEF SessionInv
  <2> QED
    BY <2>2, <2>3
<1>5. LocksOK'
  BY <1>1, LocksStay DEF SessionInv, TypeOK
<1>6. OpeningOK'
  <2>1. snap[c] # None
    BY <1>2, SessionAssumption DEF Sessions, SessionInv, TypeOK
  <2> QED
    BY <1>1, <2>1 DEF OpeningOK
<1> QED
  BY <1>3, <1>4, <1>5, <1>6, TypeParts DEF SessionInv

\* A crash keeps SessionInv.
LEMMA CrashKeepsType ==
  ASSUME SessionInv, Crash
  PROVE  SessionInv'
<1>1. /\ UNCHANGED <<index, file, moved, archived, op, key, sid, snap, view, clock, lastId, owed>>
      /\ loaded' = FALSE /\ cached' = NoSessions /\ kept' = [k \in Keys |-> NoView]
      /\ lock' = [k \in Keys |-> None] /\ crashes' \in 0..Crashes
      /\ pc' = [c \in Calls |-> IF c \in Busy THEN "dead" ELSE pc[c]]
  BY SessionAssumption DEF Crash, disk, SessionInv, TypeOK
<1>2. NoSessions \in [Keys -> Sessions'] /\ NoView \in Views'
  BY <1>1, NumbersGrow DEF SessionInv
<1>3. MemoryOK' /\ FilesOK'
  BY <1>1, <1>2, FilesStay DEF MemoryOK, SessionInv
<1>4. CallsOK' /\ RestOK'
  BY <1>1, NumbersGrow DEF CallsOK, RestOK, SessionInv, TypeOK, Places, Sessions, Views
<1>5. LocksOK'
  BY <1>1 DEF LocksOK
<1>6. OpeningOK'
  BY <1>1 DEF OpeningOK, SessionInv, TypeOK, Busy
<1> QED
  BY <1>3, <1>4, <1>5, <1>6, TypeParts DEF SessionInv

\* SessionInv holds in every state.
LEMMA SessionInvHolds == Spec => []SessionInv
<1>1. Init => SessionInv
  <2> SUFFICES ASSUME Init PROVE SessionInv
    OBVIOUS
  <2>1. NoSessions \in [Keys -> Sessions] /\ NoView \in Views /\ NoId \in Sessions
    BY DEF Init, NoSessions, NoView, NoId, Sessions, Views
  <2>2. MemoryOK /\ OpeningOK
    BY <2>1 DEF Init, MemoryOK, OpeningOK
  <2>20. RestOK
    BY SessionAssumption DEF Init, RestOK, NoId
  <2>3. FilesOK /\ LocksOK
    BY <2>1 DEF Init, FilesOK, LocksOK
  <2>4. CallsOK
    BY <2>1 DEF Init, CallsOK, Places, Operations
  <2> QED
    BY <2>2, <2>20, <2>3, <2>4, TypeParts DEF SessionInv
<1>2. SessionInv /\ [Next]_vars => SessionInv'
  <2>1. ASSUME SessionInv, UNCHANGED vars PROVE SessionInv'
    BY <2>1 DEF vars, memory, disk, callVars, counters, SessionInv, TypeOK, OpeningOK,
       Sessions, Views
  <2> QED
    BY <2>1, StartType, LockedKeepsType, SavedKeepsType, LoadKeepsType, StoreKeepsType,
       ResavedKeepsType, CrashKeepsType DEF Next, Step
<1> QED
  BY <1>1, <1>2, PTL DEF Spec

\* Whatever calls overlap and wherever the process dies, everything the store
\* keeps has its type, and the lock of a key is held by a call that is saving.
THEOREM SessionTypeCorrect == Spec => []TypeOK
<1>1. SessionInv => TypeOK
  BY DEF SessionInv
<1> QED
  BY <1>1, SessionInvHolds, PTL

(***************************************************************************)
(* One writer at a time                                                    *)
(***************************************************************************)

Writing(c) == c \in Busy /\ op[c] # "history"

OnDisk == IF index = None THEN NoSessions ELSE index

\* Which operations come to which places.
Roles ==
  \A c \in Calls :
    /\ op[c] = "history" =>
         pc[c] \in {"idle", "opening", "reading", "entering", "fetching", "fetched",
                    "done", "dead"}
    /\ pc[c] \in {"viewing", "working"} => op[c] = "run"
    /\ pc[c] \in {"fetching", "fetched"} => op[c] \in {"run", "history"}
    /\ pc[c] \in {"writing", "written"} => op[c] \in {"append", "persist"}
    /\ pc[c] = "truncated" => op[c] = "persist"
    /\ pc[c] = "resaving" => op[c] \in {"append", "persist", "update"}

\* At most one call writes, and none but it is at work before the index is
\* loaded.
OneWriter ==
  /\ \A c, d \in Calls : Writing(c) /\ Writing(d) => c = d
  /\ ~loaded => /\ cached = NoSessions
                /\ \A c \in Busy : pc[c] \in {"opening", "reading"} /\ Busy = {c}
  /\ \A c \in Calls : pc[c] \in {"opening", "reading"} => ~loaded /\ index # None
  /\ \A c \in Calls : pc[c] = "reading" => snap[c] = index

\* What is to be saved is what the process has, and what it has is on disk
\* unless it is being saved.
Synced ==
  /\ \A c \in Calls : pc[c] \in {"saving", "resaving"} => snap[c] = cached
  /\ loaded /\ (\A c \in Calls : pc[c] # "saving") => cached = OnDisk

SerialInv == Roles /\ OneWriter /\ Synced

\* The place a call goes to suits its operation.
Suits(o, place) ==
  /\ o = "history" => place \in {"entering", "fetching", "fetched", "done"}
  /\ place \in {"viewing", "working"} => o = "run"
  /\ place \in {"fetching", "fetched"} => o \in {"run", "history"}
  /\ place \in {"writing", "written"} => o \in {"append", "persist"}
  /\ place = "truncated" => o = "persist"
  /\ place = "resaving" => o \in {"append", "persist", "update"}

\* A call at work, past the loading of the index, takes a step.
LEMMA WorkMoves ==
  ASSUME SessionInv, SerialInv, NEW c \in Calls,
         pc[c] \notin {"idle", "done", "dead", "opening", "reading"},
         NEW place \in Places, place \notin {"idle", "dead", "opening", "reading"},
         pc' = [pc EXCEPT ![c] = place], loaded' = loaded,
         op' = op \/ (op[c] = "run" /\ op' = [op EXCEPT ![c] = "persist"]),
         Suits(op'[c], place),
         \A d \in Calls \ {c} : snap'[d] = snap[d],
         \/ /\ UNCHANGED <<index, cached>> /\ pc[c] # "saving" /\ place # "saving"
            /\ place = "resaving" => snap'[c] = cached
         \/ index' = index /\ place = "saving" /\ op[c] # "history" /\ snap'[c] = cached'
         \/ pc[c] \in {"saving", "resaving"} /\ place # "saving" /\ index' = snap[c]
            /\ cached' = cached /\ (place = "resaving" => snap'[c] = cached)
  PROVE  SerialInv'
<1>1. /\ pc \in [Calls -> Places] /\ op \in [Calls -> Operations \cup {"persist"}]
      /\ c \in Busy /\ loaded
  BY DEF SessionInv, TypeOK, SerialInv, OneWriter, Busy
<1>2. /\ pc'[c] = place /\ \A d \in Calls \ {c} : pc'[d] = pc[d] /\ op'[d] = op[d]
      /\ op'[c] = "history" <=> op[c] = "history"
  BY <1>1 DEF SessionInv, TypeOK
<1>3. Roles'
  BY <1>2 DEF Roles, Suits, SerialInv
<1>4. \A d \in Calls : Writing(d)' => Writing(d)
  BY <1>1, <1>2 DEF Writing, Busy
<1>5. OneWriter'
  BY <1>1, <1>2, <1>4 DEF OneWriter, SerialInv
<1>6. ASSUME NEW d \in Calls, d # c, pc[d] \in {"saving", "resaving"} PROVE Writing(d)
  BY <1>6 DEF Writing, Busy, SerialInv, Roles
<1>7. CASE UNCHANGED <<index, cached>> /\ pc[c] # "saving" /\ place # "saving"
           /\ (place = "resaving" => snap'[c] = cached)
  <2>1. \A d \in Calls : pc'[d] \in {"saving", "resaving"} => snap'[d] = cached'
    BY <1>2, <1>7 DEF Synced, SerialInv
  <2>2. (\A d \in Calls : pc'[d] # "saving") => \A d \in Calls : pc[d] # "saving"
    BY <1>2, <1>7
  <2>3. OnDisk' = OnDisk
    BY <1>7 DEF OnDisk
  <2>4. loaded' /\ (\A d \in Calls : pc'[d] # "saving") => cached' = OnDisk'
    BY <1>1, <1>7, <2>2, <2>3 DEF Synced, SerialInv
  <2>5. Synced'
    BY <2>1, <2>4 DEF Synced
  <2> QED
    BY <1>3, <1>5, <2>5 DEF SerialInv
<1>8. CASE index' = index /\ place = "saving" /\ op[c] # "history" /\ snap'[c] = cached'
  <2>1. Writing(c) /\ \A d \in Calls \ {c} : pc[d] \notin {"saving", "resaving"}
    BY <1>1, <1>6, <1>8 DEF Writing, SerialInv, OneWriter
  <2> QED
    BY <1>2, <1>8, <2>1, <1>3, <1>5 DEF Synced, SerialInv
<1>9. CASE pc[c] \in {"saving", "resaving"} /\ place # "saving" /\ index' = snap[c]
           /\ cached' = cached /\ (place = "resaving" => snap'[c] = cached)
  <2>1. snap[c] = cached /\ cached # None
    BY <1>9, SessionAssumption DEF Synced, SerialInv, SessionInv, TypeOK, Sessions
  <2>2. cached' = OnDisk'
    BY <1>9, <2>1 DEF OnDisk
  <2> QED
    BY <1>2, <1>3, <1>5, <1>9, <2>2 DEF Synced, SerialInv
<1> QED
  BY <1>3, <1>5, <1>7, <1>8, <1>9 DEF SerialInv

\* The start of a call keeps SerialInv.
LEMMA StartSerial ==
  ASSUME SessionInv, SerialInv, Overlap # "all", NEW c \in Calls, NEW o \in Ops, Start(c, o)
  PROVE  SerialInv'
<1>1. /\ pc \in [Calls -> Places] /\ op \in [Calls -> Operations \cup {"persist"}]
      /\ o \in Operations /\ pc[c] = "idle" /\ c \notin Busy
      /\ UNCHANGED <<cached, index, snap>> /\ op' = [op EXCEPT ![c] = o]
  BY SessionAssumption DEF SessionInv, TypeOK, Start, Busy, disk
<1>2. /\ Busy = {} \/ (loaded /\ (o = "history" \/ \A d \in Busy : op[d] = "history"))
      /\ \/ (loaded \/ index = None) /\ loaded' /\ pc' = [pc EXCEPT ![c] = "entering"]
         \/ ~loaded /\ index # None /\ loaded' = loaded /\ pc' = [pc EXCEPT ![c] = "opening"]
  BY DEF Start, Admitted, Goto
<1>3. /\ op'[c] = o /\ pc'[c] \in {"entering", "opening"}
      /\ \A d \in Calls \ {c} : op'[d] = op[d] /\ pc'[d] = pc[d]
  BY <1>1, <1>2
<1>4. Roles'
  BY <1>3 DEF Roles, SerialInv
<1>5. Busy' = Busy \cup {c}
  BY <1>1, <1>2 DEF Busy
<1>6. OneWriter'
  <2>1. \A a, d \in Calls : Writing(a)' /\ Writing(d)' => a = d
    BY <1>2, <1>3, <1>5 DEF Writing, SerialInv, OneWriter
  <2>2. ~loaded' => /\ cached' = NoSessions
                    /\ \A d \in Busy' : pc'[d] \in {"opening", "reading"} /\ Busy' = {d}
    BY <1>1, <1>2, <1>5 DEF SerialInv, OneWriter
  <2>3. \A d \in Calls : pc'[d] \in {"opening", "reading"} => ~loaded' /\ index' # None
    <3>1. ASSUME NEW d \in Calls, d # c, pc[d] \in {"opening", "reading"} PROVE ~loaded /\ d \in Busy
      BY <3>1 DEF SerialInv, OneWriter, Busy
    <3> QED
      BY <1>1, <1>2, <1>3, <3>1 DEF SerialInv, OneWriter
  <2>4. \A d \in Calls : pc'[d] = "reading" => snap'[d] = index'
    BY <1>1, <1>3 DEF SerialInv, OneWriter
  <2> QED
    BY <2>1, <2>2, <2>3, <2>4 DEF OneWriter
<1>7. Synced'
  <2>1. \A d \in Calls : pc'[d] \in {"saving", "resaving"} => snap'[d] = cached'
    BY <1>1, <1>3 DEF SerialInv, Synced
  <2>2. loaded' /\ (\A d \in Calls : pc'[d] # "saving") => cached' = OnDisk'
    <3>1. (\A d \in Calls : pc'[d] # "saving") => \A d \in Calls : pc[d] # "saving"
      BY <1>1, <1>3
    <3> QED
      BY <1>1, <1>2, <3>1 DEF SerialInv, Synced, OneWriter, OnDisk
  <2> QED
    BY <2>1, <2>2 DEF Synced
<1> QED
  BY <1>4, <1>6, <1>7 DEF SerialInv

\* Reading the index keeps SerialInv.
LEMMA LoadIndexSerial ==
  ASSUME SessionInv, SerialInv, NEW c \in Calls, ReadIndex(c) \/ Merge(c)
  PROVE  SerialInv'
<1>1. /\ pc \in [Calls -> Places] /\ UNCHANGED <<op, index>>
      /\ pc[c] \in {"opening", "reading"} /\ c \in Busy
  BY DEF SessionInv, TypeOK, ReadIndex, Merge, Busy, disk
<1>2. Busy = {c} /\ ~loaded /\ cached = NoSessions /\ index # None /\ index \in [Keys -> Sessions]
  BY <1>1 DEF SerialInv, OneWriter, SessionInv, TypeOK
<1>3. \A d \in Calls \ {c} : pc[d] \in {"idle", "done", "dead"}
  BY <1>2 DEF Busy
<1>4. CASE ReadIndex(c)
  <2>1. /\ UNCHANGED <<loaded, cached>> /\ pc' = [pc EXCEPT ![c] = "reading"]
        /\ snap'[c] = index
    BY <1>4 DEF ReadIndex, Goto, memory, SessionInv, TypeOK
  <2>2. Busy' = {c}
    BY <1>1, <1>3, <2>1 DEF Busy
  <2> QED
    BY <1>1, <1>2, <1>3, <2>1, <2>2 DEF SerialInv, Roles, OneWriter, Writing, Synced
<1>5. CASE Merge(c)
  <2>1. /\ loaded' /\ snap' = snap /\ pc' = [pc EXCEPT ![c] = "entering"] /\ snap[c] = index
    BY <1>5 DEF Merge, Goto, SerialInv, OneWriter
  <2>2. cached' = index
    <3>1. cached' = [k \in Keys |-> IF index[k] = NoId THEN cached[k] ELSE index[k]]
      BY <1>5, <2>1 DEF Merge
    <3>2. \A k \in Keys : cached[k] = NoId
      BY <1>2 DEF NoSessions
    <3>3. index = [k \in Keys |-> index[k]]
      BY <1>2
    <3> QED
      BY <3>1, <3>2, <3>3
  <2>3. Busy' = {c}
    BY <1>1, <1>3, <2>1 DEF Busy
  <2> QED
    BY <1>1, <1>2, <1>3, <2>1, <2>2, <2>3
       DEF SerialInv, Roles, OneWriter, Writing, Synced, OnDisk
<1> QED
  BY <1>4, <1>5

\* The other steps of a call keep SerialInv.
LEMMA WorkSerial ==
  ASSUME SessionInv, SerialInv, NEW c \in Calls,
         \/ GetOrCreate(c) \/ Reset(c) \/ Discard(c) \/ Delete(c) \/ DeleteNothing(c) \/ Saved(c)
         \/ View(c) \/ Fetch(c) \/ Keep(c) \/ Answer(c)
         \/ AppendEntry(c) \/ Truncate(c) \/ Rewrite(c) \/ Touch(c) \/ Resaved(c)
  PROVE  SerialInv'
<1> USE DEF Goto
<1>1. snap \in [Calls -> [Keys -> Sessions]] /\ {"saving", "done", "viewing", "fetching",
        "fetched", "working", "entering", "writing", "truncated", "written", "resaving"} \subseteq Places
      /\ op \in [Calls -> Operations \cup {"persist"}]
  BY DEF SessionInv, TypeOK, Places
<1>2. CASE GetOrCreate(c) \/ Reset(c) \/ Discard(c) \/ Delete(c)
  <2>1. /\ pc[c] = "entering" /\ pc' = [pc EXCEPT ![c] = "saving"] /\ op[c] # "history"
        /\ UNCHANGED <<index, op, loaded>> /\ snap' = [snap EXCEPT ![c] = cached']
    BY <1>2 DEF GetOrCreate, Reset, Discard, Delete, Hold, Renew, SaveLocked, disk
  <2> QED
    BY <1>1, <2>1, WorkMoves DEF Suits
<1>3. CASE Saved(c)
  <2>1. /\ pc[c] = "saving" /\ UNCHANGED <<op, loaded, cached>> /\ index' = snap[c]
        /\ snap' = [snap EXCEPT ![c] = cached] /\ op[c] # "history"
    BY <1>3 DEF Saved, SerialInv, Roles
  <2>2. PICK place \in {"viewing", "writing", "resaving", "done"} :
          pc' = [pc EXCEPT ![c] = place] /\ Suits(op[c], place)
    BY <1>3, <2>1 DEF Saved, Suits
  <2> QED
    BY <1>1, <2>1, <2>2, WorkMoves
<1>4. CASE View(c) \/ Fetch(c) \/ Keep(c)
  <2>1. /\ pc[c] \in {"viewing", "entering", "fetching", "fetched"}
        /\ UNCHANGED <<op, loaded, cached, index, snap>> /\ op[c] \in {"run", "history"}
    BY <1>4 DEF View, Fetch, Keep, memory, disk, SerialInv, Roles
  <2>2. PICK place \in {"fetching", "fetched", "working", "done"} :
          pc' = [pc EXCEPT ![c] = place] /\ Suits(op[c], place)
    BY <1>4, <2>1 DEF View, Fetch, Keep, Viewed, Suits
  <2> QED
    BY <1>1, <2>1, <2>2, WorkMoves
<1>5. CASE Answer(c)
  <2>1. /\ pc[c] = "working" /\ UNCHANGED <<loaded, cached, index, snap>>
        /\ op[c] = "run" /\ op' = [op EXCEPT ![c] = "persist"] /\ pc' = [pc EXCEPT ![c] = "entering"]
    BY <1>5 DEF Answer, memory, disk, SerialInv, Roles
  <2>2. Suits(op'[c], "entering")
    BY <1>1, <2>1 DEF Suits
  <2> QED
    BY <1>1, <2>1, <2>2, WorkMoves
<1>6. CASE DeleteNothing(c) \/ AppendEntry(c) \/ Truncate(c) \/ Rewrite(c)
  <2>1. /\ pc[c] \in {"entering", "writing", "truncated"}
        /\ UNCHANGED <<op, loaded, cached, index, snap>> /\ op[c] \in {"delete", "append", "persist"}
    BY <1>6 DEF DeleteNothing, AppendEntry, Truncate, Rewrite, Hold, memory, disk, SerialInv, Roles
  <2>2. PICK place \in {"done", "written", "truncated"} :
          pc' = [pc EXCEPT ![c] = place] /\ Suits(op[c], place)
    BY <1>6, <2>1 DEF DeleteNothing, AppendEntry, Truncate, Rewrite, SerialInv, Roles, Suits
  <2> QED
    BY <1>1, <2>1, <2>2, WorkMoves
<1>7. CASE Touch(c)
  <2>1. /\ pc[c] = "written" /\ UNCHANGED <<op, loaded, cached, index>>
        /\ snap' = [snap EXCEPT ![c] = cached] /\ pc' = [pc EXCEPT ![c] = "resaving"]
        /\ op[c] \in {"append", "persist"}
    BY <1>7 DEF Touch, disk, SerialInv, Roles
  <2> QED
    BY <1>1, <2>1, WorkMoves DEF Suits
<1>8. CASE Resaved(c)
  <2>1. /\ pc[c] = "resaving" /\ UNCHANGED <<op, loaded, cached, snap>> /\ index' = snap[c]
        /\ pc' = [pc EXCEPT ![c] = "done"]
        /\ op[c] # "history"
    BY <1>8 DEF Resaved, memory, SerialInv, Roles
  <2> QED
    BY <1>1, <2>1, WorkMoves DEF Suits
<1> QED
  BY <1>2, <1>3, <1>4, <1>5, <1>6, <1>7, <1>8

\* A crash keeps SerialInv.
LEMMA CrashSerial ==
  ASSUME SessionInv, SerialInv, Crash
  PROVE  SerialInv'
<1>1. /\ UNCHANGED <<index, op>> /\ ~loaded' /\ cached' = NoSessions
      /\ \A c \in Calls : pc'[c] \in {"idle", "done", "dead"}
  BY DEF Crash, disk, Busy
<1>2. Busy' = {} /\ \A c \in Calls : ~Writing(c)'
  BY <1>1 DEF Busy, Writing
<1>3. Roles'
  BY <1>1 DEF Roles
<1>4. OneWriter'
  BY <1>1, <1>2 DEF OneWriter
<1>5. Synced'
  BY <1>1 DEF Synced
<1> QED
  BY <1>3, <1>4, <1>5 DEF SerialInv

\* One writer at a time, and what it has changed is on disk when it is done.
LEMMA Serial == ASSUME Overlap # "all" PROVE Spec => [](SessionInv /\ SerialInv)
<1>1. Init => SerialInv
  <2> SUFFICES ASSUME Init PROVE SerialInv
    OBVIOUS
  <2>1. /\ Busy = {} /\ ~loaded /\ cached = NoSessions
        /\ \A c \in Calls : pc[c] = "idle" /\ op[c] = "create"
    BY DEF Init, Busy
  <2> QED
    BY <2>1 DEF SerialInv, Roles, OneWriter, Synced, Writing
<1>2. SessionInv /\ SerialInv /\ [Next]_vars => SerialInv'
  <2>1. ASSUME SessionInv, SerialInv, UNCHANGED vars PROVE SerialInv'
    BY <2>1 DEF vars, memory, disk, callVars, counters, SerialInv, Roles, OneWriter, Synced,
       Writing, Busy, OnDisk
  <2> QED
    BY <2>1, StartSerial, LoadIndexSerial, WorkSerial, CrashSerial DEF Next, Step
<1>3. Spec => []SessionInv
  BY SessionInvHolds
<1> QED
  BY <1>1, <1>2, <1>3, PTL DEF Spec

\* While the calls that change sessions come one at a time, with any number of
\* readers among them, no step of the manager leaves a session in memory that a
\* restart would not find: between two writing calls sessions.json holds what
\* _metadata_cache holds.
THEOREM RestartFindsAll == ASSUME Overlap # "all" PROVE Spec => []DiskCurrent
<1>1. SessionInv /\ SerialInv => DiskCurrent
  <2> SUFFICES ASSUME SessionInv, SerialInv, loaded,
                      Busy \subseteq {c \in Calls : op[c] = "history"}
               PROVE  cached = OnDisk
    BY DEF DiskCurrent, OnDisk
  <2>1. \A c \in Calls : pc[c] # "saving"
    BY DEF Busy, SerialInv, Roles
  <2> QED
    BY <2>1 DEF SerialInv, Synced
<1> QED
  BY <1>1, Serial, PTL

(***************************************************************************)
(* What was answered is kept                                               *)
(***************************************************************************)

\* Two keys have no session in common.
Distinct(m) == \A k1, k2 \in Keys : m[k1] = m[k2] /\ m[k1] # NoId => k1 = k2

\* An entry that was answered is where the index says its session is, or is
\* about to be written there again.
Kept(e) ==
  /\ index # None
  /\ loaded => cached[key[e]] = index[key[e]]
  /\ Exists(index[key[e]])
  /\ \/ e \in file[index[key[e]]].has
     \/ \E c \in Calls : pc[c] = "truncated" /\ sid[c] = index[key[e]]

\* The writer works on the session its key has.
AtHome(c) ==
  /\ op[c] \in {"append", "run", "persist"}
     /\ pc[c] \in {"saving", "viewing", "fetching", "writing", "truncated", "written", "resaving"}
       => sid[c] = cached[key[c]] /\ sid[c] # NoId
  /\ pc[c] = "truncated" => Exists(sid[c])
  /\ pc[c] \in {"opening", "reading"} => op[c] # "persist"

\* What it has written is there.
Stored(c) ==
  pc[c] \in {"written", "resaving"} /\ op[c] # "update" =>
    Exists(sid[c]) /\ c \in file[sid[c]].has

\* What a run will write again includes all that was answered.
Remembers(c) ==
  (\/ op[c] = "run" /\ pc[c] \in {"fetched", "working"}
   \/ op[c] = "persist" /\ pc[c] \in {"entering", "saving", "writing", "truncated"})
    => \A e \in owed : key[e] = key[c] => e \in archived \/ e \in view[c].has

Progress(c) == AtHome(c) /\ Stored(c) /\ Remembers(c)

KeepInv ==
  /\ NoId \notin DOMAIN file
  /\ Distinct(cached)
  /\ index # None => Distinct(index)
  /\ \A e \in owed : e \in archived \/ Kept(e)
  /\ \A c \in Calls : Writing(c) => Progress(c)

StoreInv == SessionInv /\ SerialInv /\ CacheInv

\* A call at work finds the index loaded, and a writer is alone.
LEMMA Alone ==
  ASSUME StoreInv, NEW c \in Calls,
         pc[c] \notin {"idle", "done", "dead", "opening", "reading"}
  PROVE  /\ loaded
         /\ op[c] # "history" =>
              Writing(c) /\ \A d \in Calls \ {c} : ~Writing(d) /\ pc[d] # "truncated"
<1>1. c \in Busy /\ loaded
  BY DEF StoreInv, SerialInv, OneWriter, Busy
<1>2. ASSUME op[c] # "history", NEW d \in Calls \ {c}
      PROVE  ~Writing(d) /\ (pc[d] = "truncated" => Writing(d))
  BY <1>1, <1>2 DEF StoreInv, SerialInv, OneWriter, Roles, Writing, Busy
<1> QED
  BY <1>1, <1>2 DEF Writing

\* Where an answered entry is while no transcript is being written again.
LEMMA Home ==
  ASSUME KeepInv, loaded, \A d \in Calls : pc[d] # "truncated",
         NEW e \in owed, e \notin archived
  PROVE  /\ index # None /\ cached[key[e]] = index[key[e]] /\ cached[key[e]] # NoId
         /\ Exists(cached[key[e]]) /\ e \in file[cached[key[e]]].has
BY DEF KeepInv, Kept, Exists

\* After a step of a writer nobody else writes.
LEMMA StillAlone ==
  ASSUME StoreInv, NEW c \in Calls, op[c] # "history",
         pc[c] \notin {"idle", "done", "dead", "opening", "reading"},
         \A d \in Calls \ {c} : pc'[d] = pc[d] /\ op'[d] = op[d]
  PROVE  \A d \in Calls \ {c} : ~Writing(d)'
BY Alone DEF Writing, Busy

\* A call moves on, and neither the sessions nor what is stored changes.
LEMMA QuietKeeps ==
  ASSUME StoreInv, KeepInv, NEW c \in Calls,
         UNCHANGED <<cached, index, file, owed, archived, key>>, loaded' => loaded,
         pc[c] # "truncated",
         \A d \in Calls \ {c} :
           pc'[d] = pc[d] /\ op'[d] = op[d] /\ sid'[d] = sid[d] /\ view'[d] = view[d],
         Writing(c)' => Progress(c)'
  PROVE  KeepInv'
<1>1. NoId \notin DOMAIN file' /\ Distinct(cached') /\ (index' # None => Distinct(index'))
  BY DEF KeepInv, Distinct
<1>2. ASSUME NEW e \in owed', e \notin archived' PROVE Kept(e)'
  <2>1. Kept(e)
    BY <1>2 DEF KeepInv
  <2>2. ASSUME NEW d \in Calls, pc[d] = "truncated" PROVE pc'[d] = "truncated" /\ sid'[d] = sid[d]
    BY <2>2
  <2> QED
    BY <2>1, <2>2 DEF Kept, Exists
<1>3. ASSUME NEW d \in Calls \ {c}, Writing(d)' PROVE Progress(d)'
  <2>1. Writing(d) /\ Progress(d)
    BY <1>3 DEF Writing, Busy, KeepInv
  <2> QED
    BY <2>1 DEF Progress, AtHome, Stored, Remembers, Exists
<1> QED
  BY <1>1, <1>2, <1>3 DEF KeepInv

\* The start of a call keeps KeepInv.
LEMMA StartKeepsAll ==
  ASSUME StoreInv, KeepInv, NEW c \in Calls, \E o \in Ops : Start(c, o)
  PROVE  KeepInv'
<1>1. /\ UNCHANGED <<cached, index, file, owed, archived, key, sid, view>>
      /\ pc[c] = "idle" /\ pc'[c] \in {"entering", "opening"}
      /\ op'[c] \in Operations
      /\ \A d \in Calls \ {c} : pc'[d] = pc[d] /\ op'[d] = op[d]
      /\ (loaded' => loaded) \/ index = None
  BY SessionAssumption DEF Start, Goto, disk, counters, StoreInv, SessionInv, TypeOK
<1>2. Progress(c)'
  BY <1>1 DEF Progress, AtHome, Stored, Remembers, Operations
<1>3. CASE loaded' => loaded
  BY <1>1, <1>2, <1>3, QuietKeeps
<1>4. CASE index = None
  <2>1. \A e \in owed : e \in archived
    BY <1>4 DEF KeepInv, Kept
  <2>2. ASSUME NEW d \in Calls \ {c}, Writing(d)' PROVE Progress(d)'
    <3>1. Writing(d) /\ Progress(d)
      BY <1>1, <2>2 DEF Writing, Busy, KeepInv
    <3> QED
      BY <1>1, <3>1 DEF Progress, AtHome, Stored, Remembers, Exists
  <2>3. NoId \notin DOMAIN file' /\ Distinct(cached') /\ index' = None
    BY <1>1, <1>4 DEF KeepInv, Distinct
  <2> QED
    BY <1>1, <1>2, <2>1, <2>2, <2>3 DEF KeepInv
<1> QED
  BY <1>1, <1>3, <1>4

\* Reading the index keeps KeepInv.
LEMMA LoadKeepsAll ==
  ASSUME StoreInv, KeepInv, NEW c \in Calls, ReadIndex(c) \/ Merge(c)
  PROVE  KeepInv'
<1>1. /\ UNCHANGED <<index, file, owed, archived, key, sid, view, op>>
      /\ pc[c] \in {"opening", "reading"} /\ pc'[c] \in {"reading", "entering"}
      /\ \A d \in Calls \ {c} : pc'[d] = pc[d]
      /\ pc \in [Calls -> Places] /\ c \in Busy
  BY DEF ReadIndex, Merge, Goto, disk, counters, StoreInv, SessionInv, TypeOK, Busy
<1>2. /\ Busy = {c} /\ ~loaded /\ cached = NoSessions /\ index # None
      /\ index \in [Keys -> Sessions] /\ key \in [Calls -> Keys]
  BY <1>1 DEF StoreInv, SerialInv, OneWriter, SessionInv, TypeOK
<1>3. Writing(c)' => Progress(c)'
  BY <1>1 DEF Progress, AtHome, Stored, Remembers, Writing, Busy, KeepInv
<1>4. CASE ReadIndex(c)
  BY <1>1, <1>3, <1>4, QuietKeeps DEF ReadIndex, memory
<1>5. CASE Merge(c)
  <2>1. snap[c] = index /\ pc[c] = "reading"
    BY <1>5 DEF Merge, StoreInv, SerialInv, OneWriter
  <2>2. \A k \in Keys : cached'[k] = index[k]
    BY <1>2, <1>5, <2>1 DEF Merge, NoSessions
  <2>3. NoId \notin DOMAIN file' /\ Distinct(cached') /\ Distinct(index')
    BY <1>1, <1>2, <2>2 DEF KeepInv, Distinct
  <2>4. ASSUME NEW e \in owed', e \notin archived' PROVE Kept(e)'
    <3>1. Kept(e) /\ key[e] \in Keys
      BY <1>1, <1>2, <2>4 DEF KeepInv, StoreInv, SessionInv, TypeOK
    <3>2. \A d \in Calls : pc[d] # "truncated"
      BY <1>1, <1>2 DEF Busy
    <3> QED
      BY <1>1, <1>2, <2>2, <3>1, <3>2 DEF Kept, Exists
  <2>5. \A d \in Calls \ {c} : ~Writing(d)'
    BY <1>1, <1>2 DEF Writing, Busy
  <2> QED
    BY <1>3, <2>3, <2>4, <2>5 DEF KeepInv
<1> QED
  BY <1>4, <1>5

\* Calls that read a transcript, answer, or end.
LEMMA ReadKeepsAll ==
  ASSUME StoreInv, KeepInv, NEW c \in Calls,
         DeleteNothing(c) \/ View(c) \/ Fetch(c) \/ Keep(c) \/ Answer(c) \/ Touch(c)
  PROVE  KeepInv'
<1>1. /\ UNCHANGED <<cached, index, file, owed, archived, key, loaded>>
      /\ pc[c] \in {"entering", "viewing", "fetching", "fetched", "working", "written"}
      /\ \A d \in Calls \ {c} :
           pc'[d] = pc[d] /\ op'[d] = op[d] /\ sid'[d] = sid[d] /\ view'[d] = view[d]
  BY DEF DeleteNothing, View, Fetch, Keep, Answer, Touch, Hold, Viewed, Goto, memory, disk,
     counters, StoreInv, SessionInv, TypeOK
<1>2. loaded /\ (op[c] # "history" => Writing(c) /\ \A d \in Calls \ {c} : pc[d] # "truncated")
  BY <1>1, Alone
<1>3. op[c] # "history" => Progress(c) /\ \A d \in Calls : pc[d] # "truncated"
  BY <1>1, <1>2 DEF KeepInv
<1>4. Writing(c)' => op'[c] # "history" /\ pc'[c] # "done"
  BY DEF Writing, Busy
<1>5. ASSUME op[c] # "history", Writing(c)' PROVE Progress(c)'
  <2>1. CASE DeleteNothing(c)
    BY <1>4, <1>5, <2>1 DEF DeleteNothing, Goto, StoreInv, SessionInv, TypeOK
  <2>0. /\ key[c] \in Keys /\ sid[c] \in Sessions /\ cached[key[c]] \in Sessions
        /\ \A e \in owed : e \notin archived /\ key[e] = key[c] =>
             /\ cached[key[c]] # NoId /\ Exists(cached[key[c]])
             /\ e \in file[cached[key[c]]].has
    BY <1>2, <1>3, <1>5, Home DEF StoreInv, SessionInv, TypeOK
  <2>2. CASE View(c)
    <3>1. op[c] = "run" /\ op' = op /\ pc'[c] \in {"working", "fetching"}
      BY <1>5, <2>2 DEF View, Viewed, Goto, StoreInv, SessionInv, TypeOK, SerialInv, Roles
    <3>2. pc'[c] = "fetching" => sid'[c] = cached[key[c]] /\ Exists(cached[key[c]])
      BY <2>2, <3>1 DEF View, Viewed, Goto, StoreInv, SessionInv, TypeOK
    <3>3. AtHome(c)' /\ Stored(c)'
      BY <1>1, <3>1, <3>2 DEF AtHome, Stored, Exists, KeepInv
    <3>4. ASSUME pc'[c] = "working", NEW e \in owed, e \notin archived, key[e] = key[c]
          PROVE  e \in view'[c].has
      <4>1. Exists(cached[key[c]]) /\ e \in file[cached[key[c]]].has
        BY <2>0, <3>4
      <4>2. /\ kept[key[c]].stat = file[cached[key[c]]].stat
            /\ view'[c] = kept[key[c]]
        BY <2>0, <2>2, <3>1, <3>4, <4>1 DEF View, Goto, StoreInv, SessionInv, TypeOK
      <4>3. kept[key[c]].has = file[cached[key[c]]].has
        BY <2>0, <4>1, <4>2 DEF StoreInv, CacheInv, Honest, Exists
      <4> QED
        BY <4>1, <4>2, <4>3
    <3>5. Remembers(c)'
      BY <1>1, <3>1, <3>4 DEF Remembers
    <3> QED
      BY <3>3, <3>5 DEF Progress
  <2>3. CASE Fetch(c)
    <3>1. /\ op[c] = "run" /\ op' = op /\ pc'[c] \in {"working", "fetched"} /\ pc[c] = "fetching"
          /\ sid' = sid
      BY <1>5, <2>3 DEF Fetch, Viewed, Goto, StoreInv, SessionInv, TypeOK, SerialInv, Roles
    <3>2. sid[c] = cached[key[c]]
      BY <1>3, <1>5, <3>1 DEF Progress, AtHome
    <3>3. AtHome(c)' /\ Stored(c)'
      BY <3>1 DEF AtHome, Stored
    <3>4. ASSUME NEW e \in owed, e \notin archived, key[e] = key[c] PROVE e \in view'[c].has
      <4>1. Exists(sid[c]) /\ e \in file[sid[c]].has
        BY <2>0, <3>2, <3>4
      <4>2. view'[c] = [view[c] EXCEPT !.has = file[sid[c]].has] /\ view[c] \in Views
        BY <2>3, <4>1 DEF Fetch, StoreInv, SessionInv, TypeOK
      <4> QED
        BY <4>1, <4>2 DEF Views
    <3>5. Remembers(c)'
      BY <1>1, <3>4 DEF Remembers
    <3> QED
      BY <3>3, <3>5 DEF Progress
  <2>4. CASE Keep(c)
    <3>1. /\ op[c] = "run" /\ op' = op /\ pc'[c] = "working" /\ pc[c] = "fetched"
          /\ UNCHANGED <<sid, view>>
      BY <1>5, <2>4 DEF Keep, Viewed, Goto, StoreInv, SessionInv, TypeOK, SerialInv, Roles
    <3> QED
      BY <1>1, <1>3, <1>5, <3>1 DEF Progress, AtHome, Stored, Remembers
  <2>5. CASE Answer(c)
    <3>1. /\ op[c] = "run" /\ op'[c] = "persist" /\ pc'[c] = "entering" /\ pc[c] = "working"
          /\ UNCHANGED <<sid, view>>
      BY <1>5, <2>5 DEF Answer, Goto, StoreInv, SessionInv, TypeOK, SerialInv, Roles
    <3> QED
      BY <1>1, <1>3, <1>5, <3>1 DEF Progress, AtHome, Stored, Remembers
  <2>6. CASE Touch(c)
    <3>1. /\ op[c] \in {"append", "persist"} /\ op' = op /\ pc'[c] = "resaving" /\ pc[c] = "written"
          /\ UNCHANGED <<sid, view>>
      BY <2>6 DEF Touch, Goto, StoreInv, SessionInv, TypeOK, SerialInv, Roles
    <3> QED
      BY <1>1, <1>3, <1>5, <3>1 DEF Progress, AtHome, Stored, Remembers, Exists
  <2> QED
    BY <2>1, <2>2, <2>3, <2>4, <2>5, <2>6
<1>6. Writing(c)' => op[c] # "history"
  BY <1>4 DEF DeleteNothing, View, Fetch, Keep, Answer, Touch, StoreInv, SerialInv, Roles
<1> QED
  BY <1>1, <1>5, <1>6, QuietKeeps

\* Operations under the lock: the key of the call keeps its session, or gets
\* another when what the old one held is archived or deleted.
LEMMA LockedKeepsAll ==
  ASSUME StoreInv, KeepInv, NEW c \in Calls,
         GetOrCreate(c) \/ Reset(c) \/ Discard(c) \/ Delete(c)
  PROVE  KeepInv'
<1> DEFINE k == key[c]
           id == cached[k]
           Same == cached' = cached /\ file' = file
<1>1. /\ pc[c] = "entering" /\ pc'[c] = "saving" /\ op[c] # "history"
      /\ UNCHANGED <<index, op, key, view, loaded>>
      /\ \A d \in Calls \ {c} : pc'[d] = pc[d]
      /\ k \in Keys /\ lastId \in Nat /\ cached \in [Keys -> Sessions] /\ id \in Sessions
      /\ key \in [Calls -> Keys] /\ sid \in [Calls -> Sessions]
  BY DEF GetOrCreate, Reset, Discard, Delete, Hold, Renew, SaveLocked, Goto, disk,
     StoreInv, SessionInv, TypeOK
<1>2. loaded /\ Writing(c) /\ \A d \in Calls : pc[d] # "truncated"
  BY <1>1, Alone
<1>3. \A d \in Calls \ {c} : ~Writing(d)'
  BY <1>1, StillAlone
<1>4. /\ owed' \subseteq owed /\ archived \subseteq archived'
      /\ \A i \in DOMAIN file' : i \in DOMAIN file
      /\ \A i \in DOMAIN file : i # id => i \in DOMAIN file' /\ file'[i] = file[i]
  BY DEF GetOrCreate, Reset, Discard, Delete, Archive, Without, disk
<1>5. \/ cached' = cached
      \/ cached' = [cached EXCEPT ![k] = lastId + 1]
      \/ cached' = [cached EXCEPT ![k] = NoId]
  BY DEF GetOrCreate, Reset, Discard, Delete, Renew, SaveLocked
<1>6. Distinct(cached') /\ \A j \in Keys \ {k} : cached'[j] = cached[j]
  <2>1. \A j \in Keys : cached[j] # lastId + 1 /\ lastId + 1 # NoId
    BY <1>1 DEF Sessions, NoId
  <2> HIDE DEF id
  <2> QED
    BY <1>1, <1>5, <2>1 DEF Distinct, KeepInv
<1>7. ASSUME NEW e \in owed', e \notin archived', key[e] = k
      PROVE  Same
  <2>1. e \in owed /\ e \notin archived /\ Exists(id) /\ e \in file[id].has /\ id # NoId
    BY <1>2, <1>4, <1>7, Home
  <2> QED
    BY <1>7, <2>1 DEF GetOrCreate, Reset, Discard, Delete, Archive, SaveLocked
<1>8. ASSUME NEW e \in owed', e \notin archived' PROVE Kept(e)'
  <2>1. /\ e \in owed /\ e \notin archived /\ key[e] \in Keys
        /\ index # None /\ cached[key[e]] = index[key[e]] /\ cached[key[e]] # NoId
        /\ Exists(cached[key[e]]) /\ e \in file[cached[key[e]]].has
    BY <1>1, <1>2, <1>4, <1>8, Home DEF StoreInv, SessionInv, TypeOK
  <2>2. CASE key[e] = k
    BY <1>1, <1>7, <1>8, <2>1, <2>2 DEF Kept, Exists
  <2>3. CASE key[e] # k
    <3>1. cached[key[e]] # id
      BY <1>1, <2>1, <2>3 DEF Distinct, KeepInv
    <3> QED
      BY <1>1, <1>4, <1>6, <2>1, <2>3, <3>1 DEF Kept, Exists
  <2> QED
    BY <2>2, <2>3
<1>9. Progress(c)'
  <2>1. ASSUME op[c] \in {"append", "run", "persist"}
        PROVE  sid'[c] = cached'[k] /\ cached'[k] # NoId /\ owed' = owed
    <3>1. GetOrCreate(c) /\ lastId + 1 # NoId
      BY <1>1, <2>1 DEF Reset, Discard, Delete, NoId
    <3> QED
      BY <1>1, <3>1 DEF GetOrCreate, Renew, SaveLocked
  <2>2. AtHome(c)' /\ Stored(c)'
    BY <1>1, <2>1 DEF AtHome, Stored
  <2>3. Remembers(c)'
    BY <1>1, <1>2, <1>4 DEF Remembers, KeepInv, Progress
  <2> QED
    BY <2>2, <2>3 DEF Progress
<1>10. NoId \notin DOMAIN file' /\ (index' # None => Distinct(index'))
  BY <1>1, <1>4 DEF KeepInv, Distinct
<1> QED
  BY <1>3, <1>6, <1>8, <1>9, <1>10 DEF KeepInv

\* The index is saved.
LEMMA SavedKeepsAll ==
  ASSUME StoreInv, KeepInv, NEW c \in Calls, Saved(c) \/ Resaved(c)
  PROVE  KeepInv'
<1>1. /\ pc[c] \in {"saving", "resaving"} /\ index' = snap[c]
      /\ pc'[c] \in {"viewing", "writing", "resaving", "done"}
      /\ UNCHANGED <<cached, file, archived, op, key, sid, view, loaded>>
      /\ \A d \in Calls \ {c} : pc'[d] = pc[d]
      /\ key \in [Calls -> Keys] /\ snap[c] \in [Keys -> Sessions]
      /\ owed' = owed \/ (owed' = owed \cup {c} /\ op[c] # "update" /\ pc[c] = "resaving")
  BY DEF Saved, Resaved, Goto, memory, counters, StoreInv, SessionInv, TypeOK
<1>2. snap[c] = cached /\ op[c] # "history" /\ cached # None
  BY <1>1, SessionAssumption
     DEF StoreInv, SerialInv, Synced, Roles, Sessions, SessionInv, TypeOK
<1>3. loaded /\ Writing(c) /\ \A d \in Calls : pc[d] # "truncated"
  BY <1>1, <1>2, Alone
<1>4. \A d \in Calls \ {c} : ~Writing(d)'
  BY <1>1, <1>2, StillAlone
<1>5. Progress(c)
  BY <1>3 DEF KeepInv
<1>6. ASSUME NEW e \in owed', e \notin archived' PROVE Kept(e)'
  <2>1. CASE e \in owed
    <3>1. Exists(cached[key[e]]) /\ e \in file[cached[key[e]]].has
      BY <1>1, <1>3, <1>6, <2>1, Home
    <3> QED
      BY <1>1, <1>2, <3>1 DEF Kept, Exists
  <2>2. CASE e \notin owed
    <3>1. e = c /\ op[c] \in {"append", "persist"} /\ pc[c] = "resaving"
      BY <1>1, <1>6, <2>2 DEF StoreInv, SerialInv, Roles
    <3>2. Exists(cached[key[e]]) /\ e \in file[cached[key[e]]].has
      BY <1>5, <3>1 DEF Progress, AtHome, Stored
    <3> QED
      BY <1>1, <1>2, <3>2 DEF Kept, Exists
  <2> QED
    BY <2>1, <2>2
<1>7. Writing(c)' => Progress(c)'
  <2>1. CASE Resaved(c)
    BY <2>1 DEF Resaved, Goto, Writing, Busy, StoreInv, SessionInv, TypeOK
  <2>2. CASE Saved(c)
    <3>1. owed' = owed /\ pc[c] = "saving" /\ (pc'[c] = "resaving" => op[c] = "update")
          /\ (pc'[c] = "writing" => op[c] \in {"append", "persist"})
      BY <2>2 DEF Saved, Goto, counters, StoreInv, SessionInv, TypeOK
    <3>2. AtHome(c)' /\ Stored(c)'
      BY <1>1, <1>5, <3>1 DEF Progress, AtHome, Stored
    <3>3. Remembers(c)'
      BY <1>1, <1>5, <3>1 DEF Progress, Remembers
    <3> QED
      BY <3>2, <3>3 DEF Progress
  <2> QED
    BY <2>1, <2>2
<1>8. NoId \notin DOMAIN file' /\ Distinct(cached') /\ Distinct(index')
  BY <1>1, <1>2 DEF KeepInv, Distinct
<1> QED
  BY <1>4, <1>6, <1>7, <1>8 DEF KeepInv

\* A transcript is written: other keys are not disturbed, and what its own key
\* is owed stays in it, or is written again.
LEMMA WriteKeepsAll ==
  ASSUME StoreInv, KeepInv, NEW c \in Calls,
         AppendEntry(c) \/ Truncate(c) \/ Rewrite(c)
  PROVE  KeepInv'
<1> DEFINE k == key[c]
           id == sid[c]
<1>0. /\ pc \in [Calls -> Places] /\ key \in [Calls -> Keys]
      /\ cached \in [Keys -> Sessions] /\ c \in Calls
  BY DEF StoreInv, SessionInv, TypeOK
<1>1. /\ pc[c] \in {"writing", "truncated"} /\ op[c] \in {"append", "persist"}
      /\ UNCHANGED <<cached, index, loaded, op, key, sid, view, owed>>
      /\ pc'[c] \in {"truncated", "written"}
      /\ \A d \in Calls \ {c} : pc'[d] = pc[d]
      /\ key \in [Calls -> Keys] /\ cached \in [Keys -> Sessions] /\ c \in Calls
  <2>1. pc[c] \in {"writing", "truncated"} /\ op[c] \in {"append", "persist"}
    BY DEF AppendEntry, Truncate, Rewrite, StoreInv, SerialInv, Roles
  <2>2. UNCHANGED <<cached, index, loaded, op, key, sid, view, owed>>
    BY DEF AppendEntry, Truncate, Rewrite, memory
  <2>3. pc' = [pc EXCEPT ![c] = "truncated"] \/ pc' = [pc EXCEPT ![c] = "written"]
    BY DEF AppendEntry, Truncate, Rewrite, Goto
  <2> QED
    BY <1>0, <2>1, <2>2, <2>3
<1>2. loaded /\ Writing(c) /\ \A d \in Calls \ {c} : pc[d] # "truncated"
  BY <1>1, Alone
<1>3. \A d \in Calls \ {c} : ~Writing(d)'
  BY <1>1, StillAlone
<1>4. Progress(c) /\ id = cached[k] /\ id # NoId /\ (Rewrite(c) => Exists(id))
  BY <1>1, <1>2 DEF KeepInv, Progress, AtHome, Rewrite
<1> HIDE DEF id
<1>5. archived' = archived
  BY <1>4 DEF AppendEntry, Truncate, Rewrite, id
<1>6. /\ DOMAIN file' = DOMAIN file \cup {id}
      /\ \A i \in DOMAIN file : i # id => file'[i] = file[i]
  BY <1>4 DEF AppendEntry, Truncate, Rewrite, Write, id
<1>7. ASSUME AppendEntry(c) \/ Rewrite(c)
      PROVE  /\ Progress(c)'
             /\ \A e \in owed : e \notin archived /\ key[e] = k => e \in file'[id].has
  <2>1. /\ pc'[c] = "written" /\ c \in file'[id].has
        /\ \A e \in owed : e \notin archived /\ key[e] = k => e \in file'[id].has
    <3>1. CASE AppendEntry(c)
      <4>1. pc'[c] = "written" /\ \A d \in Calls : pc[d] # "truncated"
        BY <1>2, <3>1 DEF AppendEntry, Goto, StoreInv, SessionInv, TypeOK
      <4>2. c \in file'[id].has /\ (Exists(id) => file[id].has \subseteq file'[id].has)
        <5>1. CASE Exists(id)
          BY <3>1, <5>1 DEF AppendEntry, Write, id
        <5>2. CASE ~Exists(id)
          BY <3>1, <5>2 DEF AppendEntry, Write, id
        <5> QED
          BY <5>1, <5>2
      <4>3. ASSUME NEW e \in owed, e \notin archived, key[e] = k PROVE Exists(id) /\ e \in file[id].has
        BY <1>2, <1>4, <4>1, <4>3, Home
      <4> QED
        BY <4>1, <4>2, <4>3
    <3>2. CASE Rewrite(c)
      <4>1. pc'[c] = "written" /\ pc[c] = "truncated" /\ op[c] = "persist"
        BY <3>2 DEF Rewrite, Goto, StoreInv, SessionInv, TypeOK, SerialInv, Roles
      <4>2. file'[id].has = view[c].has \cup {c}
        BY <1>4, <3>2 DEF Rewrite, Write, id
      <4>3. \A e \in owed : e \notin archived /\ key[e] = k => e \in view[c].has
        BY <1>4, <4>1 DEF Progress, Remembers
      <4> QED
        BY <4>1, <4>2, <4>3
    <3> QED
      BY <1>7, <3>1, <3>2
  <2>2. Progress(c)'
    BY <1>1, <1>4, <1>6, <2>1 DEF Progress, AtHome, Stored, Remembers, Exists, id
  <2> QED
    BY <2>1, <2>2
<1>8. ASSUME Truncate(c)
      PROVE  Progress(c)' /\ pc'[c] = "truncated"
  <2>1. /\ pc'[c] = "truncated" /\ pc[c] = "writing" /\ op[c] = "persist"
    BY <1>8 DEF Truncate, Goto, StoreInv, SessionInv, TypeOK
  <2>2. Progress(c)'
    BY <1>1, <1>4, <1>5, <1>6, <2>1 DEF Progress, AtHome, Stored, Remembers, Exists, id
  <2> QED
    BY <2>1, <2>2
<1>9. ASSUME NEW e \in owed', e \notin archived' PROVE Kept(e)'
  <2>1. /\ e \in owed /\ e \notin archived /\ key[e] \in Keys /\ Kept(e) /\ index # None
        /\ cached[key[e]] = index[key[e]] /\ Exists(index[key[e]])
    BY <1>1, <1>2, <1>5, <1>9 DEF KeepInv, Kept, StoreInv, SessionInv, TypeOK
  <2>2. CASE key[e] = k
    BY <1>1, <1>4, <1>5, <1>6, <1>7, <1>8, <2>1, <2>2 DEF Kept, Exists, id
  <2>3. CASE key[e] # k
    <3>1. index[key[e]] # id
      BY <1>1, <1>4, <2>1, <2>3 DEF Distinct, KeepInv
    <3>2. e \in file[index[key[e]]].has
      BY <1>2, <2>1, <3>1 DEF Kept, id
    <3> QED
      BY <1>1, <1>6, <2>1, <3>1, <3>2 DEF Kept, Exists
  <2> QED
    BY <2>2, <2>3
<1>10. Progress(c)'
  BY <1>7, <1>8
<1>11. NoId \notin DOMAIN file' /\ Distinct(cached') /\ (index' # None => Distinct(index'))
  BY <1>1, <1>4, <1>6 DEF KeepInv, Distinct
<1> QED
  BY <1>3, <1>9, <1>10, <1>11 DEF KeepInv

\* A crash keeps KeepInv, unless it tears a rewrite.
LEMMA CrashKeepsAll ==
  ASSUME StoreInv, KeepInv, ~TornRewrite, Crash
  PROVE  KeepInv'
<1>1. /\ UNCHANGED <<index, file, archived, owed, key>> /\ ~loaded' /\ cached' = NoSessions
      /\ \A c \in Calls : pc'[c] \in {"idle", "done", "dead"} /\ pc[c] # "truncated"
  BY DEF Crash, disk, Busy
<1>2. \A c \in Calls : ~Writing(c)'
  BY <1>1 DEF Writing, Busy
<1>3. ASSUME NEW e \in owed', e \notin archived' PROVE Kept(e)'
  BY <1>1, <1>3 DEF KeepInv, Kept, Exists
<1>4. NoId \notin DOMAIN file' /\ Distinct(cached') /\ (index' # None => Distinct(index'))
  BY <1>1 DEF KeepInv, Distinct, NoSessions
<1> QED
  BY <1>2, <1>3, <1>4 DEF KeepInv

\* While one call writes at a time, with any number of readers among them, an
\* entry the manager has answered is in the transcript of its key's session or
\* in the archive until it is deleted: through runs that write the transcript
\* again from what they loaded before they answered, through resets, the reset
\* policy, the transcript cache and any number of crashes, except one that finds
\* a transcript truncated.
THEOREM AnswersAreKept ==
  ASSUME Overlap # "all", ~TornRewrite PROVE Spec => []AnsweredKept
<1>1. Init => KeepInv
  BY DEF Init, KeepInv, Distinct, NoSessions, Writing, Busy
<1>2. StoreInv /\ KeepInv /\ [Next]_vars => KeepInv'
  <2>1. ASSUME StoreInv, KeepInv, UNCHANGED vars PROVE KeepInv'
    BY <2>1 DEF vars, memory, disk, callVars, counters, KeepInv, Distinct, Kept, Progress,
       AtHome, Stored, Remembers, Writing, Busy, Exists
  <2> QED
    BY <2>1, StartKeepsAll, LoadKeepsAll, ReadKeepsAll, LockedKeepsAll, SavedKeepsAll,
       WriteKeepsAll, CrashKeepsAll DEF Next, Step
<1>3. StoreInv /\ KeepInv => AnsweredKept
  <2> SUFFICES ASSUME StoreInv, KeepInv, NEW e \in owed, e \notin archived
               PROVE  /\ Exists(Current(key[e]))
                      /\ \/ e \in file[Current(key[e])].has
                         \/ \E c \in Calls : pc[c] = "truncated" /\ sid[c] = Current(key[e])
    BY DEF AnsweredKept
  <2>1. Kept(e) /\ Current(key[e]) = index[key[e]]
    BY DEF KeepInv, Kept, Current
  <2> QED
    BY <2>1 DEF Kept
<1>4. Spec => []StoreInv
  BY Serial, CacheInvHolds, PTL DEF StoreInv
<1> QED
  BY <1>1, <1>2, <1>3, <1>4, PTL DEF Spec
================================================================================
