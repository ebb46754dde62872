------------------------- MODULE StateBuilderProofs -------------------------
(***************************************************************************)
(* Type correctness of StateBuilder, that the store loses no span          *)
(* unnoticed, and that it is the projection of the timeline as long as     *)
(* nothing overlaps or fails, for any number of users, rebuilds, spans and *)
(* failures.                                                               *)
(***************************************************************************)
EXTENDS StateBuilder, SequenceTheorems, NaturalsInduction, WellFoundedInduction, TLAPS

Stores ==
  [profile : [Users -> 0..Len(timeline)], signed : SUBSET DOMAIN timeline,
   list : [Users -> Seq(DOMAIN timeline)]]
JobRecords ==
  [span : DOMAIN timeline, by : Rebuilds \cup {Own}, trigger : 0..Attempts,
   at : {"attempt", "set", "append"}, tries : 0..(Attempts - 1)]
RebuildRecords ==
  [at : {"idle", "skipped", "flush", "query", "replay", "completed"},
   affair : {"none", "started", "failed", "completed"}, tries : 0..(Attempts - 1),
   requested : 0..Len(timeline), next : 1..(Len(timeline) + 1), upto : 0..Len(timeline)]

(* Only a span with a case and a user gets to the store, and only a        *)
(* contract to the list of its user.                                       *)
JobsApply ==
  \A j \in jobs :
    /\ j.at \in {"set", "append"} =>
         timeline[j.span].user \in Users /\ timeline[j.span].type # "other"
    /\ j.at = "append" => timeline[j.span].type = "contract.signed"

(* A rebuild that has not taken the history up starts from its first span. *)
FromTheStart ==
  \A b \in Rebuilds : rebuild[b].at \in {"idle", "flush", "query"} => rebuild[b].next = 1

TypeInv == TypeOK /\ JobsApply /\ FromTheStart

LEMMA TypeParts == TypeOK <=>
  /\ timeline \in Seq(Spans)
  /\ jobs \subseteq JobRecords /\ store \in Stores
  /\ rebuild \in [Rebuilds -> RebuildRecords]
  /\ faults \in 0..MaxFaults /\ missing \subseteq DOMAIN timeline
  /\ overtaken \subseteq DOMAIN timeline /\ calm \in BOOLEAN
BY DEF TypeOK, JobRecords, Stores, RebuildRecords

LEMMA Timeline ==
  ASSUME TypeOK
  PROVE  Len(timeline) \in Nat /\ DOMAIN timeline = 1..Len(timeline)
BY LenProperties DEF TypeOK

LEMMA EmptyStoreType ==
  ASSUME TypeOK
  PROVE  EmptyStore \in Stores
<1>1. 0 \in 0..Len(timeline)
  BY Timeline
<1>2. <<>> \in Seq(DOMAIN timeline)
  BY EmptySeq
<1> QED  BY <1>1, <1>2 DEF EmptyStore, Stores

(* The two ways a span is written.                                         *)
LEMMA WriteType ==
  ASSUME TypeOK, NEW i \in DOMAIN timeline, timeline[i].user \in Users
  PROVE  /\ SetKey(store, i) \in Stores
         /\ ListAppend(store, i) \in Stores
<1>1. store \in Stores /\ i \in 0..Len(timeline)
  BY TypeParts, Timeline
<1>2. store.list[timeline[i].user] \in Seq(DOMAIN timeline)
  BY <1>1 DEF Stores
<1>3. Append(store.list[timeline[i].user], i) \in Seq(DOMAIN timeline)
  BY <1>2
<1>4. [store.profile EXCEPT ![timeline[i].user] = i] \in [Users -> 0..Len(timeline)]
  BY <1>1 DEF Stores
<1>5. [store.list EXCEPT ![timeline[i].user] = Append(store.list[timeline[i].user], i)]
        \in [Users -> Seq(DOMAIN timeline)]
  BY <1>1, <1>3 DEF Stores
<1>6. SetKey(store, i) \in Stores
  BY <1>1, <1>4 DEF SetKey, Stores
<1>7. ListAppend(store, i) \in Stores
  BY <1>1, <1>5 DEF ListAppend, Stores
<1> QED  BY <1>6, <1>7

LEMMA JobTypes ==
  ASSUME TypeOK, NEW j \in jobs
  PROVE  /\ j \in JobRecords /\ j.span \in DOMAIN timeline
         /\ \A at \in {"attempt", "set", "append"} : [j EXCEPT !.at = at] \in JobRecords
         /\ j.tries + 1 < Attempts => [j EXCEPT !.at = "set", !.tries = @ + 1] \in JobRecords
<1>1. j \in JobRecords
  BY TypeParts
<1>2. j.tries \in 0..(Attempts - 1) /\ j.span \in DOMAIN timeline
  BY <1>1 DEF JobRecords
<1>3. j.tries + 1 < Attempts => j.tries + 1 \in 0..(Attempts - 1)
  BY <1>2 DEF Attempts
<1>4. j.tries + 1 < Attempts => [j EXCEPT !.at = "set", !.tries = @ + 1] \in JobRecords
  BY <1>1, <1>3 DEF JobRecords
<1> QED  BY <1>1, <1>2, <1>4 DEF JobRecords

(***************************************************************************)
(* Types.                                                                  *)
(***************************************************************************)
LEMMA InitType ==
  ASSUME Init
  PROVE  TypeInv
<1>1. timeline \in Seq(Spans) /\ Len(timeline) = 0
  BY EmptySeq DEF Init
<1>2. store \in Stores
  <2>1. <<>> \in Seq(DOMAIN timeline) /\ 0 \in 0..Len(timeline)
    BY <1>1, EmptySeq
  <2> QED  BY <2>1 DEF Init, EmptyStore, Stores
<1>3. rebuild \in [Rebuilds -> RebuildRecords]
  <2> DEFINE r == [at |-> "idle", affair |-> "none", tries |-> 0,
                   requested |-> 0, next |-> 1, upto |-> 0]
  <2>1. r \in RebuildRecords
    BY <1>1 DEF RebuildRecords, Attempts
  <2> QED  BY <2>1 DEF Init
<1>4. TypeOK
  BY <1>1, <1>2, <1>3, TypeParts, StateBuilderAssumption DEF Init
<1> QED  BY <1>4 DEF Init, TypeInv, JobsApply, FromTheStart

LEMMA ArriveType ==
  ASSUME TypeInv, NEW s \in Spans, Arrive(s)
  PROVE  TypeInv'
<1> DEFINE n == Len(timeline)
<1>t. TypeOK /\ n \in Nat /\ DOMAIN timeline = 1..n /\ timeline \in Seq(Spans)
  BY Timeline DEF TypeInv, TypeOK
<1>1. timeline' = Append(timeline, s) /\ UNCHANGED <<store, rebuild, faults, missing, overtaken>>
  BY DEF Arrive
<1>2. /\ timeline' \in Seq(Spans) /\ Len(timeline') = n + 1 /\ DOMAIN timeline' = 1..(n + 1)
      /\ \A i \in 1..n : timeline'[i] = timeline[i]
  BY <1>1, <1>t
<1>3. DOMAIN timeline \subseteq DOMAIN timeline' /\ 0..n \subseteq 0..(n + 1)
  BY <1>t, <1>2
<1>4. store' \in Stores'
  <2>1. store \in Stores
    BY <1>t, TypeParts
  <2>2. ASSUME NEW l \in Seq(DOMAIN timeline) PROVE l \in Seq(DOMAIN timeline')
    <3>1. Len(l) \in Nat /\ l \in [1..Len(l) -> DOMAIN timeline]
      BY LenProperties
    <3>2. l \in [1..Len(l) -> DOMAIN timeline']
      BY <1>3, <3>1
    <3> QED  BY <3>1, <3>2
  <2>3. /\ store.profile \in [Users -> 0..(n + 1)]
        /\ store.signed \subseteq DOMAIN timeline'
    BY <1>3, <2>1 DEF Stores
  <2>4. store.list \in [Users -> Seq(DOMAIN timeline')]
    BY <2>1, <2>2 DEF Stores
  <2> QED  BY <1>1, <1>2, <2>1, <2>3, <2>4 DEF Stores
<1>5. jobs' \subseteq JobRecords'
  <2>1. jobs' = jobs \cup {Job(n + 1, Own, 0)}
    BY <1>2 DEF Arrive
  <2>2. Job(n + 1, Own, 0) \in JobRecords'
    BY <1>t, <1>2 DEF Job, JobRecords, Attempts
  <2>3. \A j \in jobs : j \in JobRecords'
    <3>1. \A j \in jobs : j \in JobRecords
      BY <1>t, TypeParts
    <3> QED  BY <1>3, <3>1 DEF JobRecords
  <2> QED  BY <2>1, <2>2, <2>3
<1>6. rebuild' \in [Rebuilds -> RebuildRecords']
  <2>1. RebuildRecords \subseteq RebuildRecords'
    <3>1. 1..(n + 1) \subseteq 1..((n + 1) + 1)
      BY <1>t
    <3> QED  BY <1>2, <1>3, <3>1 DEF RebuildRecords
  <2>2. rebuild \in [Rebuilds -> RebuildRecords]
    BY <1>t, TypeParts
  <2> QED  BY <1>1, <2>1, <2>2
<1>7. TypeOK'
  <2>1. /\ faults' \in 0..MaxFaults /\ missing' \subseteq DOMAIN timeline'
        /\ overtaken' \subseteq DOMAIN timeline'
    BY <1>1, <1>3, <1>t DEF TypeOK
  <2>2. calm' \in BOOLEAN
    BY Zenon DEF Arrive
  <2> QED  BY <1>2, <1>4, <1>5, <1>6, <2>1, <2>2 DEF TypeOK, Stores, JobRecords, RebuildRecords
<1>8. JobsApply'
  <2>1. \A j \in jobs : j.span \in 1..n
    BY <1>t, JobTypes
  <2>2. \A j \in jobs' : j \in jobs \/ j.at = "attempt"
    BY DEF Arrive, Job
  <2> QED  BY <1>2, <2>1, <2>2 DEF TypeInv, JobsApply
<1>9. FromTheStart'
  BY <1>1 DEF TypeInv, FromTheStart
<1> QED  BY <1>7, <1>8, <1>9 DEF TypeInv

(* Every other step leaves the timeline as it is.                          *)
Allowed(j) ==
  /\ j.at \in {"set", "append"} =>
       timeline[j.span].user \in Users /\ timeline[j.span].type # "other"
  /\ j.at = "append" => timeline[j.span].type = "contract.signed"

LEMMA StepType ==
  ASSUME TypeInv, UNCHANGED timeline,
         jobs' \subseteq JobRecords, \A j \in jobs' : j \in jobs \/ Allowed(j),
         store' \in Stores,
         rebuild' \in [Rebuilds -> RebuildRecords],
         \A b \in Rebuilds : rebuild'[b].at \in {"idle", "flush", "query"} => rebuild'[b].next = 1,
         faults' \in 0..MaxFaults, missing' \subseteq DOMAIN timeline,
         overtaken' \subseteq DOMAIN timeline, calm' \in BOOLEAN
  PROVE  TypeInv'
<1>1. TypeOK'
  BY DEF TypeInv, TypeOK, Stores, JobRecords, RebuildRecords
<1>2. JobsApply'
  BY DEF TypeInv, JobsApply, Allowed
<1>3. FromTheStart'
  BY DEF FromTheStart
<1> QED  BY <1>1, <1>2, <1>3 DEF TypeInv

LEMMA Held ==
  ASSUME TypeInv
  PROVE  /\ timeline \in Seq(Spans) /\ jobs \subseteq JobRecords /\ store \in Stores
         /\ rebuild \in [Rebuilds -> RebuildRecords]
         /\ faults \in 0..MaxFaults /\ missing \subseteq DOMAIN timeline
         /\ overtaken \subseteq DOMAIN timeline /\ calm \in BOOLEAN
         /\ \A b \in Rebuilds : rebuild[b].at \in {"idle", "flush", "query"} => rebuild[b].next = 1
         /\ \A j \in jobs : Allowed(j)
         /\ TypeOK
BY TypeParts DEF TypeInv, FromTheStart, JobsApply, Allowed

LEMMA FaultType ==
  ASSUME TypeInv, Fault
  PROVE  faults' \in 0..MaxFaults /\ calm' \in BOOLEAN
<1>1. faults \in 0..MaxFaults /\ MaxFaults \in Nat
  BY Held, StateBuilderAssumption
<1>2. faults' \in 0..MaxFaults
  BY <1>1 DEF Fault
<1>3. calm' \in BOOLEAN
  BY Zenon DEF Fault
<1> QED  BY <1>2, <1>3

LEMMA WritesType ==
  ASSUME TypeInv, NEW j \in jobs, j.at \in {"set", "append"}, Writes(j)
  PROVE  store' \in Stores /\ overtaken' \subseteq DOMAIN timeline
<1>1. j.span \in DOMAIN timeline /\ timeline[j.span].user \in Users
  BY Held, JobTypes DEF Allowed
<1>2. Overtaken(j.span) \subseteq DOMAIN timeline
  BY DEF Overtaken, Profiles
<1>3. store' \in Stores
  BY <1>1, Held, WriteType DEF Writes
<1> QED  BY <1>2, <1>3, Held DEF Writes

(* The rule.                                                               *)
LEMMA RuleType ==
  ASSUME TypeInv, NEW j \in jobs, Rule(j)
  PROVE  TypeInv'
<1>j. /\ j \in JobRecords /\ j.span \in DOMAIN timeline /\ Allowed(j)
      /\ \A at \in {"attempt", "set", "append"} : [j EXCEPT !.at = at] \in JobRecords
      /\ j.tries + 1 < Attempts => [j EXCEPT !.at = "set", !.tries = @ + 1] \in JobRecords
  BY Held, JobTypes
<1>1. CASE Attempt(j)
  <2>1. jobs' \subseteq jobs \cup {[j EXCEPT !.at = "set"]}
    BY <1>1 DEF Attempt, Goes, Ends
  <2>2. ASSUME jobs' # jobs \ {j} PROVE Allowed([j EXCEPT !.at = "set"])
    <3>1. timeline[j.span].user # NoUser /\ timeline[j.span].type # "other"
      BY <1>1, <2>2 DEF Attempt, Ends
    <3>2. timeline[j.span] \in Spans
      BY <1>j, Held
    <3> QED  BY <1>j, <3>1, <3>2 DEF Allowed, Spans, JobRecords
  <2>3. \A k \in jobs' : k \in jobs \/ Allowed(k)
    BY <2>1, <2>2
  <2>4. jobs' \subseteq JobRecords
    BY <1>j, <2>1, Held
  <2>5. UNCHANGED <<timeline, store, rebuild, faults, missing, overtaken, calm>>
    BY <1>1 DEF Attempt
  <2> QED  BY <2>3, <2>4, <2>5, Held, StepType
<1>2. CASE Set(j)
  <2>1. jobs' \subseteq jobs \cup {[j EXCEPT !.at = "append"]}
    BY <1>2 DEF Set, Goes, Ends
  <2>2. ASSUME jobs' # jobs \ {j} PROVE Allowed([j EXCEPT !.at = "append"])
    <3>1. timeline[j.span].type = "contract.signed" /\ j.at = "set"
      BY <1>2, <2>2 DEF Set, Ends
    <3> QED  BY <1>j, <3>1 DEF Allowed, JobRecords
  <2>3. (\A k \in jobs' : k \in jobs \/ Allowed(k)) /\ jobs' \subseteq JobRecords
    BY <1>j, <2>1, <2>2, Held
  <2>4. store' \in Stores /\ overtaken' \subseteq DOMAIN timeline
    BY <1>2, WritesType DEF Set
  <2>5. UNCHANGED <<timeline, rebuild, faults, missing, calm>>
    BY <1>2 DEF Set
  <2> QED  BY <2>3, <2>4, <2>5, Held, StepType
<1>3. CASE ListAppends(j)
  <2>1. store' \in Stores /\ overtaken' \subseteq DOMAIN timeline
    BY <1>3, WritesType DEF ListAppends
  <2>2. jobs' \subseteq jobs /\ UNCHANGED <<timeline, rebuild, faults, missing, calm>>
    BY <1>3 DEF ListAppends, Ends
  <2>3. jobs' \subseteq JobRecords /\ \A k \in jobs' : k \in jobs \/ Allowed(k)
    BY <2>2, Held
  <2> QED  BY <2>1, <2>2, <2>3, Held, StepType
<1>4. CASE Fails(j)
  <2>1. store' \in Stores /\ overtaken' \subseteq DOMAIN timeline
    <3>1. CASE Writes(j)
      BY <1>4, <3>1, WritesType DEF Fails
    <3>2. CASE UNCHANGED <<store, overtaken>>
      BY <3>2, Held
    <3> QED  BY <1>4, <3>1, <3>2 DEF Fails
  <2>2. UNCHANGED <<timeline, rebuild>> /\ j.at \in {"set", "append"} /\ Fault
    BY <1>4 DEF Fails
  <2>3. (\A k \in jobs' : k \in jobs \/ Allowed(k)) /\ jobs' \subseteq JobRecords
    <3>1. CASE j.tries + 1 < Attempts
      <4>1. Allowed([j EXCEPT !.at = "set", !.tries = @ + 1])
        BY <1>j, <2>2 DEF Allowed, JobRecords
      <4>2. jobs' = (jobs \ {j}) \cup {[j EXCEPT !.at = "set", !.tries = @ + 1]}
        BY <1>4, <3>1 DEF Fails
      <4> QED  BY <1>j, <3>1, <4>1, <4>2, Held
    <3>2. CASE ~(j.tries + 1 < Attempts)
      <4>1. jobs' \subseteq jobs
        BY <1>4, <3>2 DEF Fails, Ends
      <4> QED  BY <4>1, Held
    <3> QED  BY <3>1, <3>2
  <2>4. missing' \subseteq DOMAIN timeline
    BY <1>4, <1>j, Held DEF Fails
  <2> QED  BY <2>1, <2>2, <2>3, <2>4, Held, FaultType, StepType
<1> QED  BY <1>1, <1>2, <1>3, <1>4 DEF Rule

(* The rebuild.                                                            *)
LEMMA RebuildType ==
  ASSUME TypeInv, NEW b \in Rebuilds, RebuildFull(b)
  PROVE  TypeInv'
<1> DEFINE r == rebuild[b]
           n == Len(timeline)
<1>r. /\ r \in RebuildRecords /\ n \in Nat /\ DOMAIN timeline = 1..n
      /\ r.next \in 1..(n + 1) /\ r.upto \in 0..n /\ r.tries \in 0..(Attempts - 1)
  BY Held, Timeline DEF RebuildRecords
<1>z. 0 \in 0..(Attempts - 1)
  BY DEF Attempts
<1>q. jobs \subseteq JobRecords /\ \A k \in jobs : k \in jobs \/ Allowed(k)
  BY Held
<1>s. ASSUME NEW v \in RebuildRecords, v.at \in {"idle", "flush", "query"} => v.next = 1,
             rebuild' = [rebuild EXCEPT ![b] = v]
      PROVE  /\ rebuild' \in [Rebuilds -> RebuildRecords]
             /\ \A d \in Rebuilds :
                  rebuild'[d].at \in {"idle", "flush", "query"} => rebuild'[d].next = 1
  BY <1>s, Held
<1>1. CASE Request(b)
  <2>1. CASE rebuild' = [rebuild EXCEPT ![b].at = "skipped"] /\ UNCHANGED calm
    <3> DEFINE v == [r EXCEPT !.at = "skipped"]
    <3>1. v \in RebuildRecords /\ v.at = "skipped" /\ rebuild' = [rebuild EXCEPT ![b] = v]
      BY <1>r, <2>1, Held DEF RebuildRecords
    <3> HIDE DEF v
    <3>2. UNCHANGED <<timeline, jobs, store, faults, missing, overtaken, calm>>
      BY <1>1, <2>1 DEF Request
    <3> QED  BY <1>q, <1>s, <3>1, <3>2, Held, StepType
  <2>2. CASE rebuild' = [rebuild EXCEPT ![b].at = "flush", ![b].affair = "started",
                                        ![b].requested = n]
    <3> DEFINE v == [r EXCEPT !.at = "flush", !.affair = "started", !.requested = n]
    <3>0. n \in 0..n /\ r.at = "idle" /\ r.next = 1
      BY <1>1, <1>r, Held DEF Request
    <3>1. v \in RebuildRecords /\ v.next = 1 /\ rebuild' = [rebuild EXCEPT ![b] = v]
      BY <1>r, <2>2, <3>0, Held DEF RebuildRecords
    <3> HIDE DEF v
    <3>2. UNCHANGED <<timeline, jobs, store, faults, missing, overtaken>>
      BY <1>1 DEF Request
    <3>3. calm' \in BOOLEAN
      <4>1. CASE calm' = calm
        BY <4>1, Held
      <4>2. CASE calm' = Quiet
        BY <4>2, Zenon DEF Quiet
      <4> QED  BY <1>1, <4>1, <4>2 DEF Request
    <3> QED  BY <1>q, <1>s, <3>1, <3>2, <3>3, Held, StepType
  <2> QED  BY <1>1, <2>1, <2>2 DEF Request
<1>2. CASE Flush(b)
  <2> DEFINE v == [r EXCEPT !.at = "query", !.tries = 0]
  <2>0. r.at = "flush" /\ r.next = 1
    BY <1>2, Held DEF Flush
  <2>1. v \in RebuildRecords /\ v.next = 1
    BY <1>r, <1>z, <2>0 DEF RebuildRecords
  <2>3. rebuild' = [rebuild EXCEPT ![b] = v]
    BY <1>2, <1>r, Held DEF Flush
  <2> HIDE DEF v
  <2>2. /\ UNCHANGED <<timeline, jobs, faults, calm>>
        /\ store' \in Stores /\ missing' \subseteq DOMAIN timeline
        /\ overtaken' \subseteq DOMAIN timeline
    BY <1>2, Held, EmptyStoreType DEF Flush
  <2> QED  BY <1>q, <1>s, <2>1, <2>2, <2>3, Held, StepType
<1>3. CASE FlushFails(b)
  <2>0. /\ UNCHANGED <<timeline, jobs, missing, overtaken>> /\ store' \in Stores
        /\ Fault /\ r.at = "flush" /\ r.next = 1
    BY <1>3, Held, EmptyStoreType DEF FlushFails
  <2>1. CASE rebuild' = [rebuild EXCEPT ![b].at = "query", ![b].tries = 0]
    <3> DEFINE v == [r EXCEPT !.at = "query", !.tries = 0]
    <3>1. v \in RebuildRecords /\ v.next = 1
      BY <1>r, <1>z, <2>0 DEF RebuildRecords
    <3>2. rebuild' = [rebuild EXCEPT ![b] = v]
      BY <1>r, <2>1, Held
    <3> HIDE DEF v
    <3> QED  BY <1>q, <1>s, <2>0, <3>1, <3>2, Held, FaultType, StepType
  <2>2. CASE rebuild' = [rebuild EXCEPT ![b].affair = "failed",
               ![b].at = IF rebuild[b].tries + 1 < Attempts THEN "flush" ELSE "query",
               ![b].tries = IF rebuild[b].tries + 1 < Attempts THEN @ + 1 ELSE 0]
    <3> DEFINE at == IF r.tries + 1 < Attempts THEN "flush" ELSE "query"
               tries == IF r.tries + 1 < Attempts THEN r.tries + 1 ELSE 0
               v == [r EXCEPT !.affair = "failed", !.at = at, !.tries = tries]
    <3>1. at \in {"flush", "query"} /\ tries \in 0..(Attempts - 1)
      BY <1>r DEF Attempts
    <3>2. rebuild' = [rebuild EXCEPT ![b] = v]
      BY <1>r, <2>2, Held
    <3>3. v \in RebuildRecords /\ v.next = 1
      <4> HIDE DEF at, tries
      <4> QED  BY <1>r, <2>0, <3>1 DEF RebuildRecords
    <3> HIDE DEF v
    <3> QED  BY <1>q, <1>s, <2>0, <3>2, <3>3, Held, FaultType, StepType
  <2> QED  BY <1>3, <2>1, <2>2 DEF FlushFails
<1>4. CASE Query(b)
  <2> DEFINE v == [r EXCEPT !.at = "replay", !.upto = n]
  <2>0. n \in 0..n
    BY <1>r
  <2>1. v \in RebuildRecords /\ v.at = "replay" /\ rebuild' = [rebuild EXCEPT ![b] = v]
    BY <1>4, <1>r, <2>0, Held DEF Query, RebuildRecords
  <2> HIDE DEF v
  <2>2. UNCHANGED <<timeline, jobs, store, faults, missing, overtaken, calm>>
    BY <1>4 DEF Query
  <2> QED  BY <1>q, <1>s, <2>1, <2>2, Held, StepType
<1>5. CASE Trigger(b)
  <2> DEFINE v == [r EXCEPT !.next = r.next + 1, !.tries = 0]
  <2>0. r.at = "replay" /\ r.next \in 1..n /\ r.next + 1 \in 1..(n + 1)
    BY <1>5, <1>r DEF Trigger
  <2>1. v \in RebuildRecords /\ v.at = "replay"
    BY <1>r, <1>z, <2>0 DEF RebuildRecords
  <2>5. rebuild' = [rebuild EXCEPT ![b] = v]
    BY <1>5, <1>r, Held DEF Trigger
  <2> HIDE DEF v
  <2>2. /\ jobs' = jobs \cup {Job(r.next, b, 0)}
        /\ UNCHANGED <<timeline, store, faults, missing, overtaken, calm>>
    BY <1>5 DEF Trigger
  <2>3. Job(r.next, b, 0) \in JobRecords /\ Allowed(Job(r.next, b, 0))
    BY <1>r, <2>0 DEF Job, JobRecords, Allowed, Attempts
  <2>4. jobs' \subseteq JobRecords /\ \A k \in jobs' : k \in jobs \/ Allowed(k)
    BY <1>q, <2>2, <2>3
  <2> QED  BY <1>s, <2>1, <2>2, <2>4, <2>5, Held, StepType
<1>6. CASE TriggerFails(b)
  <2>0. /\ r.at = "replay" /\ r.next \in 1..n /\ r.next + 1 \in 1..(n + 1) /\ Fault
        /\ UNCHANGED <<timeline, store, overtaken>>
    BY <1>6, <1>r DEF TriggerFails
  <2>3. jobs' \subseteq JobRecords /\ \A k \in jobs' : k \in jobs \/ Allowed(k)
    <3> DEFINE j == Job(r.next, b, r.tries + 1)
    <3>1. r.tries + 1 \in 0..Attempts
      BY <1>r DEF Attempts
    <3>2. j \in JobRecords /\ Allowed(j)
      BY <1>r, <2>0, <3>1 DEF Job, JobRecords, Allowed, Attempts
    <3>3. jobs' \subseteq jobs \cup {j}
      BY <1>6 DEF TriggerFails
    <3> HIDE DEF j
    <3> QED  BY <1>q, <3>2, <3>3
  <2>1. CASE r.tries + 1 < Attempts
    <3> DEFINE v == [r EXCEPT !.tries = r.tries + 1]
    <3>0. r.tries + 1 \in 0..(Attempts - 1)
      BY <1>r, <2>1 DEF Attempts
    <3>1. v \in RebuildRecords /\ v.at = "replay"
      BY <1>r, <2>0, <3>0 DEF RebuildRecords
    <3>2. rebuild' = [rebuild EXCEPT ![b] = v] /\ UNCHANGED missing
      BY <1>6, <2>1, Held DEF TriggerFails
    <3> HIDE DEF v
    <3> QED  BY <1>s, <2>0, <2>3, <3>1, <3>2, Held, FaultType, StepType
  <2>2. CASE ~(r.tries + 1 < Attempts)
    <3> DEFINE v == [r EXCEPT !.next = r.next + 1, !.tries = 0]
    <3>1. v \in RebuildRecords /\ v.at = "replay"
      BY <1>r, <1>z, <2>0 DEF RebuildRecords
    <3>2. rebuild' = [rebuild EXCEPT ![b] = v] /\ missing' \subseteq DOMAIN timeline
      BY <1>6, <1>r, <2>0, <2>2, Held DEF TriggerFails
    <3> HIDE DEF v
    <3> QED  BY <1>s, <2>0, <2>3, <3>1, <3>2, Held, FaultType, StepType
  <2> QED  BY <2>1, <2>2
<1>7. CASE Complete(b)
  <2> DEFINE v == [r EXCEPT !.at = "completed", !.affair = "completed"]
  <2>1. v \in RebuildRecords /\ v.at = "completed" /\ rebuild' = [rebuild EXCEPT ![b] = v]
    BY <1>7, <1>r, Held DEF Complete, RebuildRecords
  <2> HIDE DEF v
  <2>2. UNCHANGED <<timeline, jobs, store, faults, missing, overtaken, calm>>
    BY <1>7 DEF Complete
  <2> QED  BY <1>q, <1>s, <2>1, <2>2, Held, StepType
<1> QED  BY <1>1, <1>2, <1>3, <1>4, <1>5, <1>6, <1>7 DEF RebuildFull

LEMMA NextType ==
  ASSUME TypeInv, [Next]_vars
  PROVE  TypeInv'
<1>1. CASE UNCHANGED vars
  BY <1>1 DEF vars, TypeInv, TypeOK, JobsApply, FromTheStart
<1> QED  BY <1>1, ArriveType, RuleType, RebuildType DEF Next

(***************************************************************************)
(* Every variable of the state builder keeps its type: no rule and no      *)
(* rebuild tries anything a fourth time.                                   *)
(***************************************************************************)
THEOREM TypeCorrect == Spec => []TypeOK
<1>1. Init => TypeInv
  BY InitType
<1>2. TypeInv /\ [Next]_vars => TypeInv'
  BY NextType
<1>3. TypeInv => TypeOK
  BY DEF TypeInv
<1> QED  BY <1>1, <1>2, <1>3, PTL DEF Spec

(***************************************************************************)
(* Nothing is lost: a span that is not in the store was given up, or       *)
(* overtaken, or is ahead of a rebuild, or of a run of the rule that has   *)
(* written all that goes before.                                           *)
(***************************************************************************)
Ahead(b, i) ==
  \/ rebuild[b].at \in {"flush", "query"}
  \/ rebuild[b].at = "replay" /\ rebuild[b].next =< i /\ i =< rebuild[b].upto

Under(j, i) == j.span = i /\ (j.at = "append" => i \in store.signed)

Covered(i) ==
  \/ Reflected(i) \/ i \in missing \cup overtaken
  \/ \E b \in Rebuilds : Ahead(b, i)
  \/ \E j \in jobs : Under(j, i)

Inv == \A i \in DOMAIN timeline : Covered(i)

(* A write takes no span out of the store but the profiles it overtakes.   *)
Kept ==
  /\ store.signed \subseteq store'.signed /\ overtaken \subseteq overtaken'
  /\ \A i \in DOMAIN timeline : Reflected(i) => Reflected(i)' \/ i \in overtaken'

LEMMA WritesKeep ==
  ASSUME TypeInv, UNCHANGED timeline, NEW j \in jobs, j.at \in {"set", "append"}, Writes(j)
  PROVE  Kept
<1> DEFINE m == j.span
           u == timeline[m].user
<1>t. /\ m \in DOMAIN timeline /\ u \in Users /\ timeline[m].type # "other" /\ m \in Nat
      /\ timeline[m] \in Spans /\ timeline \in Seq(Spans) /\ store \in Stores
      /\ j.at = "append" => timeline[m].type = "contract.signed"
      /\ DOMAIN timeline = 1..Len(timeline) /\ Len(timeline) \in Nat
  <2>1. m \in DOMAIN timeline /\ timeline \in Seq(Spans) /\ store \in Stores /\ Allowed(j)
    BY Held, JobTypes
  <2>2. DOMAIN timeline = 1..Len(timeline) /\ Len(timeline) \in Nat
    BY Held, Timeline
  <2>3. m \in Nat /\ timeline[m] \in Spans
    BY <2>1, <2>2
  <2> QED  BY <2>1, <2>2, <2>3 DEF Allowed
<1>o. overtaken' = overtaken \cup Overtaken(m)
  BY DEF Writes
<1>p. \A v : Profiles(v)' = Profiles(v)
  BY DEF Profiles
<1>n. NoUser \notin Users
  BY StateBuilderAssumption
<1>1. CASE j.at = "set" /\ timeline[m].type = "user.profile.created"
  <2>1. /\ store'.profile = [store.profile EXCEPT ![u] = m]
        /\ store'.signed = store.signed /\ store'.list = store.list
        /\ store.profile \in [Users -> 0..Len(timeline)]
    BY <1>t, <1>1 DEF Writes, SetKey, Stores
  <2>2. ASSUME NEW i \in DOMAIN timeline, Reflected(i) PROVE Reflected(i)' \/ i \in overtaken'
    <3>1. CASE timeline[i].type = "user.profile.created" /\ timeline[i].user = u
      <4>1. store.profile[u] \in Profiles(u) /\ store.profile[u] >= i
        BY <1>n, <1>t, <2>2, <3>1 DEF Reflected
      <4>2. m \in Profiles(u)
        BY <1>t, <1>1 DEF Profiles, Spans
      <4>3. timeline[i] \in Spans /\ i \in Nat
        BY <1>t
      <4>4. i \in Profiles(u)
        BY <3>1, <4>3 DEF Profiles, Spans
      <4>5. store'.profile[u] = m
        BY <1>t, <2>1
      <4>6. CASE m >= i
        BY <1>p, <3>1, <4>2, <4>5, <4>6 DEF Reflected
      <4>7. CASE m < i
        BY <1>o, <4>1, <4>2, <4>4, <4>7 DEF Overtaken
      <4> QED  BY <1>t, <4>3, <4>6, <4>7
    <3>2. CASE timeline[i].type = "user.profile.created" /\ timeline[i].user # u
      <4>1. store'.profile[timeline[i].user] = store.profile[timeline[i].user]
             \/ timeline[i].user = NoUser
        <5>1. timeline[i].user \in Users \cup {NoUser}
          <6>1. timeline[i] \in Spans
            BY <1>t
          <6> QED  BY <6>1 DEF Spans
        <5> QED  BY <2>1, <3>2, <5>1
      <4> QED  BY <1>p, <2>2, <3>2, <4>1 DEF Reflected
    <3>3. CASE timeline[i].type # "user.profile.created"
      BY <2>1, <2>2, <3>3 DEF Reflected
    <3> QED  BY <3>1, <3>2, <3>3
  <2> QED  BY <1>o, <2>1, <2>2 DEF Kept
<1>2. CASE j.at = "set" /\ timeline[m].type = "contract.signed"
  <2>1. /\ store'.profile = store.profile /\ store'.list = store.list
        /\ store.signed \subseteq store'.signed
    BY <1>t, <1>2 DEF Writes, SetKey, Stores
  <2>2. ASSUME NEW i \in DOMAIN timeline, Reflected(i) PROVE Reflected(i)'
    BY <1>p, <2>1, <2>2 DEF Reflected
  <2> QED  BY <1>o, <2>1, <2>2 DEF Kept
<1>3. CASE j.at = "append"
  <2>1. /\ store'.profile = store.profile /\ store'.signed = store.signed
        /\ store'.list = [store.list EXCEPT ![u] = Append(store.list[u], m)]
        /\ store.list \in [Users -> Seq(DOMAIN timeline)]
    BY <1>t, <1>3 DEF Writes, ListAppend, Stores
  <2>2. \A k \in DOMAIN store.list[u] : /\ k \in DOMAIN Append(store.list[u], m)
                                        /\ Append(store.list[u], m)[k] = store.list[u][k]
    <3>1. store.list[u] \in Seq(DOMAIN timeline)
      BY <1>t, <2>1
    <3> QED  BY <3>1
  <2>3. \A v \in Users : \A k \in DOMAIN store.list[v] :
          k \in DOMAIN store'.list[v] /\ store'.list[v][k] = store.list[v][k]
    BY <2>1, <2>2
  <2>4. ASSUME NEW i \in DOMAIN timeline, Reflected(i) PROVE Reflected(i)'
    <3>1. timeline[i].user \in Users \cup {NoUser}
      <4>1. timeline[i] \in Spans
        BY <1>t
      <4> QED  BY <4>1 DEF Spans
    <3> QED  BY <1>p, <2>1, <2>3, <2>4, <3>1 DEF Reflected
  <2> QED  BY <1>o, <2>1, <2>4 DEF Kept
<1>4. timeline[m].type \in {"user.profile.created", "contract.signed"}
  BY <1>t DEF Spans, Types
<1> QED  BY <1>1, <1>2, <1>3, <1>4

LEMMA SameKept ==
  ASSUME UNCHANGED <<timeline, store, overtaken>>
  PROVE  Kept
BY DEF Kept, Reflected, Profiles

(* What covers a span goes on to cover it.                                 *)
LEMMA CoverStays ==
  ASSUME NEW i \in DOMAIN timeline, Covered(i), Kept, missing \subseteq missing',
         \A b \in Rebuilds : Ahead(b, i) => Ahead(b, i)',
         \A j \in jobs : Under(j, i) => j \in jobs'
  PROVE  Covered(i)'
<1>1. CASE Reflected(i) \/ i \in missing \cup overtaken
  BY <1>1 DEF Covered, Kept
<1>2. CASE \E b \in Rebuilds : Ahead(b, i)
  BY <1>2 DEF Covered
<1>3. ASSUME NEW j \in jobs, Under(j, i) PROVE Covered(i)'
  BY <1>3 DEF Covered, Under, Kept
<1> QED  BY <1>1, <1>2, <1>3 DEF Covered

LEMMA ArriveCovers ==
  ASSUME TypeInv, Inv, NEW s \in Spans, Arrive(s)
  PROVE  Inv'
<1> DEFINE n == Len(timeline)
<1>t. n \in Nat /\ DOMAIN timeline = 1..n /\ timeline \in Seq(Spans)
  BY Held, Timeline
<1>1. /\ DOMAIN timeline' = 1..(n + 1) /\ Len(timeline') = n + 1
      /\ \A i \in 1..n : timeline'[i] = timeline[i]
  BY <1>t DEF Arrive
<1>2. jobs' = jobs \cup {Job(n + 1, Own, 0)} /\ UNCHANGED <<store, rebuild, missing, overtaken>>
  BY <1>1 DEF Arrive
<1>3. ASSUME NEW i \in 1..n PROVE Covered(i)'
  <2>1. Covered(i)
    BY <1>t DEF Inv
  <2>2. Reflected(i) => Reflected(i)'
    <3>1. \A u : Profiles(u) \subseteq Profiles(u)'
      BY <1>t, <1>1 DEF Profiles
    <3> QED  BY <1>1, <1>2, <3>1 DEF Reflected
  <2>3. \A b \in Rebuilds : Ahead(b, i)' <=> Ahead(b, i)
    BY <1>2 DEF Ahead
  <2>4. \A j \in jobs : j \in jobs' /\ (Under(j, i)' <=> Under(j, i))
    BY <1>2 DEF Under
  <2> QED  BY <1>2, <2>1, <2>2, <2>3, <2>4 DEF Covered
<1>4. ASSUME NEW i, i = n + 1 PROVE Covered(i)'
  <2>1. Under(Job(i, Own, 0), i)'
    BY DEF Under, Job
  <2>2. Job(i, Own, 0) \in jobs'
    BY <1>2, <1>4
  <2> QED  BY <2>1, <2>2 DEF Covered
<1>5. \A i \in 1..(n + 1) : i \in 1..n \/ i = n + 1
  BY <1>t
<1> QED  BY <1>1, <1>3, <1>4, <1>5 DEF Inv

LEMMA RuleCovers ==
  ASSUME TypeInv, Inv, NEW j \in jobs, Rule(j)
  PROVE  Inv'
<1>j. j.span \in DOMAIN timeline /\ Allowed(j) /\ j \in JobRecords
  BY Held, JobTypes
<1>1. UNCHANGED <<timeline, rebuild>> /\ missing \subseteq missing'
  BY DEF Rule, Attempt, Set, ListAppends, Fails
<1>2. Kept
  <2>1. CASE Attempt(j) \/ (Fails(j) /\ UNCHANGED <<store, overtaken>>)
    BY <1>1, <2>1, SameKept DEF Attempt
  <2>2. CASE Set(j) \/ ListAppends(j) \/ (Fails(j) /\ Writes(j))
    BY <1>1, <2>2, WritesKeep DEF Set, ListAppends, Fails
  <2> QED  BY <2>1, <2>2 DEF Rule, Fails
<1>3. \A k \in jobs : k # j => k \in jobs'
  BY DEF Rule, Attempt, Set, ListAppends, Fails, Goes, Ends
<1>4. \A b \in Rebuilds, i \in DOMAIN timeline : Ahead(b, i) => Ahead(b, i)'
  BY <1>1 DEF Ahead
<1>5. ASSUME NEW i \in DOMAIN timeline, ~Under(j, i) PROVE Covered(i)'
  BY <1>1, <1>2, <1>3, <1>4, <1>5, CoverStays DEF Inv
<1>6. ASSUME Under(j, j.span) PROVE Covered(j.span)'
  <2>1. CASE Attempt(j)
    <3>1. CASE timeline[j.span].user = NoUser \/ timeline[j.span].type = "other"
      BY <1>1, <3>1 DEF Reflected, Covered
    <3>2. CASE ~(timeline[j.span].user = NoUser \/ timeline[j.span].type = "other")
      <4> DEFINE k == [j EXCEPT !.at = "set"]
      <4>1. k \in jobs' /\ k.span = j.span /\ k.at = "set"
        BY <1>j, <2>1, <3>2 DEF Attempt, Goes, JobRecords
      <4> HIDE DEF k
      <4> QED  BY <4>1 DEF Covered, Under
    <3> QED  BY <3>1, <3>2
  <2>2. CASE Set(j) /\ timeline[j.span].type = "contract.signed"
    <3> DEFINE k == [j EXCEPT !.at = "append"]
    <3>1. k \in jobs' /\ k.span = j.span
      BY <1>j, <2>2 DEF Set, Goes, JobRecords
    <3>2. j.span \in store'.signed
      BY <2>2, Held DEF Set, Writes, SetKey, Stores
    <3> HIDE DEF k
    <3> QED  BY <3>1, <3>2 DEF Covered, Under
  <2>3. CASE Set(j) /\ timeline[j.span].type # "contract.signed"
    <3>1. timeline[j.span] \in Spans
      BY <1>j, Held
    <3>2. timeline[j.span].type = "user.profile.created" /\ timeline[j.span].user \in Users
      BY <1>j, <2>3, <3>1 DEF Set, Allowed, Spans, Types
    <3>3. store'.profile[timeline[j.span].user] = j.span /\ j.span >= j.span
      BY <1>j, <2>3, <3>2, Held, Timeline DEF Set, Writes, SetKey, Stores
    <3>4. j.span \in Profiles(timeline[j.span].user)'
      BY <1>1, <1>j, <3>1, <3>2 DEF Profiles, Spans
    <3> QED  BY <1>1, <3>2, <3>3, <3>4 DEF Reflected, Covered
  <2>4. CASE ListAppends(j)
    <3> DEFINE u == timeline[j.span].user
    <3>1. u \in Users /\ timeline[j.span].type = "contract.signed" /\ j.span \in store.signed
      BY <1>6, <1>j, <2>4 DEF ListAppends, Allowed, Under
    <3>2. /\ store'.list = [store.list EXCEPT ![u] = Append(@, j.span)]
          /\ store'.signed = store.signed
          /\ store.list \in [Users -> Seq(DOMAIN timeline)]
      BY <2>4, Held DEF ListAppends, Writes, ListAppend, Stores
    <3>3. store'.list[u] = Append(store.list[u], j.span) /\ store.list[u] \in Seq(DOMAIN timeline)
      BY <3>1, <3>2
    <3>4. \E k \in DOMAIN store'.list[u] : store'.list[u][k] = j.span
      <4>1. /\ Len(store.list[u]) + 1 \in DOMAIN store'.list[u]
            /\ store'.list[u][Len(store.list[u]) + 1] = j.span
        <5>1. PICK l \in Seq(DOMAIN timeline) : l = store.list[u]
          BY <3>3
        <5>2. store'.list[u] = Append(l, j.span)
          BY <3>3, <5>1
        <5>3. /\ Len(l) + 1 \in DOMAIN Append(l, j.span)
              /\ Append(l, j.span)[Len(l) + 1] = j.span
          <6>1. Len(l) \in Nat /\ j.span \in DOMAIN timeline
            BY <1>j, LenProperties
          <6> QED  BY <6>1, AppendProperties
        <5> QED  BY <5>1, <5>2, <5>3
      <4> QED  BY <4>1
    <3> QED  BY <1>1, <3>1, <3>2, <3>4 DEF Reflected, Covered
  <2>5. CASE Fails(j) /\ j.tries + 1 < Attempts
    <3> DEFINE k == [j EXCEPT !.at = "set", !.tries = @ + 1]
    <3>1. k \in jobs' /\ k.span = j.span /\ k.at = "set"
      BY <1>j, <2>5 DEF Fails, JobRecords
    <3> HIDE DEF k
    <3> QED  BY <3>1 DEF Covered, Under
  <2>6. CASE Fails(j) /\ ~(j.tries + 1 < Attempts)
    BY <2>6 DEF Fails, Covered
  <2> QED  BY <2>1, <2>2, <2>3, <2>4, <2>5, <2>6 DEF Rule
<1>7. \A i \in DOMAIN timeline : Under(j, i) => i = j.span
  BY DEF Under
<1> QED  BY <1>1, <1>5, <1>6, <1>7 DEF Inv

LEMMA RebuildCovers ==
  ASSUME TypeInv, Inv, NEW b \in Rebuilds, RebuildFull(b)
  PROVE  Inv'
<1>0. /\ UNCHANGED timeline /\ jobs \subseteq jobs'
      /\ \A d \in Rebuilds : \A i : d # b /\ Ahead(d, i) => Ahead(d, i)'
      /\ rebuild \in [Rebuilds -> RebuildRecords]
  BY Held DEF RebuildFull, Request, Flush, FlushFails, Query, Trigger, TriggerFails, Complete,
              Ahead
<1>n. \A i \in DOMAIN timeline : i \in Nat /\ 1 =< i /\ i =< Len(timeline)
  BY Held, Timeline
<1>1. CASE Flush(b) \/ FlushFails(b)
  <2>1. rebuild'[b].at \in {"flush", "query"}
    <3>1. rebuild[b] \in RebuildRecords
      BY <1>0
    <3>2. CASE Flush(b)
      BY <1>0, <3>1, <3>2 DEF Flush, RebuildRecords
    <3>3. ASSUME NEW at \in {"flush", "query"}, NEW tries,
                 rebuild' = [rebuild EXCEPT ![b].affair = "failed", ![b].at = at,
                                            ![b].tries = tries]
          PROVE  rebuild'[b].at \in {"flush", "query"}
      BY <1>0, <3>1, <3>3 DEF RebuildRecords
    <3>4. CASE rebuild' = [rebuild EXCEPT ![b].at = "query", ![b].tries = 0]
      BY <1>0, <3>1, <3>4 DEF RebuildRecords
    <3>5. (IF rebuild[b].tries + 1 < Attempts THEN "flush" ELSE "query") \in {"flush", "query"}
      OBVIOUS
    <3> QED  BY <1>1, <3>2, <3>3, <3>4, <3>5 DEF FlushFails
  <2>2. \A i \in DOMAIN timeline : Ahead(b, i)'
    BY <2>1 DEF Ahead
  <2> QED  BY <1>0, <2>2 DEF Inv, Covered
<1>2. CASE Query(b)
  <2>1. rebuild'[b].at = "replay" /\ rebuild'[b].next = 1 /\ rebuild'[b].upto = Len(timeline)
    BY <1>0, <1>2, Held DEF Query, RebuildRecords
  <2>2. \A i \in DOMAIN timeline : Ahead(b, i)'
    BY <1>n, <2>1 DEF Ahead
  <2> QED  BY <1>0, <2>2 DEF Inv, Covered
<1>3. CASE Request(b) \/ Complete(b)
  <2>1. \A i \in DOMAIN timeline : ~Ahead(b, i)
    <3>1. CASE Request(b)
      BY <3>1 DEF Request, Ahead
    <3>2. CASE Complete(b)
      <4>1. /\ rebuild[b].next \in Nat /\ rebuild[b].upto \in Nat
            /\ rebuild[b].next > rebuild[b].upto /\ rebuild[b].at = "replay"
        BY <3>2, Held, Timeline DEF Complete, RebuildRecords
      <4> QED  BY <1>n, <4>1 DEF Ahead
    <3> QED  BY <1>3, <3>1, <3>2
  <2>2. UNCHANGED <<store, missing, overtaken>>
    BY <1>3 DEF Request, Complete
  <2> QED  BY <1>0, <2>1, <2>2, SameKept, CoverStays DEF Inv
<1>4. CASE Trigger(b) \/ TriggerFails(b)
  <2> DEFINE next == rebuild[b].next
             upto == rebuild[b].upto
  <2>1. next \in Nat /\ upto \in Nat /\ rebuild[b].at = "replay"
    BY <1>0, <1>4, Timeline, Held DEF Trigger, TriggerFails, RebuildRecords
  <2>2. UNCHANGED <<store, overtaken>> /\ missing \subseteq missing'
    BY <1>4 DEF Trigger, TriggerFails
  <2>3. /\ rebuild'[b].at = "replay" /\ rebuild'[b].upto = upto
        /\ rebuild'[b].next = next \/ rebuild'[b].next = next + 1
    BY <1>0, <1>4, <2>1 DEF Trigger, TriggerFails, RebuildRecords
  <2>4. ASSUME NEW i \in DOMAIN timeline, i # next \/ rebuild'[b].next = next PROVE Covered(i)'
    <3>1. Ahead(b, i) => Ahead(b, i)'
      BY <1>n, <2>1, <2>3, <2>4 DEF Ahead
    <3> QED  BY <1>0, <2>2, <3>1, SameKept, CoverStays DEF Inv
  <2>5. ASSUME NEW i \in DOMAIN timeline, i = next, rebuild'[b].next # next PROVE Covered(i)'
    <3>1. CASE Trigger(b)
      <4>1. Job(i, b, 0) \in jobs'
        BY <2>5, <3>1 DEF Trigger
      <4>2. Under(Job(i, b, 0), i)'
        BY DEF Under, Job
      <4> QED  BY <4>1, <4>2 DEF Covered
    <3>2. CASE TriggerFails(b)
      <4>1. i \in missing'
        BY <1>0, <2>5, <3>2 DEF TriggerFails, RebuildRecords
      <4> QED  BY <4>1 DEF Covered
    <3> QED  BY <1>4, <3>1, <3>2
  <2> QED  BY <1>0, <2>4, <2>5 DEF Inv
<1> QED  BY <1>1, <1>2, <1>3, <1>4 DEF RebuildFull

LEMMA NextCovers ==
  ASSUME TypeInv, Inv, [Next]_vars
  PROVE  Inv'
<1>1. CASE UNCHANGED vars
  <2>1. \A b \in Rebuilds : \A i : Ahead(b, i) => Ahead(b, i)'
    BY <1>1 DEF vars, Ahead
  <2>2. UNCHANGED <<timeline, store, missing, overtaken, jobs>>
    BY <1>1 DEF vars
  <2> QED  BY <2>1, <2>2, SameKept, CoverStays DEF Inv
<1> QED  BY <1>1, ArriveCovers, RuleCovers, RebuildCovers DEF Next

(***************************************************************************)
(* When nothing is under way the store has every span but those given up   *)
(* and the profiles that a run of an older span has written over, however  *)
(* rebuilds and the rule have interleaved.                                 *)
(***************************************************************************)
THEOREM NothingIsLost == Spec => []NothingLost
<1>1. Init => TypeInv /\ Inv
  <2>1. Init => Inv
    BY EmptySeq DEF Init, Inv
  <2> QED  BY <2>1, InitType
<1>2. TypeInv /\ Inv /\ [Next]_vars => TypeInv' /\ Inv'
  BY NextType, NextCovers
<1>3. TypeInv /\ Inv => NothingLost
  BY DEF Inv, Covered, NothingLost, Quiet, Active, Ahead
<1> QED  BY <1>1, <1>2, <1>3, PTL DEF Spec

(***************************************************************************)
(* Every set of naturals that is not empty has a least element: induction  *)
(* without a predicate as parameter.                                       *)
(***************************************************************************)
LEMMA LeastNatural ==
  ASSUME NEW T \in SUBSET Nat, T # {}
  PROVE  \E x \in T : \A y \in T : x =< y
<1> DEFINE R == {p \in Nat \X Nat : p[1] < p[2]}
<1>1. OpToRel(<, Nat) = R
  BY DEF OpToRel
<1>2. IsWellFoundedOn(R, Nat)
  BY <1>1, NatLessThanWellFounded
<1>3. \E x \in T : \A y \in T : ~(<<y, x>> \in R)
  <2> HIDE DEF R
  <2> QED  BY <1>2, WFMin
<1>4. PICK x \in T : \A y \in T : ~(<<y, x>> \in R)
  BY <1>3
<1>5. \A y \in T : ~(y < x)
  BY <1>4
<1> QED  BY <1>5

(* The fold that Projection is taken from exists: a least length for which *)
(* it does not could be made from the one before it.                       *)
IsUpto(f, n) ==
  f = [i \in 0..n |-> IF i = 0 THEN EmptyStore ELSE Apply(f[i - 1], i)]

LEMMA UptoExists ==
  ASSUME NEW n \in Nat
  PROVE  \E f : IsUpto(f, n)
<1> DEFINE T == {k \in 0..n : ~\E f : IsUpto(f, k)}
<1>1. SUFFICES T = {}
  <2>1. n \in 0..n
    OBVIOUS
  <2> QED  BY <2>1
<1>2. SUFFICES ASSUME T # {} PROVE FALSE
  OBVIOUS
<1>3. T \in SUBSET Nat
  OBVIOUS
<1>4. PICK k \in T : \A y \in T : k =< y
  <2> HIDE DEF T
  <2> QED  BY <1>2, <1>3, LeastNatural
<1>5. k \in 0..n
  OBVIOUS
<1>6. k # 0
  <2>1. SUFFICES ASSUME k = 0 PROVE \E f : IsUpto(f, k)
    OBVIOUS
  <2> DEFINE g == [i \in 0..k |-> EmptyStore]
  <2>2. g = [i \in 0..k |-> IF i = 0 THEN EmptyStore ELSE Apply(g[i - 1], i)]
    BY <2>1
  <2> HIDE DEF g
  <2> QED  BY <2>2 DEF IsUpto
<1>7. k - 1 \in 0..n /\ k - 1 \notin T
  <2> HIDE DEF T
  <2> QED  BY <1>4, <1>5, <1>6
<1>8. PICK f : IsUpto(f, k - 1)
  BY <1>7
<1> DEFINE g == [i \in 0..k |-> IF i = 0 THEN EmptyStore ELSE Apply(f[i - 1], i)]
<1>9. \A i \in 0..(k - 1) : g[i] = f[i]
  <2>1. f = [i \in 0..(k - 1) |-> IF i = 0 THEN EmptyStore ELSE Apply(f[i - 1], i)]
    BY <1>8 DEF IsUpto
  <2> QED  BY <1>5, <2>1
<1>10. \A i \in 0..k : i # 0 => i - 1 \in 0..(k - 1)
  BY <1>5
<1>11. g = [i \in 0..k |-> IF i = 0 THEN EmptyStore ELSE Apply(g[i - 1], i)]
  BY <1>9, <1>10
<1> HIDE DEF g
<1> QED  BY <1>4, <1>11 DEF IsUpto

LEMMA UptoUnfolds ==
  ASSUME Len(timeline) \in Nat
  PROVE  /\ Upto[0] = EmptyStore
         /\ \A i \in 1..Len(timeline) : Upto[i] = Apply(Upto[i - 1], i)
<1>1. \E f : f = [i \in 0..Len(timeline) |-> IF i = 0 THEN EmptyStore ELSE Apply(f[i - 1], i)]
  BY UptoExists DEF IsUpto
<1>2. Upto = [i \in 0..Len(timeline) |-> IF i = 0 THEN EmptyStore ELSE Apply(Upto[i - 1], i)]
  BY <1>1, Zenon DEF Upto
<1> HIDE DEF Upto
<1>3. Upto[0] = EmptyStore
  BY <1>2
<1>4. ASSUME NEW i \in 1..Len(timeline) PROVE Upto[i] = Apply(Upto[i - 1], i)
  BY <1>2
<1> QED  BY <1>3, <1>4

LEMMA UptoUnfoldsNext ==
  (Len(timeline) \in Nat =>
     /\ Upto[0] = EmptyStore
     /\ \A i \in 1..Len(timeline) : Upto[i] = Apply(Upto[i - 1], i))'
<1>1. Len(timeline) \in Nat =>
        /\ Upto[0] = EmptyStore
        /\ \A i \in 1..Len(timeline) : Upto[i] = Apply(Upto[i - 1], i)
  BY UptoUnfolds
<1> QED  BY <1>1, PTL

LEMMA UptoStays ==
  ASSUME UNCHANGED timeline
  PROVE  Upto' = Upto
BY DEF Upto, Apply, SetKey, ListAppend, EmptyStore

(* A span that arrives adds to the fold and changes nothing of it.         *)
LEMMA UptoExtends ==
  ASSUME TypeInv, NEW s \in Spans, timeline' = Append(timeline, s)
  PROVE  \A i \in 0..Len(timeline) : Upto'[i] = Upto[i]
<1> DEFINE n == Len(timeline)
           T == {k \in 0..n : Upto'[k] # Upto[k]}
<1>t. n \in Nat /\ timeline \in Seq(Spans)
  BY Held, Timeline
<1>1. Len(timeline') = n + 1 /\ \A i \in 1..n : timeline'[i] = timeline[i]
  BY <1>t
<1>2. Upto[0] = EmptyStore /\ \A i \in 1..n : Upto[i] = Apply(Upto[i - 1], i)
  BY <1>t, UptoUnfolds
<1>3. /\ Upto'[0] = EmptyStore'
      /\ \A i \in 1..Len(timeline') : Upto'[i] = Apply(Upto[i - 1], i)'
  BY <1>t, <1>1, UptoUnfoldsNext
<1>4. SUFFICES ASSUME T # {} PROVE FALSE
  OBVIOUS
<1>5. PICK k \in T : \A y \in T : k =< y
  <2>1. T \in SUBSET Nat
    OBVIOUS
  <2> HIDE DEF T
  <2> QED  BY <1>4, <2>1, LeastNatural
<1>6. k # 0
  <2>1. Upto'[0] = EmptyStore /\ Upto[0] = EmptyStore
    BY <1>t, <1>1, <1>2, <1>3 DEF EmptyStore
  <2> QED  BY <2>1
<1>7. k \in 1..n /\ k \in 1..(n + 1) /\ k - 1 \in 0..n /\ k - 1 \notin T
  <2>1. k \in 0..n
    OBVIOUS
  <2> HIDE DEF T
  <2> QED  BY <1>t, <1>5, <1>6, <2>1
<1>8. Upto'[k - 1] = Upto[k - 1]
  BY <1>7
<1>9. Upto'[k] = Upto[k]
  <2>1. PICK before : before = Upto[k - 1]
    OBVIOUS
  <2>2. Upto[k] = Apply(before, k)
    BY <1>2, <1>7, <2>1
  <2>3. Upto'[k] = Apply(before, k)'
    BY <1>t, <1>1, <1>3, <1>7, <1>8, <2>1
  <2>4. Apply(before, k)' = Apply(before, k)
    BY <1>1, <1>7 DEF Apply, SetKey, ListAppend
  <2> QED  BY <2>2, <2>3, <2>4
<1> QED  BY <1>9

(***************************************************************************)
(* As long as it is calm there is at most one run of the rule, for the     *)
(* last span or for the rebuild that is under way, and the store holds the *)
(* fold of the spans before it and the half of it that is done.            *)
(***************************************************************************)
Done(j) ==
  LET before == Upto[j.span - 1] IN
  /\ j.at \in {"attempt", "set"} => store = before
  /\ j.at = "append" => store = SetKey(before, j.span)

AtRest == Quiet /\ store = Projection

OneRule ==
  /\ \A b \in Rebuilds : ~Active(b)
  /\ \E j \in jobs : jobs = {j} /\ j.span = Len(timeline) /\ Done(j)

Alone(b) ==
  /\ rebuild[b].at \in {"flush", "query", "replay"}
  /\ \A d \in Rebuilds \ {b} : ~Active(d)
  /\ rebuild[b].at # "replay" => jobs = {}
  /\ rebuild[b].at = "query" => store = EmptyStore
  /\ rebuild[b].at = "replay" =>
       /\ rebuild[b].upto = Len(timeline) /\ rebuild[b].next - 1 \in 0..Len(timeline)
       /\ jobs = {} => store = Upto[rebuild[b].next - 1]
       /\ \A j \in jobs :
            /\ jobs = {j} /\ j.by = b /\ j.trigger = 0
            /\ j.span = rebuild[b].next - 1 /\ Done(j)

CalmInv == calm => AtRest \/ OneRule \/ \E b \in Rebuilds : Alone(b)

(* What a run of the rule that is alone ends with is one more span.        *)
Ended(j) == jobs' = {} /\ store' = Upto[j.span]
Continued(j, k) ==
  /\ jobs' = {k} /\ k.by = j.by /\ k.trigger = j.trigger /\ k.span = j.span
  /\ Done(k)'

LEMMA RuleFaithful ==
  ASSUME TypeInv, NEW j \in jobs, Rule(j), ~Fails(j), jobs = {j}, Done(j)
  PROVE  /\ UNCHANGED <<timeline, rebuild, calm>>
         /\ Ended(j) \/ \E k \in jobs' : Continued(j, k)
<1>2. UNCHANGED <<timeline, rebuild, calm>>
  BY DEF Rule, Attempt, Set, ListAppends
<1>4. /\ j.span \in 1..Len(timeline) /\ Len(timeline) \in Nat /\ Allowed(j) /\ j \in JobRecords
  BY Held, JobTypes, Timeline
<1>5. Upto' = Upto
  BY <1>2, UptoStays
<1>6. Upto[j.span] = Apply(Upto[j.span - 1], j.span)
  BY <1>4, UptoUnfolds
<1>8. ASSUME NEW at \in {"attempt", "set", "append"}, jobs' = {[j EXCEPT !.at = at]},
             Done([j EXCEPT !.at = at])'
      PROVE  \E k \in jobs' : Continued(j, k)
  <2> DEFINE k == [j EXCEPT !.at = at]
  <2>1. k.by = j.by /\ k.span = j.span /\ k.trigger = j.trigger
    BY <1>4 DEF JobRecords
  <2>2. jobs' = {k} /\ Done(k)'
    BY <1>8
  <2> HIDE DEF k
  <2> QED  BY <2>1, <2>2 DEF Continued
<1>9. \A at \in {"attempt", "set", "append"} :
        [j EXCEPT !.at = at].span = j.span /\ [j EXCEPT !.at = at].at = at
  BY <1>4 DEF JobRecords
<1>10. CASE Attempt(j)
  <2>1. store' = store /\ store = Upto[j.span - 1]
    BY <1>10 DEF Attempt, Done
  <2>2. CASE timeline[j.span].user = NoUser \/ timeline[j.span].type = "other"
    <3>1. jobs' = {}
      BY <1>10, <2>2 DEF Attempt, Ends
    <3>2. Upto[j.span] = Upto[j.span - 1]
      BY <1>6, <2>2 DEF Apply
    <3> QED  BY <1>2, <2>1, <3>1, <3>2 DEF Ended
  <2>3. CASE ~(timeline[j.span].user = NoUser \/ timeline[j.span].type = "other")
    <3>1. jobs' = {[j EXCEPT !.at = "set"]}
      BY <1>10, <2>3 DEF Attempt, Goes
    <3>2. Done([j EXCEPT !.at = "set"])'
      BY <1>5, <1>9, <2>1 DEF Done
    <3> QED  BY <1>2, <1>8, <3>1, <3>2
  <2> QED  BY <2>2, <2>3
<1>11. CASE Set(j)
  <2>1. store' = SetKey(Upto[j.span - 1], j.span)
    BY <1>11 DEF Set, Writes, Done
  <2>2. CASE timeline[j.span].type = "contract.signed"
    <3>1. jobs' = {[j EXCEPT !.at = "append"]}
      BY <1>11, <2>2 DEF Set, Goes
    <3>2. Done([j EXCEPT !.at = "append"])'
      BY <1>2, <1>5, <1>9, <2>1 DEF Done, SetKey
    <3> QED  BY <1>2, <1>8, <3>1, <3>2
  <2>3. CASE timeline[j.span].type # "contract.signed"
    <3>1. jobs' = {}
      BY <1>11, <2>3 DEF Set, Ends
    <3>2. timeline[j.span].user # NoUser /\ timeline[j.span].type # "other"
      BY <1>4, <1>11, StateBuilderAssumption DEF Set, Allowed
    <3>3. Upto[j.span] = SetKey(Upto[j.span - 1], j.span)
      BY <1>6, <2>3, <3>2 DEF Apply
    <3> QED  BY <1>2, <2>1, <3>1, <3>3 DEF Ended
  <2> QED  BY <2>2, <2>3
<1>12. CASE ListAppends(j)
  <2>1. jobs' = {}
    BY <1>12 DEF ListAppends, Ends
  <2>2. store' = ListAppend(SetKey(Upto[j.span - 1], j.span), j.span)
    BY <1>12 DEF ListAppends, Writes, Done
  <2>3. timeline[j.span].user # NoUser /\ timeline[j.span].type = "contract.signed"
    BY <1>4, <1>12, StateBuilderAssumption DEF ListAppends, Allowed
  <2>4. Upto[j.span] = ListAppend(SetKey(Upto[j.span - 1], j.span), j.span)
    BY <1>6, <2>3 DEF Apply
  <2> QED  BY <1>2, <2>1, <2>2, <2>4 DEF Ended
<1> QED  BY <1>10, <1>11, <1>12 DEF Rule

LEMMA RuleCalm ==
  ASSUME TypeInv, CalmInv, NEW j \in jobs, Rule(j)
  PROVE  CalmInv'
<1>1. CASE Fails(j)
  <2>1. calm' = FALSE
    BY <1>1 DEF Fails, Fault
  <2> QED  BY <2>1, Zenon DEF CalmInv
<1>2. CASE ~Fails(j)
  <2>1. SUFFICES ASSUME calm' PROVE (AtRest \/ OneRule \/ \E b \in Rebuilds : Alone(b))'
    BY Zenon DEF CalmInv
  <2>2. UNCHANGED <<timeline, rebuild>> /\ calm
    BY <1>2, <2>1 DEF Rule, Attempt, Set, ListAppends
  <2>3. OneRule \/ \E b \in Rebuilds : Alone(b)
    BY <2>2 DEF CalmInv, AtRest, Quiet
  <2>4. Upto' = Upto /\ Projection' = Projection
    BY <2>2, UptoStays DEF Projection
  <2>5. CASE OneRule
    <3>1. jobs = {j} /\ j.span = Len(timeline) /\ Done(j) /\ \A b \in Rebuilds : ~Active(b)
      BY <2>5 DEF OneRule
    <3>2. \A b \in Rebuilds : ~Active(b)'
      BY <2>2, <3>1 DEF Active
    <3>3. CASE Ended(j)
      BY <2>4, <3>1, <3>2, <3>3 DEF Ended, AtRest, Quiet, Projection
    <3>4. ASSUME NEW k \in jobs', Continued(j, k) PROVE OneRule'
      <4>1. k.span = Len(timeline') /\ jobs' = {k} /\ Done(k)'
        BY <2>2, <3>1, <3>4 DEF Continued
      <4> QED  BY <3>2, <4>1 DEF OneRule
    <3> QED  BY <1>2, <3>1, <3>3, <3>4, RuleFaithful
  <2>6. ASSUME NEW b \in Rebuilds, Alone(b) PROVE Alone(b)'
    <3>1. /\ rebuild[b].at = "replay" /\ rebuild[b].upto = Len(timeline)
          /\ rebuild[b].next - 1 \in 0..Len(timeline)
          /\ jobs = {j} /\ j.by = b /\ j.trigger = 0 /\ j.span = rebuild[b].next - 1 /\ Done(j)
      BY <2>6 DEF Alone
    <3>2. \A d \in Rebuilds \ {b} : ~Active(d)'
      BY <2>2, <2>6 DEF Alone, Active
    <3>3. CASE Ended(j)
      BY <2>2, <2>4, <3>1, <3>2, <3>3 DEF Ended, Alone
    <3>4. ASSUME NEW k \in jobs', Continued(j, k) PROVE Alone(b)'
      BY <2>2, <2>4, <3>1, <3>2, <3>4 DEF Continued, Alone
    <3> QED  BY <1>2, <3>1, <3>3, <3>4, RuleFaithful
  <2> QED  BY <2>3, <2>5, <2>6
<1> QED  BY <1>1, <1>2

LEMMA ArriveCalm ==
  ASSUME TypeInv, CalmInv, NEW s \in Spans, Arrive(s)
  PROVE  CalmInv'
<1> DEFINE n == Len(timeline)
<1>j. PICK j : j = Job(n + 1, Own, 0)
  OBVIOUS
<1>1. SUFFICES ASSUME calm' PROVE OneRule'
  BY Zenon DEF CalmInv
<1>2. calm /\ Quiet
  BY <1>1, Zenon DEF Arrive
<1>3. n \in Nat /\ timeline \in Seq(Spans) /\ timeline' = Append(timeline, s)
  BY Held, Timeline DEF Arrive
<1>4. Len(timeline') = n + 1 /\ n \in 0..n
  BY <1>3
<1>5. store = Upto[n]
  <2>1. ~OneRule /\ \A b \in Rebuilds : ~Alone(b)
    BY <1>2 DEF Quiet, OneRule, Alone, Active
  <2> QED  BY <1>2, <2>1 DEF CalmInv, AtRest, Projection
<1>6. Upto'[n] = Upto[n]
  BY <1>3, <1>4, UptoExtends
<1>7. /\ jobs' = {j} /\ UNCHANGED <<store, rebuild>>
      /\ j.span = n + 1 /\ j.at = "attempt"
  BY <1>2, <1>4, <1>j DEF Arrive, Quiet, Job
<1>8. Done(j)'
  <2>1. j.span - 1 = n
    BY <1>3, <1>7
  <2> QED  BY <1>5, <1>6, <1>7, <2>1 DEF Done
<1>9. \A b \in Rebuilds : ~Active(b)'
  BY <1>2, <1>7 DEF Quiet, Active
<1> QED  BY <1>4, <1>7, <1>8, <1>9 DEF OneRule

(* The steps of a rebuild.  One that begins beside another ends the calm.  *)
LEMMA RebuildCalm ==
  ASSUME TypeInv, CalmInv, NEW d \in Rebuilds, RebuildFull(d)
  PROVE  CalmInv'
<1>t. /\ UNCHANGED timeline /\ rebuild \in [Rebuilds -> RebuildRecords] /\ Len(timeline) \in Nat
  BY Held, Timeline DEF RebuildFull, Request, Flush, FlushFails, Query, Trigger, TriggerFails, Complete
<1>u. Upto' = Upto
  BY <1>t, UptoStays
<1>p. Projection' = Projection
  BY <1>t, <1>u DEF Projection
<1>r. /\ rebuild[d].next \in 1..(Len(timeline) + 1) /\ rebuild[d].upto \in 0..Len(timeline)
      /\ DOMAIN rebuild[d] = {"at", "affair", "tries", "requested", "next", "upto"}
  BY <1>t DEF RebuildRecords
<1>s. SUFFICES ASSUME calm' PROVE (AtRest \/ OneRule \/ \E b \in Rebuilds : Alone(b))'
  BY Zenon DEF CalmInv
<1>1. ~FlushFails(d) /\ ~TriggerFails(d)
  BY <1>s DEF FlushFails, TriggerFails, Fault
<1>2. CASE Request(d)
  <2>1. UNCHANGED <<jobs, store>> /\ rebuild[d].at = "idle"
    BY <1>2 DEF Request
  <2>2. CASE calm' = calm /\ rebuild' = [rebuild EXCEPT ![d].at = "skipped"]
    <3>1. AtRest \/ OneRule \/ \E b \in Rebuilds : Alone(b)
      BY <1>s, <2>2 DEF CalmInv
    <3>2. \A e \in Rebuilds : /\ e # d => rebuild'[e] = rebuild[e]
                              /\ Active(e)' => Active(e)
      BY <1>t, <2>1, <2>2 DEF Active, RebuildRecords
    <3>3. CASE AtRest
      BY <1>p, <2>1, <3>2, <3>3 DEF AtRest, Quiet
    <3>4. CASE OneRule
      <4>1. PICK j \in jobs : jobs = {j} /\ j.span = Len(timeline) /\ Done(j)
        BY <3>4 DEF OneRule
      <4>2. Done(j)'
        BY <1>t, <1>u, <2>1, <4>1 DEF Done, SetKey
      <4>3. \A e \in Rebuilds : ~Active(e)'
        BY <3>2, <3>4 DEF OneRule
      <4> QED  BY <1>t, <2>1, <4>1, <4>2, <4>3 DEF OneRule
    <3>5. ASSUME NEW b \in Rebuilds, Alone(b) PROVE Alone(b)'
      <4>1. rebuild'[b] = rebuild[b]
        BY <2>1, <3>2, <3>5 DEF Alone
      <4>2. \A e \in Rebuilds \ {b} : ~Active(e)'
        BY <3>2, <3>5 DEF Alone
      <4>3. \A j \in jobs : Done(j) => Done(j)'
        BY <1>t, <1>u, <2>1 DEF Done, SetKey
      <4> QED  BY <1>t, <1>u, <2>1, <3>5, <4>1, <4>2, <4>3 DEF Alone, EmptyStore
    <3> QED  BY <3>1, <3>3, <3>4, <3>5
  <2>3. CASE ~(calm' = calm /\ rebuild' = [rebuild EXCEPT ![d].at = "skipped"])
    <3>1. /\ Quiet
          /\ rebuild' = [rebuild EXCEPT ![d].at = "flush", ![d].affair = "started",
                                        ![d].requested = Len(timeline)]
      BY <1>2, <1>s, <2>3 DEF Request
    <3>2. rebuild'[d].at = "flush" /\ \A e \in Rebuilds \ {d} : rebuild'[e] = rebuild[e]
      BY <1>t, <3>1 DEF RebuildRecords
    <3>3. Alone(d)'
      BY <2>1, <3>1, <3>2 DEF Quiet, Alone, Active
    <3> QED  BY <3>3
  <2> QED  BY <2>2, <2>3
<1>3. CASE Flush(d) \/ Query(d) \/ Trigger(d) \/ Complete(d)
  <2>1. Active(d) /\ calm
    BY <1>s, <1>3 DEF Flush, Query, Trigger, Complete, Active
  <2>2. Alone(d)
    <3>1. ~AtRest /\ ~OneRule
      BY <2>1 DEF AtRest, Quiet, OneRule
    <3>2. \A b \in Rebuilds : Alone(b) => b = d
      BY <2>1 DEF Alone
    <3> QED  BY <2>1, <3>1, <3>2 DEF CalmInv
  <2>3. \A e \in Rebuilds \ {d} : rebuild'[e] = rebuild[e]
    BY <1>t, <1>3 DEF Flush, Query, Trigger, Complete
  <2>4. \A e \in Rebuilds \ {d} : ~Active(e)'
    BY <2>2, <2>3 DEF Alone, Active
  <2>5. CASE Flush(d)
    <3>1. rebuild'[d].at = "query" /\ store' = EmptyStore' /\ jobs' = jobs
      BY <1>t, <1>r, <2>5 DEF Flush, EmptyStore
    <3> QED  BY <2>2, <2>4, <2>5, <3>1 DEF Alone, Flush
  <2>6. CASE Query(d)
    <3>1. /\ rebuild'[d].at = "replay" /\ rebuild'[d].upto = Len(timeline)
          /\ rebuild'[d].next = rebuild[d].next /\ UNCHANGED <<store, jobs>>
      BY <1>t, <1>r, <2>6 DEF Query
    <3>2. jobs = {} /\ store = EmptyStore /\ rebuild[d].next = 1
      BY <2>2, <2>6, Held DEF Alone, Query
    <3>3. Upto[0] = EmptyStore
      BY <1>t, UptoUnfolds
    <3> QED  BY <1>t, <1>u, <2>4, <3>1, <3>2, <3>3 DEF Alone
  <2>7. CASE Trigger(d)
    <3>1. /\ rebuild[d].at = "replay" /\ rebuild'[d].at = "replay"
          /\ rebuild'[d].upto = rebuild[d].upto /\ rebuild'[d].next = rebuild[d].next + 1
          /\ jobs' = jobs \cup {Job(rebuild[d].next, d, 0)} /\ store' = store
          /\ rebuild[d].next =< rebuild[d].upto
      BY <1>t, <1>r, <2>7 DEF Trigger
    <3>2. jobs = {} /\ store = Upto[rebuild[d].next - 1] /\ rebuild[d].upto = Len(timeline)
      BY <2>2, <2>7, <3>1 DEF Alone, Trigger, Waits
    <3>3. PICK j : j = Job(rebuild[d].next, d, 0)
      OBVIOUS
    <3>4. jobs' = {j} /\ j.span = rebuild'[d].next - 1 /\ j.by = d /\ j.trigger = 0 /\ j.at = "attempt"
      BY <1>r, <3>1, <3>2, <3>3 DEF Job
    <3>5. j.span = rebuild[d].next
      BY <3>3 DEF Job
    <3>6. Done(j)'
      BY <1>u, <3>1, <3>2, <3>4, <3>5 DEF Done
    <3>7. rebuild'[d].next - 1 \in 0..Len(timeline) /\ rebuild'[d].upto = Len(timeline')
      BY <1>t, <1>r, <3>1, <3>2
    <3> QED  BY <1>t, <2>4, <3>1, <3>4, <3>6, <3>7 DEF Alone
  <2>8. CASE Complete(d)
    <3>1. /\ rebuild[d].at = "replay" /\ rebuild'[d].at = "completed"
          /\ UNCHANGED <<store, jobs>> /\ rebuild[d].next > rebuild[d].upto
      BY <1>t, <1>r, <2>8 DEF Complete
    <3>2. jobs = {} /\ store = Upto[rebuild[d].next - 1] /\ rebuild[d].upto = Len(timeline)
      BY <2>2, <2>8, <3>1 DEF Alone, Complete, Waits
    <3>3. rebuild[d].next - 1 = Len(timeline)
      BY <1>t, <1>r, <3>1, <3>2
    <3>4. ~Active(d)'
      BY <3>1 DEF Active
    <3> QED  BY <1>p, <2>4, <3>1, <3>2, <3>3, <3>4 DEF AtRest, Quiet, Projection
  <2> QED  BY <1>3, <2>5, <2>6, <2>7, <2>8
<1> QED  BY <1>1, <1>2, <1>3 DEF RebuildFull

LEMMA NextCalm ==
  ASSUME TypeInv, CalmInv, [Next]_vars
  PROVE  CalmInv'
<1>1. CASE UNCHANGED vars
  <2>1. UNCHANGED <<timeline, jobs, store, rebuild, calm>> /\ Upto' = Upto
    BY <1>1, UptoStays DEF vars
  <2>2. \A j : Done(j)' <=> Done(j)
    BY <2>1 DEF Done, SetKey
  <2>3. AtRest' <=> AtRest
    BY <2>1 DEF AtRest, Quiet, Active, Projection
  <2>4. OneRule' <=> OneRule
    BY <2>1, <2>2 DEF OneRule, Active
  <2>5. \A b \in Rebuilds : Alone(b)' <=> Alone(b)
    BY <2>1, <2>2 DEF Alone, Active, EmptyStore
  <2> QED  BY <2>1, <2>3, <2>4, <2>5 DEF CalmInv
<1> QED  BY <1>1, ArriveCalm, RuleCalm, RebuildCalm DEF Next

(***************************************************************************)
(* When spans have arrived one at a time, rebuilds have been alone and no  *)
(* call has failed since the start, or since a rebuild began alone, then   *)
(* whenever nothing is under way the store is the projection.              *)
(***************************************************************************)
THEOREM StoreIsFaithful == Spec => []StoreFaithful
<1>1. Init => TypeInv /\ CalmInv
  <2>1. ASSUME Init PROVE AtRest
    <3>1. Len(timeline) = 0 /\ store = EmptyStore /\ Quiet
      BY <2>1, EmptySeq DEF Init, Quiet, Active
    <3>2. Upto[0] = EmptyStore
      BY <3>1, UptoUnfolds
    <3> QED  BY <3>1, <3>2 DEF AtRest, Projection
  <2> QED  BY <2>1, InitType DEF CalmInv
<1>2. TypeInv /\ CalmInv /\ [Next]_vars => TypeInv' /\ CalmInv'
  BY NextType, NextCalm
<1>3. CalmInv => StoreFaithful
  BY DEF CalmInv, AtRest, OneRule, Alone, Active, Quiet, StoreFaithful
<1> QED  BY <1>1, <1>2, <1>3, PTL DEF Spec
=============================================================================
