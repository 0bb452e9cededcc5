------------------------ MODULE FairSchedulerProofs ------------------------
(***************************************************************************)
(* Theorems about the scheduler, for any works, repositories, providers    *)
(* and limits.  Termination of a tick and the absence of starvation are    *)
(* liveness properties and stay with TLC.                                  *)
(***************************************************************************)
EXTENDS FairScheduler, FiniteSetTheorems, TLAPS

(* What appending and removing the head does to the elements of a queue.   *)
LEMMA AppendElements ==
  ASSUME NEW S, NEW s \in Seq(S), NEW x \in S
  PROVE  /\ Append(s, x) \in Seq(S)
         /\ Append(s, x) # <<>>
         /\ Elements(Append(s, x)) = Elements(s) \cup {x}
         /\ Injective(s) /\ x \notin Elements(s) => Injective(Append(s, x))
<1>1. /\ Append(s, x) \in Seq(S)
      /\ Len(Append(s, x)) = Len(s) + 1
      /\ DOMAIN Append(s, x) = 1..(Len(s) + 1)
      /\ DOMAIN s = 1..Len(s) /\ Len(s) \in Nat
      /\ \A i \in 1..Len(s) : Append(s, x)[i] = s[i]
      /\ Append(s, x)[Len(s) + 1] = x
  OBVIOUS
<1>2. Append(s, x) # <<>>
  BY <1>1
<1>3. Elements(Append(s, x)) = Elements(s) \cup {x}
  <2>1. 1..(Len(s) + 1) = 1..Len(s) \cup {Len(s) + 1}
    BY <1>1
  <2>2. QED BY <1>1, <2>1 DEF Elements
<1>4. ASSUME Injective(s), x \notin Elements(s) PROVE Injective(Append(s, x))
  <2>1. SUFFICES ASSUME NEW i \in 1..(Len(s) + 1), NEW j \in 1..(Len(s) + 1),
                        Append(s, x)[i] = Append(s, x)[j]
                 PROVE  i = j
    BY <1>1 DEF Injective
  <2>2. \A k \in 1..Len(s) : s[k] # x
    BY <1>1, <1>4 DEF Elements
  <2>3. CASE i = Len(s) + 1 \/ j = Len(s) + 1
    BY <2>1, <2>2, <2>3, <1>1
  <2>4. CASE i \in 1..Len(s) /\ j \in 1..Len(s)
    BY <2>1, <2>4, <1>1, <1>4 DEF Injective
  <2>5. QED BY <2>3, <2>4, <1>1
<1>5. QED BY <1>1, <1>2, <1>3, <1>4

LEMMA TailElements ==
  ASSUME NEW S, NEW s \in Seq(S), s # <<>>
  PROVE  /\ Tail(s) \in Seq(S) /\ Head(s) \in S
         /\ Elements(s) = Elements(Tail(s)) \cup {Head(s)}
         /\ Injective(s) => Injective(Tail(s)) /\ Head(s) \notin Elements(Tail(s))
<1>1. /\ Tail(s) \in Seq(S) /\ Head(s) \in S
      /\ Len(s) \in Nat \ {0} /\ Head(s) = s[1]
      /\ Len(Tail(s)) = Len(s) - 1
      /\ DOMAIN Tail(s) = 1..(Len(s) - 1)
      /\ DOMAIN s = 1..Len(s)
      /\ \A i \in 1..(Len(s) - 1) : Tail(s)[i] = s[i + 1]
  OBVIOUS
<1>2. \A i \in 1..Len(s) : i = 1 \/ (i - 1 \in 1..(Len(s) - 1) /\ s[i] = Tail(s)[i - 1])
  BY <1>1
<1>3. \A i \in 1..(Len(s) - 1) : i + 1 \in 1..Len(s) /\ 1 \in 1..Len(s) /\ i + 1 # 1
  BY <1>1
<1>4. Elements(s) = Elements(Tail(s)) \cup {Head(s)}
  <2>1. Elements(s) \subseteq Elements(Tail(s)) \cup {Head(s)}
    <3>1. SUFFICES ASSUME NEW i \in 1..Len(s), s[i] # Head(s)
                   PROVE  s[i] \in Elements(Tail(s))
      BY <1>1 DEF Elements
    <3>2. i - 1 \in DOMAIN Tail(s) /\ s[i] = Tail(s)[i - 1]
      BY <1>1, <1>2, <3>1
    <3>3. QED BY <3>2 DEF Elements
  <2>2. Elements(Tail(s)) \cup {Head(s)} \subseteq Elements(s)
    BY <1>1, <1>3 DEF Elements
  <2>3. QED BY <2>1, <2>2
<1>5. ASSUME Injective(s) PROVE Injective(Tail(s)) /\ Head(s) \notin Elements(Tail(s))
  <2>1. Head(s) \notin Elements(Tail(s))
    BY <1>1, <1>3, <1>5 DEF Injective, Elements
  <2>2. Injective(Tail(s))
    BY <1>1, <1>3, <1>5 DEF Injective
  <2>3. QED BY <2>1, <2>2
<1>6. QED BY <1>1, <1>4, <1>5

LEMMA RotateElements ==
  ASSUME NEW S, NEW s \in Seq(S), s # <<>>, Injective(s)
  PROVE  /\ Append(Tail(s), Head(s)) \in Seq(S)
         /\ Elements(Append(Tail(s), Head(s))) = Elements(s)
         /\ Injective(Append(Tail(s), Head(s)))
<1>1. PICK t : t = Tail(s)
  OBVIOUS
<1>2. PICK x : x = Head(s)
  OBVIOUS
<1>3. /\ t \in Seq(S) /\ x \in S
      /\ Elements(s) = Elements(t) \cup {x}
      /\ Injective(t) /\ x \notin Elements(t)
  BY <1>1, <1>2, TailElements
<1>4. /\ Append(t, x) \in Seq(S) /\ Injective(Append(t, x))
      /\ Elements(Append(t, x)) = Elements(t) \cup {x}
  BY <1>3, AppendElements
<1>5. QED BY <1>1, <1>2, <1>3, <1>4

-----------------------------------------------------------------------------
(* Sizes of sets of works.                                                 *)
LEMMA SubsetSize ==
  ASSUME NEW T \in SUBSET Works, NEW S \in SUBSET T
  PROVE  /\ Cardinality(S) \in Nat /\ Cardinality(T) \in Nat
         /\ Cardinality(S) <= Cardinality(T)
<1>1. IsFiniteSet(T)
  BY FS_Subset, WorksType
<1>2. QED BY <1>1, FS_Subset, FS_CardinalityType

LEMMA OneMoreSize ==
  ASSUME NEW S \in SUBSET Works, NEW w \in Works
  PROVE  Cardinality(S \cup {w}) <= Cardinality(S) + 1
<1>1. IsFiniteSet(S)
  BY FS_Subset, WorksType
<1>2. Cardinality(S) \in Nat
  BY <1>1, FS_CardinalityType
<1>3. Cardinality(S \cup {w}) = IF w \in S THEN Cardinality(S) ELSE Cardinality(S) + 1
  BY <1>1, FS_AddElement
<1>4. QED BY <1>2, <1>3

LEMMA LimitsOfFewer ==
  ASSUME active \in SUBSET Works, WithinLimits, active' \subseteq active
  PROVE  WithinLimits'
<1>1. \A T \in SUBSET Works : \A S \in SUBSET T :
        /\ Cardinality(S) \in Nat /\ Cardinality(T) \in Nat
        /\ Cardinality(S) <= Cardinality(T)
  BY SubsetSize
<1>2. \A T \in SUBSET Works : \A S \in SUBSET T : \A n \in Nat :
        Cardinality(T) <= n => Cardinality(S) <= n
  BY <1>1
<1>3. Cardinality(active') <= GlobalLimit
  BY <1>2, LimitsType DEF WithinLimits
<1>4. ASSUME NEW r \in Repos
      PROVE  Cardinality(InRepo(active', r)) <= RepositoryLimit
  <2>1. InRepo(active', r) \subseteq InRepo(active, r) /\ InRepo(active, r) \in SUBSET Works
    BY DEF InRepo
  <2>2. QED BY <2>1, <1>2, LimitsType DEF WithinLimits
<1>5. Cardinality(active' \cap Model) <= ModelLimit
  <2>1. active' \cap Model \subseteq active \cap Model /\ active \cap Model \in SUBSET Works
    OBVIOUS
  <2>2. QED BY <2>1, <1>2, LimitsType DEF WithinLimits
<1>6. ASSUME NEW p \in DOMAIN ProviderLimit
      PROVE  Cardinality(OfProvider(active', p)) <= ProviderLimit[p]
  <2>1. OfProvider(active', p) \subseteq OfProvider(active, p) /\ OfProvider(active, p) \in SUBSET Works
    BY DEF OfProvider
  <2>2. QED BY <2>1, <1>2, LimitsType DEF WithinLimits
<1>7. QED BY <1>3, <1>4, <1>5, <1>6 DEF WithinLimits

(* A dispatched work was eligible, so it fits every limit it counts for.   *)
LEMMA LimitsOfOneMore ==
  ASSUME active \in SUBSET Works, WithinLimits, NEW w \in Works, Eligible(w),
         active' = active \cup {w}
  PROVE  WithinLimits'
<1>1. \A S \in SUBSET Works :
        Cardinality(S) \in Nat /\ Cardinality(S \cup {w}) \in Nat
  BY SubsetSize
<1>2. \A S \in SUBSET Works : \A n \in Nat :
        Cardinality(S) < n => Cardinality(S \cup {w}) <= n
  BY <1>1, OneMoreSize
<1>3. Cardinality(active') <= GlobalLimit
  BY <1>2, LimitsType DEF Eligible
<1>4. ASSUME NEW r \in Repos
      PROVE  Cardinality(InRepo(active', r)) <= RepositoryLimit
  <2>1. CASE RepoOf[w] = r
    <3>1. InRepo(active', r) = InRepo(active, r) \cup {w} /\ InRepo(active, r) \in SUBSET Works
      BY <2>1 DEF InRepo
    <3>2. QED BY <2>1, <3>1, <1>2, LimitsType DEF Eligible
  <2>2. CASE RepoOf[w] # r
    <3>1. InRepo(active', r) = InRepo(active, r)
      BY <2>2 DEF InRepo
    <3>2. QED BY <3>1 DEF WithinLimits
  <2>3. QED BY <2>1, <2>2
<1>5. Cardinality(active' \cap Model) <= ModelLimit
  <2>1. CASE w \in Model
    <3>1. active' \cap Model = (active \cap Model) \cup {w} /\ active \cap Model \in SUBSET Works
      BY <2>1
    <3>2. QED BY <2>1, <3>1, <1>2, LimitsType DEF Eligible
  <2>2. CASE w \notin Model
    <3>1. active' \cap Model = active \cap Model
      BY <2>2
    <3>2. QED BY <3>1 DEF WithinLimits
  <2>3. QED BY <2>1, <2>2
<1>6. ASSUME NEW p \in DOMAIN ProviderLimit
      PROVE  Cardinality(OfProvider(active', p)) <= ProviderLimit[p]
  <2>1. CASE w \in Model /\ ProviderOf[w] = p
    <3>1. OfProvider(active', p) = OfProvider(active, p) \cup {w} /\ OfProvider(active, p) \in SUBSET Works
      BY <2>1 DEF OfProvider
    <3>2. QED BY <2>1, <3>1, <1>2, LimitsType DEF Eligible
  <2>2. CASE ~(w \in Model /\ ProviderOf[w] = p)
    <3>1. OfProvider(active', p) = OfProvider(active, p)
      BY <2>2 DEF OfProvider
    <3>2. QED BY <3>1 DEF WithinLimits
  <2>3. QED BY <2>1, <2>2
<1>7. QED BY <1>3, <1>4, <1>5, <1>6 DEF WithinLimits

-----------------------------------------------------------------------------
(* The inductive invariant: what the runs check, and that a scheduler with  *)
(* unfinished work no longer accepts any and is not in a pass.              *)
Closed == unfinished # {} => ~accepting /\ ~ticking

IInv == TypeOK /\ WithinLimits /\ OnePlace /\ RotationExact /\ Closed

(* What a pass over the active handlers leaves: only stopped handlers go,   *)
(* each with a result, and the identities known shrink by the failed ones.  *)
LEMMA ReapEffect ==
  ASSUME IInv, Reap, UNCHANGED <<queue, rotation, unfinished>>
  PROVE  /\ active' \subseteq active
         /\ \A w \in active \ active' : future[w] # "running"
         /\ WithinLimits' /\ OnePlace' /\ RotationExact'
         /\ known' \in SUBSET Works /\ active' \in SUBSET Works
         /\ results' \in [Works -> {"none", "completed", "timed_out", "failed"}]
         /\ future' \in [Works -> {"none", "running", "returned", "raised"}]
         /\ late' \in SUBSET Works /\ timedOut' \in SUBSET Works
<1> USE DEF IInv
<1> DEFINE done == {w \in active : future[w] # "running"}
           failed == {w \in done : future[w] = "raised"}
<1>1. /\ active' = active \ done /\ known' = known \ failed
      /\ results' = [w \in Works |->
                       IF w \notin done THEN results[w]
                       ELSE IF w \in failed THEN "failed"
                       ELSE IF w \in timedOut THEN "timed_out" ELSE "completed"]
      /\ future' = [w \in Works |-> IF w \in done THEN "none" ELSE future[w]]
  BY DEF Reap
<1>2. /\ late' \in SUBSET Works /\ timedOut' \in SUBSET Works
      /\ known' \in SUBSET Works /\ active' \in SUBSET Works
      /\ results' \in [Works -> {"none", "completed", "timed_out", "failed"}]
      /\ future' \in [Works -> {"none", "running", "returned", "raised"}]
  <2>1. late' \in SUBSET Works /\ timedOut' \in SUBSET Works
    BY DEF Reap, TypeOK
  <2>2. known' \in SUBSET Works /\ active' \in SUBSET Works
    BY <1>1 DEF TypeOK
  <2>3. /\ results' \in [Works -> {"none", "completed", "timed_out", "failed"}]
        /\ future' \in [Works -> {"none", "running", "returned", "raised"}]
    BY <1>1 DEF TypeOK
  <2>4. QED BY <2>1, <2>2, <2>3
<1>3. active' \subseteq active /\ \A w \in active \ active' : future[w] # "running"
  BY <1>1
<1>4. WithinLimits'
  BY <1>3, LimitsOfFewer DEF TypeOK
<1>5. RotationExact'
  BY DEF RotationExact, Elements, Injective
<1>6. OnePlace'
  <2>1. Queued' = Queued
    BY DEF Queued
  <2>2. \A w \in Queued : w \notin done
    BY DEF OnePlace
  <2>3. \A w \in Queued \cup active' : results'[w] = "none"
    <3>1. \A w \in Queued \cup active' : w \in Works /\ w \notin done
      BY <1>1, <2>2 DEF TypeOK, Queued, Elements
    <3>2. QED BY <1>1, <3>1 DEF OnePlace
  <2>4. ASSUME unfinished = {}
        PROVE  known' = Queued \cup active'
                          \cup {w \in Works : results'[w] \in {"completed", "timed_out"}}
    <3>1. \A w \in Works : results'[w] \in {"completed", "timed_out"}
                          <=> \/ w \in done \ failed
                              \/ w \notin done /\ results[w] \in {"completed", "timed_out"}
      BY <1>1
    <3>2. \A w \in active : w \in Works /\ results[w] = "none"
      BY DEF OnePlace, TypeOK
    <3>3. known = Queued \cup active \cup {w \in Works : results[w] \in {"completed", "timed_out"}}
      BY <2>4 DEF OnePlace
    <3>4. QED BY <1>1, <2>2, <3>1, <3>2, <3>3
  <2>5. QED BY <1>3, <2>1, <2>3, <2>4 DEF OnePlace, Elements, Injective
<1>7. QED BY <1>2, <1>3, <1>4, <1>5, <1>6

LEMMA SubmitStep ==
  ASSUME IInv, NEW w \in Works, Submit(w)
  PROVE  IInv'
<1> DEFINE R == RepoOf[w]
<1> USE DEF IInv
<1>1. /\ w \notin known /\ unfinished = {} /\ R \in Repos
      /\ known' = known \cup {w} /\ active' = active /\ unfinished' = {}
      /\ results' = [results EXCEPT ![w] = "none"]
      /\ queue' = [queue EXCEPT ![R] = Append(@, w)]
      /\ rotation' = IF R \in Elements(rotation) THEN rotation ELSE Append(rotation, R)
      /\ queue \in [Repos -> Seq(Works)] /\ rotation \in Seq(Repos)
  BY WorksType DEF Submit, Closed, TypeOK
<1>2. w \notin Queued /\ w \notin active
  BY <1>1 DEF OnePlace
<1>3. /\ queue'[R] \in Seq(Works) /\ queue'[R] # <<>>
      /\ Elements(queue'[R]) = Elements(queue[R]) \cup {w}
      /\ Injective(queue'[R])
  <2>1. queue'[R] = Append(queue[R], w) /\ queue[R] \in Seq(Works)
    BY <1>1
  <2>2. w \notin Elements(queue[R]) /\ Injective(queue[R])
    BY <1>1, <1>2 DEF OnePlace, Queued
  <2>3. QED BY <2>1, <2>2, AppendElements
<1>4. \A r \in Repos : r # R => queue'[r] = queue[r]
  BY <1>1
<1>5. /\ rotation' \in Seq(Repos) /\ Injective(rotation')
      /\ Elements(rotation') = Elements(rotation) \cup {R}
  BY <1>1, AppendElements DEF RotationExact
<1>6. TypeOK'
  <2>1. queue' \in [Repos -> Seq(Works)]
    BY <1>1, <1>3, <1>4
  <2>2. QED BY <1>1, <1>5, <2>1 DEF TypeOK, Submit
<1>7. WithinLimits'
  BY <1>1, LimitsOfFewer DEF TypeOK
<1>8. RotationExact'
  <2>1. {r \in Repos : queue'[r] # <<>>} = {r \in Repos : queue[r] # <<>>} \cup {R}
    BY <1>1, <1>3, <1>4
  <2>2. QED BY <1>5, <2>1 DEF RotationExact
<1>9. OnePlace'
  <2>1. Queued' = Queued \cup {w}
    <3>1. \A r \in Repos : r # R => Elements(queue'[r]) = Elements(queue[r])
      BY <1>4
    <3>2. Elements(queue'[R]) = Elements(queue[R]) \cup {w}
      BY <1>3
    <3>3. HIDE DEF R
    <3>4. QED BY <1>1, <3>1, <3>2, Zenon DEF Queued
  <2>2. \A r \in Repos : /\ Injective(queue'[r])
                         /\ \A v \in Elements(queue'[r]) : RepoOf[v] = r
    BY <1>1, <1>3, <1>4 DEF OnePlace
  <2>3. Queued' \cap active' = {}
    BY <1>1, <1>2, <2>1 DEF OnePlace
  <2>4. \A v \in Queued' \cup active' : results'[v] = "none"
    BY <1>1, <2>1 DEF OnePlace, TypeOK
  <2>5. known' = Queued' \cup active'
                   \cup {v \in Works : results'[v] \in {"completed", "timed_out"}}
    <3>1. known = Queued \cup active
                    \cup {v \in Works : results[v] \in {"completed", "timed_out"}}
      BY <1>1 DEF OnePlace
    <3>2. \A v \in Works : v # w => results'[v] = results[v]
      BY <1>1 DEF TypeOK
    <3>3. QED BY <1>1, <2>1, <2>4, <3>1, <3>2
  <2>6. QED BY <2>2, <2>3, <2>4, <2>5 DEF OnePlace
<1>10. Closed'
  BY <1>1 DEF Closed
<1>11. QED BY <1>6, <1>7, <1>8, <1>9, <1>10

LEMMA AcknowledgeStep ==
  ASSUME IInv, AcknowledgeCompleted
  PROVE  IInv'
<1> USE DEF IInv, AcknowledgeCompleted
<1>1. TypeOK'
  BY DEF TypeOK
<1>2. WithinLimits'
  BY LimitsOfFewer DEF TypeOK
<1>3. RotationExact' /\ Closed'
  BY DEF RotationExact, Closed, Elements, Injective
<1>4. OnePlace'
  <2>1. Queued' = Queued
    BY DEF Queued
  <2>2. \A w \in Queued \cup active : w \in Works /\ results[w] = "none"
    BY DEF Queued, OnePlace, TypeOK, Elements
  <2>3. \A w \in Works : results'[w] = "none"
    OBVIOUS
  <2>4. unfinished = {} => known' = Queued \cup active
    BY <2>2 DEF OnePlace
  <2>5. QED BY <2>1, <2>2, <2>3, <2>4 DEF OnePlace, Elements, Injective
<1>5. QED BY <1>1, <1>2, <1>3, <1>4

LEMMA SkipStep ==
  ASSUME IInv, Skip
  PROVE  IInv'
<1> USE DEF IInv
<1>1. /\ rotation \in Seq(Repos) /\ rotation # <<>>
      /\ rotation' = Append(Tail(rotation), Head(rotation))
      /\ skipped \in Nat
  BY DEF Skip, Looping, TypeOK
<1>2. /\ rotation' \in Seq(Repos) /\ Injective(rotation')
      /\ Elements(rotation') = Elements(rotation)
  BY <1>1, RotateElements DEF RotationExact
<1>3. TypeOK'
  BY <1>2 DEF Skip, TypeOK
<1>4. WithinLimits' /\ Closed'
  BY LimitsOfFewer DEF Skip, TypeOK, Closed
<1>5. RotationExact'
  BY <1>2 DEF Skip, RotationExact
<1>6. OnePlace'
  BY DEF Skip, OnePlace, Queued, Elements, Injective
<1>7. QED BY <1>3, <1>4, <1>5, <1>6

LEMMA DispatchStep ==
  ASSUME IInv, Dispatch, unfinished = {}
  PROVE  IInv'
<1> DEFINE r == Head(rotation)
           w == Head(queue[r])
<1> USE DEF IInv
<1>1. /\ rotation \in Seq(Repos) /\ rotation # <<>> /\ r \in Repos
      /\ queue \in [Repos -> Seq(Works)] /\ queue[r] # <<>> /\ w \in Works
      /\ Eligible(w)
      /\ queue' = [queue EXCEPT ![r] = Tail(@)]
      /\ rotation' = IF Tail(queue[r]) = <<>> THEN Tail(rotation) ELSE Append(Tail(rotation), r)
      /\ active' = active \cup {w}
      /\ future' = [future EXCEPT ![w] = "running"]
      /\ UNCHANGED <<known, results, accepting, late, timedOut, ticking, unfinished>>
  <2>1. rotation \in Seq(Repos) /\ rotation # <<>> /\ queue \in [Repos -> Seq(Works)]
    BY DEF Dispatch, Looping, TypeOK
  <2>2. r \in Repos
    BY <2>1, TailElements
  <2>3. queue[r] # <<>> /\ queue[r] \in Seq(Works)
    BY <2>1, <2>2 DEF Dispatch
  <2>4. w \in Works
    BY <2>3, TailElements
  <2>5. QED BY <2>1, <2>2, <2>3, <2>4 DEF Dispatch
<1>2. /\ Tail(queue[r]) \in Seq(Works) /\ Injective(Tail(queue[r]))
      /\ Elements(queue[r]) = Elements(Tail(queue[r])) \cup {w}
      /\ w \notin Elements(Tail(queue[r]))
  <2>1. queue[r] \in Seq(Works) /\ Injective(queue[r])
    BY <1>1 DEF OnePlace
  <2>2. QED BY <1>1, <2>1, TailElements
<1>3. /\ Tail(rotation) \in Seq(Repos) /\ Injective(Tail(rotation))
      /\ Elements(rotation) = Elements(Tail(rotation)) \cup {r}
      /\ r \notin Elements(Tail(rotation))
  BY <1>1, TailElements DEF RotationExact
<1>4. queue'[r] = Tail(queue[r]) /\ \A s \in Repos : s # r => queue'[s] = queue[s]
  BY <1>1
<1>5. w \in Queued /\ RepoOf[w] = r /\ Queued' = Queued \ {w}
  <2>1. w \in Elements(queue[r]) /\ RepoOf[w] = r
    BY <1>1, <1>2 DEF OnePlace
  <2>2. \A s \in Repos : s # r => w \notin Elements(queue[s])
    BY <1>1, <2>1 DEF OnePlace
  <2>3. \A s \in Repos : Elements(queue'[s]) = Elements(queue[s]) \ {w}
    BY <1>1, <1>2, <1>4, <2>2
  <2>4. QED BY <1>1, <2>1, <2>3 DEF Queued
<1>6. TypeOK'
  <2>1. rotation' \in Seq(Repos)
    BY <1>1, <1>3, RotateElements DEF RotationExact
  <2>2. queue' \in [Repos -> Seq(Works)]
    BY <1>1, <1>2
  <2>3. active' \in SUBSET Works /\ future' \in [Works -> {"none", "running", "returned", "raised"}]
    BY <1>1 DEF TypeOK
  <2>4. QED BY <1>1, <2>1, <2>2, <2>3 DEF TypeOK, Dispatch
<1>7. WithinLimits'
  BY <1>1, LimitsOfOneMore DEF TypeOK
<1>8. RotationExact'
  <2>1. CASE Tail(queue[r]) = <<>>
    <3>1. {s \in Repos : queue'[s] # <<>>} = {s \in Repos : queue[s] # <<>>} \ {r}
      BY <1>4, <2>1
    <3>2. QED BY <1>1, <1>3, <2>1, <3>1 DEF RotationExact
  <2>2. CASE Tail(queue[r]) # <<>>
    <3>1. {s \in Repos : queue'[s] # <<>>} = {s \in Repos : queue[s] # <<>>}
      BY <1>1, <1>4, <2>2
    <3>2. rotation' = Append(Tail(rotation), r)
      BY <1>1, <2>2
    <3>3. /\ Injective(Append(Tail(rotation), r))
          /\ Elements(Append(Tail(rotation), r)) = Elements(rotation)
      BY <1>1, RotateElements DEF RotationExact
    <3>4. QED BY <1>3, <3>1, <3>2, <3>3 DEF RotationExact
  <2>3. QED BY <2>1, <2>2
<1>9. OnePlace'
  <2>1. \A s \in Repos : /\ Injective(queue'[s])
                         /\ \A v \in Elements(queue'[s]) : RepoOf[v] = s
    BY <1>1, <1>2, <1>4 DEF OnePlace
  <2>2. Queued' \cap active' = {}
    BY <1>1, <1>5 DEF OnePlace
  <2>3. Queued' \cup active' = Queued \cup active
    BY <1>1, <1>5
  <2>4. QED BY <1>1, <2>1, <2>2, <2>3 DEF OnePlace
<1>10. Closed'
  BY <1>1 DEF Closed
<1>11. QED BY <1>6, <1>7, <1>8, <1>9, <1>10

(* A pass over the active handlers in which nothing is queued or dropped.  *)
LEMMA ReapingStep ==
  ASSUME IInv, Reap, UNCHANGED <<queue, rotation, accepting, unfinished>>,
         ticking' \in BOOLEAN, unfinished # {} => ~ticking', skipped' \in Nat
  PROVE  IInv'
<1>1. TypeOK'
  BY ReapEffect DEF TypeOK, IInv
<1>2. Closed'
  BY DEF Closed, IInv
<1>3. QED BY <1>1, <1>2, ReapEffect DEF IInv

LEMMA ShutdownStep ==
  ASSUME IInv, Shutdown
  PROVE  IInv'
<1> USE DEF IInv
<1>1. /\ Reap /\ ~ticking /\ unfinished = {} /\ accepting' = FALSE
      /\ unfinished' = active' \cup Queued
      /\ queue' = [r \in Repos |-> <<>>] /\ rotation' = <<>>
      /\ UNCHANGED <<ticking, skipped>>
  BY DEF Shutdown
<1> DEFINE done == {w \in active : future[w] # "running"}
           failed == {w \in done : future[w] = "raised"}
<1>2. /\ active' = active \ done /\ known' = known \ failed
      /\ results' = [w \in Works |->
                       IF w \notin done THEN results[w]
                       ELSE IF w \in failed THEN "failed"
                       ELSE IF w \in timedOut THEN "timed_out" ELSE "completed"]
      /\ future' = [w \in Works |-> IF w \in done THEN "none" ELSE future[w]]
      /\ late' = late \ done
  BY <1>1 DEF Reap
<1>3. timedOut' \in SUBSET Works
  BY <1>1 DEF Reap, TypeOK
<1>4. /\ Queued \in SUBSET Works /\ Queued' = {} /\ Queued \cap active = {}
      /\ \A r \in Repos : Elements(queue'[r]) = {} /\ Injective(queue'[r])
  BY <1>1 DEF Queued, Elements, TypeOK, OnePlace, Injective
<1>5. TypeOK'
  <2>1. /\ results' \in [Works -> {"none", "completed", "timed_out", "failed"}]
        /\ future' \in [Works -> {"none", "running", "returned", "raised"}]
    BY <1>2 DEF TypeOK
  <2>2. active' \in SUBSET Works /\ known' \in SUBSET Works /\ late' \in SUBSET Works
    BY <1>2 DEF TypeOK
  <2>3. queue' \in [Repos -> Seq(Works)] /\ rotation' \in Seq(Repos)
    BY <1>1
  <2>4. QED BY <1>1, <1>3, <1>4, <2>1, <2>2, <2>3 DEF TypeOK
<1>6. WithinLimits'
  BY <1>2, LimitsOfFewer DEF TypeOK
<1>7. RotationExact'
  BY <1>1 DEF RotationExact, Injective, Elements
<1>8. OnePlace'
  <2>1. \A w \in active' : results'[w] = "none"
    BY <1>2 DEF TypeOK, OnePlace
  <2>2. ASSUME unfinished' = {}
        PROVE  known' = active' \cup {w \in Works : results'[w] \in {"completed", "timed_out"}}
    <3>1. active' = {} /\ Queued = {}
      BY <1>1, <2>2
    <3>2. known = active \cup {w \in Works : results[w] \in {"completed", "timed_out"}}
      BY <1>1, <3>1 DEF OnePlace
    <3>3. \A w \in active : w \in Works /\ w \in done /\ results[w] = "none"
      BY <1>2, <3>1 DEF OnePlace, TypeOK
    <3>4. \A w \in Works : results'[w] \in {"completed", "timed_out"}
                          <=> \/ w \in done \ failed
                              \/ w \notin done /\ results[w] \in {"completed", "timed_out"}
      BY <1>2
    <3>5. QED BY <1>2, <3>1, <3>2, <3>3, <3>4
  <2>3. QED BY <1>4, <2>1, <2>2 DEF OnePlace
<1>9. Closed'
  BY <1>1 DEF Closed
<1>10. QED BY <1>5, <1>6, <1>7, <1>8, <1>9

(* Steps that touch none of the collections.                               *)
LEMMA UnaffectedStep ==
  ASSUME IInv, UNCHANGED <<queue, rotation, active, known, results, unfinished>>,
         accepting' \in BOOLEAN, accepting' => accepting,
         future' \in [Works -> {"none", "running", "returned", "raised"}],
         late' \in SUBSET Works, timedOut' \in SUBSET Works,
         ticking' \in BOOLEAN, unfinished # {} => ~ticking', skipped' \in Nat
  PROVE  IInv'
<1> USE DEF IInv
<1>1. TypeOK' /\ Closed'
  BY DEF TypeOK, Closed
<1>2. WithinLimits'
  BY LimitsOfFewer DEF TypeOK
<1>3. RotationExact'
  BY DEF RotationExact, Injective, Elements
<1>4. OnePlace'
  <2>1. Queued' = Queued
    BY DEF Queued
  <2>2. QED BY <2>1 DEF OnePlace, Injective, Elements
<1>5. QED BY <1>1, <1>2, <1>3, <1>4

LEMMA InductiveStep == IInv /\ [Next]_vars => IInv'
<1>1. SUFFICES ASSUME IInv, [Next]_vars PROVE IInv'
  OBVIOUS
<1>2. CASE UNCHANGED vars
  BY <1>1, <1>2, UnaffectedStep DEF IInv, Closed, vars, TypeOK
<1>3. ASSUME NEW w \in Works, Submit(w) PROVE IInv'
  BY <1>1, <1>3, SubmitStep
<1>4. ASSUME NEW w \in Works, NEW how \in {"returned", "raised"}, Finish(w, how) PROVE IInv'
  BY <1>1, <1>4, UnaffectedStep DEF IInv, Closed, Finish, TypeOK
<1>5. ASSUME NEW w \in Works, DeadlinePasses(w) PROVE IInv'
  BY <1>1, <1>5, UnaffectedStep DEF IInv, Closed, DeadlinePasses, TypeOK
<1>6. CASE Snapshot
  BY <1>1, <1>6, ReapingStep DEF Snapshot, IInv, Closed, TypeOK
<1>7. CASE AcknowledgeCompleted
  BY <1>1, <1>7, AcknowledgeStep
<1>8. CASE Tick
  <2>1. CASE BeginTick
    BY <1>1, <2>1, ReapingStep DEF BeginTick
  <2>2. CASE Skip
    BY <1>1, <2>2, SkipStep
  <2>3. CASE Dispatch
    <3>1. unfinished = {}
      BY <1>1, <2>3 DEF Dispatch, IInv, Closed
    <3>2. QED BY <1>1, <2>3, <3>1, DispatchStep
  <2>4. CASE EndTick
    BY <1>1, <2>4, UnaffectedStep DEF IInv, Closed, EndTick, TypeOK
  <2>5. QED BY <1>8, <2>1, <2>2, <2>3, <2>4 DEF Tick
<1>9. CASE CloseIntake
  BY <1>1, <1>9, UnaffectedStep DEF IInv, Closed, CloseIntake, TypeOK
<1>10. CASE Shutdown
  BY <1>1, <1>10, ShutdownStep
<1>11. QED
  BY <1>1, <1>2, <1>3, <1>4, <1>5, <1>6, <1>7, <1>8, <1>9, <1>10 DEF Next, Serve

LEMMA InitInductive == Init => IInv
<1>1. SUFFICES ASSUME Init PROVE IInv
  OBVIOUS
<1> USE <1>1 DEF Init
<1>2. TypeOK
  <2>1. queue \in [Repos -> Seq(Works)] /\ rotation \in Seq(Repos) /\ skipped \in Nat
    OBVIOUS
  <2>2. /\ results \in [Works -> {"none", "completed", "timed_out", "failed"}]
        /\ future \in [Works -> {"none", "running", "returned", "raised"}]
    OBVIOUS
  <2>3. QED BY <2>1, <2>2 DEF TypeOK
<1>3. WithinLimits
  <2>1. Cardinality({}) = 0
    BY FS_EmptySet
  <2>2. active = {} /\ active \cap Model = {}
        /\ (\A r \in Repos : InRepo(active, r) = {})
        /\ (\A p \in DOMAIN ProviderLimit : OfProvider(active, p) = {})
    BY DEF InRepo, OfProvider
  <2>3. GlobalLimit >= 0 /\ RepositoryLimit >= 0 /\ ModelLimit >= 0
        /\ (\A p \in DOMAIN ProviderLimit : ProviderLimit[p] >= 0)
    BY LimitsType
  <2>4. QED BY <2>1, <2>2, <2>3 DEF WithinLimits
<1>4. OnePlace /\ RotationExact
  BY DEF OnePlace, RotationExact, Queued, Elements, Injective
<1>5. Closed
  BY DEF Closed
<1>6. QED BY <1>2, <1>3, <1>4, <1>5 DEF IInv

-----------------------------------------------------------------------------
(* The inductive invariant holds in every reachable state.                 *)
THEOREM Inductive == Spec => []IInv
<1>1. QED BY InitInductive, InductiveStep, PTL DEF Spec

(* The scheduler's variables always have their types.                      *)
THEOREM TypeCorrect == Spec => []TypeOK
<1>1. IInv => TypeOK
  BY DEF IInv
<1>2. QED BY <1>1, Inductive, PTL

(* Global, repository, model and provider limits hold for any numbers of    *)
(* works, repositories and slots.                                           *)
THEOREM LimitsHold == Spec => []WithinLimits
<1>1. IInv => WithinLimits
  BY DEF IInv
<1>2. QED BY <1>1, Inductive, PTL

(* No work identity is ever live twice.                                    *)
THEOREM IdentitiesUnique == Spec => []OnePlace
<1>1. IInv => OnePlace
  BY DEF IInv
<1>2. QED BY <1>1, Inductive, PTL

(* The rotation never loses or repeats a repository with queued work.      *)
THEOREM RotationComplete == Spec => []RotationExact
<1>1. IInv => RotationExact
  BY DEF IInv
<1>2. QED BY <1>1, Inductive, PTL

(* Capacity is only given up by a handler observed stopped.                *)
THEOREM SlotsHeld == Spec => SlotHeldUntilStopped
<1>1. IInv /\ [Next]_vars => [\A w \in active \ active' : future[w] # "running"]_vars
  <2>1. SUFFICES ASSUME IInv, Next, NEW w \in active \ active'
                 PROVE  future[w] # "running"
    BY DEF vars
  <2>2. CASE Reap
    BY <2>1, <2>2 DEF Reap
  <2>3. CASE active \subseteq active'
    BY <2>1, <2>3
  <2>4. QED
    BY <2>1, <2>2, <2>3 DEF Next, Serve, Tick, Submit, CloseIntake, Finish, DeadlinePasses,
       Snapshot, AcknowledgeCompleted, BeginTick, Skip, Dispatch, EndTick, Shutdown
<1>2. QED BY <1>1, Inductive, PTL DEF Spec, SlotHeldUntilStopped

-----------------------------------------------------------------------------
(* What a pass has skipped stands at the end of the rotation, and could not *)
(* run: within a pass a slot is only taken, and then the count starts again.*)
Turned ==
  ticking =>
    \A i \in DOMAIN rotation :
      i > Len(rotation) - skipped => ~Eligible(Head(queue[rotation[i]]))

(* Every step keeps it.                                                     *)
LEMMA TurnedStep ==
  ASSUME IInv, Turned, [Next]_vars
  PROVE  Turned'
<1>1. rotation \in Seq(Repos) /\ skipped \in Nat
  BY DEF IInv, TypeOK
<1>2. ASSUME skipped' = 0, rotation' \in Seq(Repos)
      PROVE  Turned'
  <2>1. /\ Len(rotation') \in Nat /\ DOMAIN rotation' = 1..Len(rotation')
    BY <1>2
  <2>2. QED BY <1>2, <2>1 DEF Turned
<1>3. ASSUME UNCHANGED <<queue, rotation, active, skipped>>, ticking' => ticking
      PROVE  Turned'
  <2>1. \A w : Eligible(w)' <=> Eligible(w)
    BY <1>3 DEF Eligible
  <2>2. QED BY <1>3, <2>1 DEF Turned
<1>4. CASE Skip
  <2>1. /\ rotation # <<>> /\ rotation' = Append(Tail(rotation), Head(rotation))
        /\ skipped' = skipped + 1 /\ ticking /\ UNCHANGED <<queue, active>>
        /\ ~Eligible(Head(queue[Head(rotation)]))
    BY <1>4 DEF Skip, Looping
  <2>2. \A w : Eligible(w)' <=> Eligible(w)
    BY <2>1 DEF Eligible
  <2> DEFINE n == Len(rotation)
  <2>3. /\ n \in Nat \ {0} /\ Len(rotation') = n /\ DOMAIN rotation' = 1..n
        /\ DOMAIN rotation = 1..n /\ rotation'[n] = Head(rotation)
        /\ \A i \in 1..(n - 1) : rotation'[i] = rotation[i + 1]
    BY <1>1, <2>1
  <2>4. ASSUME NEW i \in 1..n, i > n - (skipped + 1)
        PROVE  ~Eligible(Head(queue[rotation'[i]]))
    <3>1. CASE i = n
      BY <2>1, <2>3, <3>1
    <3>2. CASE i # n
      <4>1. n \in Nat /\ DOMAIN rotation = 1..n
        BY <2>3
      <4> HIDE DEF n
      <4>2. i \in 1..(n - 1) /\ i + 1 \in 1..n /\ i + 1 > n - skipped
        BY <1>1, <2>4, <3>2, <4>1
      <4>3. ~Eligible(Head(queue[rotation[i + 1]]))
        BY <2>1, <4>1, <4>2 DEF Turned, n
      <4>4. QED BY <2>3, <4>2, <4>3
    <3>3. QED BY <3>1, <3>2
  <2>5. QED BY <2>1, <2>2, <2>3, <2>4 DEF Turned
<1>5. CASE Dispatch \/ BeginTick
  <2>1. IInv'
    BY InductiveStep
  <2>2. QED BY <1>2, <1>5, <2>1 DEF Dispatch, BeginTick, IInv, TypeOK
<1>6. CASE \/ Snapshot \/ Shutdown \/ CloseIntake \/ AcknowledgeCompleted
           \/ \E w \in Works : Submit(w)
  BY <1>6 DEF Snapshot, Shutdown, CloseIntake, AcknowledgeCompleted, Submit, Turned
<1>7. CASE \/ EndTick \/ UNCHANGED vars \/ \E w \in Works : DeadlinePasses(w)
           \/ \E w \in Works, how \in {"returned", "raised"} : Finish(w, how)
  BY <1>3, <1>7 DEF EndTick, vars, DeadlinePasses, Finish
<1>8. QED BY <1>4, <1>5, <1>6, <1>7 DEF Next, Serve, Tick

(* So it holds always.                                                      *)
LEMMA AlwaysTurned == Spec => []Turned
<1>1. Init => Turned
  BY DEF Init, Turned
<1>2. IInv /\ Turned /\ [Next]_vars => Turned'
  BY TurnedStep
<1>3. QED BY <1>1, <1>2, Inductive, PTL DEF Spec

(* A pass ends only when no queue has a head that could run, for any        *)
(* repositories and limits and whatever order the rotation met them in      *)
(* (tick).                                                                  *)
THEOREM PassesConserveWork == Spec => WorkConserving
<1>1. IInv /\ Turned /\ [Next]_vars =>
        [ticking /\ ~ticking' =>
           \A r \in Repos : queue[r] # <<>> => ~Eligible(Head(queue[r]))]_vars
  <2>1. SUFFICES ASSUME IInv, Turned, Next, ticking, ~ticking',
                        NEW r \in Repos, queue[r] # <<>>
                 PROVE  ~Eligible(Head(queue[r]))
    OBVIOUS
  <2>2. /\ rotation \in Seq(Repos) /\ skipped \in Nat
        /\ \E i \in DOMAIN rotation : rotation[i] = r
    BY <2>1 DEF IInv, TypeOK, RotationExact, Elements
  <2>3. CASE Skip
    <3>1. /\ rotation # <<>> /\ ~(skipped + 1 < Len(rotation))
          /\ ~Eligible(Head(queue[Head(rotation)]))
      BY <2>1, <2>3 DEF Skip, Looping
    <3>2. /\ Len(rotation) \in Nat /\ DOMAIN rotation = 1..Len(rotation)
          /\ rotation[1] = Head(rotation)
      BY <2>2, <3>1
    <3>3. PICK i \in DOMAIN rotation : rotation[i] = r
      BY <2>2
    <3>4. CASE i = 1
      BY <3>1, <3>2, <3>3, <3>4
    <3>5. CASE i # 1
      <4>1. i > Len(rotation) - skipped
        BY <2>2, <3>1, <3>2, <3>3, <3>5
      <4>2. QED BY <2>1, <3>3, <4>1 DEF Turned
    <3>6. QED BY <3>4, <3>5
  <2>4. CASE EndTick
    <3>1. rotation # <<>>
      BY <2>2
    <3>2. ~(Cardinality(active) < GlobalLimit)
      BY <2>4, <3>1 DEF EndTick, Looping
    <3>3. QED BY <3>2 DEF Eligible
  <2>5. QED
    BY <2>1, <2>3, <2>4
    DEF Next, Serve, Tick, Submit, CloseIntake, Finish, DeadlinePasses, Snapshot, AcknowledgeCompleted,
        BeginTick, Dispatch, Shutdown
<1>2. QED BY <1>1, Inductive, AlwaysTurned, PTL DEF Spec, WorkConserving

-----------------------------------------------------------------------------
(* The order of a sequence when something is appended to it.               *)
LEMMA PairsOfAppend ==
  ASSUME NEW S, NEW s \in Seq(S), NEW x \in S
  PROVE  Pairs(Append(s, x)) = Pairs(s) \cup (Elements(s) \X {x})
<1> DEFINE t == Append(s, x)
           n == Len(s)
<1>1. /\ n \in Nat /\ DOMAIN s = 1..n /\ DOMAIN t = 1..(n + 1)
      /\ \A i \in 1..n : t[i] = s[i]
      /\ t[n + 1] = x
  OBVIOUS
<1>2. Elements(t) = Elements(s) \cup {x}
  BY AppendElements
<1> HIDE DEF t, n
<1>3. Pairs(s) \cup (Elements(s) \X {x}) \subseteq Pairs(t)
  <2>1. ASSUME NEW j \in 1..n, NEW i \in 1..(j - 1)
        PROVE  <<s[i], s[j]>> \in Pairs(t)
    <3>1. i \in 1..n /\ j \in 1..(n + 1) /\ t[i] = s[i] /\ t[j] = s[j]
      BY <1>1
    <3>2. s[i] \in Elements(s) /\ s[j] \in Elements(s)
      BY <1>1, <3>1 DEF Elements
    <3>3. QED BY <1>1, <1>2, <3>1, <3>2 DEF Pairs
  <2>2. ASSUME NEW i \in 1..n
        PROVE  <<s[i], x>> \in Pairs(t)
    <3>1. n + 1 \in 1..(n + 1) /\ i \in 1..((n + 1) - 1) /\ t[i] = s[i] /\ t[n + 1] = x
      BY <1>1
    <3>2. s[i] \in Elements(s)
      BY <1>1 DEF Elements
    <3>3. QED BY <1>1, <1>2, <3>1, <3>2 DEF Pairs
  <2>3. QED BY <1>1, <2>1, <2>2 DEF Pairs, Elements
<1>4. Pairs(t) \subseteq Pairs(s) \cup (Elements(s) \X {x})
  <2>1. SUFFICES ASSUME NEW j \in 1..(n + 1), NEW i \in 1..(j - 1)
                 PROVE  <<t[i], t[j]>> \in Pairs(s) \cup (Elements(s) \X {x})
    BY <1>1 DEF Pairs
  <2>2. i \in 1..n /\ t[i] = s[i] /\ s[i] \in Elements(s)
    BY <1>1 DEF Elements
  <2>3. CASE j = n + 1
    BY <1>1, <2>2, <2>3
  <2>4. CASE j # n + 1
    <3>1. j \in 1..n /\ t[j] = s[j] /\ s[j] \in Elements(s)
      BY <1>1, <2>4 DEF Elements
    <3>2. QED BY <1>1, <2>2, <3>1 DEF Pairs
  <2>5. QED BY <2>3, <2>4
<1>5. QED BY <1>3, <1>4 DEF t

(* The head comes before all others, and without it the order is the same. *)
LEMMA PairsOfTail ==
  ASSUME NEW S, NEW s \in Seq(S), s # <<>>
  PROVE  Pairs(s) = Pairs(Tail(s)) \cup ({Head(s)} \X Elements(Tail(s)))
<1> DEFINE t == Tail(s)
           x == Head(s)
           n == Len(s)
<1>1. /\ n \in Nat \ {0} /\ DOMAIN s = 1..n /\ DOMAIN t = 1..(n - 1)
      /\ \A i \in 1..(n - 1) : t[i] = s[i + 1]
      /\ s[1] = x
  OBVIOUS
<1>2. Elements(s) = Elements(t) \cup {x}
  BY TailElements
<1> HIDE DEF t, x, n
<1>3. Pairs(t) \cup ({x} \X Elements(t)) \subseteq Pairs(s)
  <2>1. ASSUME NEW j \in 1..(n - 1), NEW i \in 1..(j - 1)
        PROVE  <<t[i], t[j]>> \in Pairs(s)
    <3>1. /\ i \in 1..(n - 1) /\ i + 1 \in 1..((j + 1) - 1) /\ j + 1 \in 1..n
          /\ t[i] = s[i + 1] /\ t[j] = s[j + 1]
      BY <1>1
    <3>2. t[i] \in Elements(s) /\ t[j] \in Elements(s)
      BY <1>1, <1>2, <3>1 DEF Elements
    <3>3. QED BY <1>1, <3>1, <3>2 DEF Pairs
  <2>2. ASSUME NEW j \in 1..(n - 1)
        PROVE  <<x, t[j]>> \in Pairs(s)
    <3>1. 1 \in 1..((j + 1) - 1) /\ j + 1 \in 1..n /\ t[j] = s[j + 1]
      BY <1>1
    <3>2. x \in Elements(s) /\ t[j] \in Elements(s)
      BY <1>1, <1>2 DEF Elements
    <3>3. QED BY <1>1, <3>1, <3>2 DEF Pairs
  <2>3. QED BY <1>1, <2>1, <2>2 DEF Pairs, Elements
<1>4. Pairs(s) \subseteq Pairs(t) \cup ({x} \X Elements(t))
  <2>1. SUFFICES ASSUME NEW j \in 1..n, NEW i \in 1..(j - 1)
                 PROVE  <<s[i], s[j]>> \in Pairs(t) \cup ({x} \X Elements(t))
    BY <1>1 DEF Pairs
  <2>2. j - 1 \in 1..(n - 1) /\ t[j - 1] = s[j] /\ s[j] \in Elements(t)
    <3>1. j - 1 \in 1..(n - 1) /\ (j - 1) + 1 = j
      BY <1>1
    <3>2. QED BY <1>1, <3>1 DEF Elements
  <2>3. CASE i = 1
    BY <1>1, <2>2, <2>3
  <2>4. CASE i # 1
    <3>1. i - 1 \in 1..((j - 1) - 1) /\ i - 1 \in 1..(n - 1) /\ t[i - 1] = s[i]
      BY <1>1, <2>4
    <3>2. s[i] \in Elements(t)
      BY <1>1, <3>1 DEF Elements
    <3>3. QED BY <1>1, <2>2, <3>1, <3>2 DEF Pairs
  <2>5. QED BY <2>3, <2>4
<1>5. QED BY <1>3, <1>4 DEF t, x

(* What that means where nothing is listed twice: nothing comes before the *)
(* head, and serving or rotating it changes the order as RoundRobin says.  *)
LEMMA OrderOfQueue ==
  ASSUME NEW S, NEW s \in Seq(S), s # <<>>, Injective(s)
  PROVE  /\ \A y : <<y, Head(s)>> \notin Pairs(s)
         /\ Pairs(Tail(s)) = Rotation!Without(Pairs(s), Head(s))
         /\ Pairs(Append(Tail(s), Head(s))) = Rotation!Behind(Pairs(s), Head(s), Elements(s))
<1>1. PICK t : t = Tail(s)
  OBVIOUS
<1>2. PICK x : x = Head(s)
  OBVIOUS
<1>3. /\ t \in Seq(S) /\ x \in S
      /\ Elements(s) = Elements(t) \cup {x} /\ x \notin Elements(t)
  BY <1>1, <1>2, TailElements
<1>4. Pairs(s) = Pairs(t) \cup ({x} \X Elements(t))
  BY <1>1, <1>2, PairsOfTail
<1>5. Pairs(Append(t, x)) = Pairs(t) \cup (Elements(t) \X {x})
  BY <1>3, PairsOfAppend
<1>6. \A pair \in Pairs(t) :
        pair[1] \in Elements(t) /\ pair[2] \in Elements(t)
  BY DEF Pairs
<1>7. \A y : <<y, x>> \notin Pairs(s)
  <2>1. SUFFICES ASSUME NEW y, <<y, x>> \in Pairs(s)
                 PROVE  FALSE
    OBVIOUS
  <2>2. <<y, x>>[2] = x
    OBVIOUS
  <2>3. QED BY <1>3, <1>4, <1>6, <2>1, <2>2
<1>8. \A pair \in {x} \X Elements(t) : pair[1] = x
  OBVIOUS
<1>9. Pairs(t) = Rotation!Without(Pairs(s), x)
  BY <1>3, <1>4, <1>6, <1>8 DEF Rotation!Without
<1>10. Pairs(Append(t, x)) = Rotation!Behind(Pairs(s), x, Elements(s))
  <2>1. {pair \in Pairs(s) : pair[1] # x} = Pairs(t)
    BY <1>3, <1>4, <1>6, <1>8
  <2>2. Elements(s) \ {x} = Elements(t)
    BY <1>3
  <2>3. QED BY <1>5, <2>1, <2>2 DEF Rotation!Behind
<1>11. QED BY <1>1, <1>2, <1>7, <1>9, <1>10

(* The lines of RoundRobin are the queues, the repositories in line those  *)
(* of the rotation.                                                        *)
LEMMA Lines ==
  ASSUME IInv
  PROVE  /\ \A r \in Repos : Rotation!Line(r) = Elements(queue[r])
         /\ Rotation!InLine = Elements(rotation)
<1>1. /\ queue \in [Repos -> Seq(Works)]
      /\ \A r \in Repos : \A w \in Elements(queue[r]) : RepoOf[w] = r
      /\ Elements(rotation) = {r \in Repos : queue[r] # <<>>}
  BY DEF IInv, TypeOK, OnePlace, RotationExact
<1>2. ASSUME NEW r \in Repos PROVE Rotation!Line(r) = Elements(queue[r])
  BY <1>1 DEF Rotation!Line, Queued
<1>3. ASSUME NEW r \in Repos PROVE queue[r] # <<>> <=> Elements(queue[r]) # {}
  <2>1. queue[r] \in Seq(Works)
    BY <1>1
  <2>2. CASE queue[r] # <<>>
    BY <2>1, <2>2, TailElements
  <2>3. CASE queue[r] = <<>>
    BY <2>3 DEF Elements
  <2>4. QED BY <2>2, <2>3
<1>4. Rotation!InLine = Elements(rotation)
  BY <1>1, <1>2, <1>3, Zenon DEF Rotation!InLine
<1>5. QED BY <1>2, <1>4

(* So the head of the rotation has its turn, and the head of its queue is  *)
(* the oldest of its line.                                                 *)
LEMMA HeadsAreNext ==
  ASSUME IInv, rotation # <<>>
  PROVE  LET r == Head(rotation)
             w == Head(queue[r])
         IN /\ r \in Repos /\ w \in Works /\ RepoOf[w] = r
            /\ queue[r] \in Seq(Works) /\ queue[r] # <<>>
            /\ w \in Elements(queue[r]) /\ w \in Queued
            /\ Rotation!Turn(r)
            /\ Rotation!Oldest(w)
<1> DEFINE r == Head(rotation)
           w == Head(queue[r])
<1>1. /\ rotation \in Seq(Repos) /\ Injective(rotation)
      /\ queue \in [Repos -> Seq(Works)]
      /\ Elements(rotation) = {s \in Repos : queue[s] # <<>>}
      /\ \A s \in Repos : Injective(queue[s])
      /\ \A s \in Repos : \A v \in Elements(queue[s]) : RepoOf[v] = s
  BY DEF IInv, TypeOK, OnePlace, RotationExact
<1>2. r \in Elements(rotation)
  BY <1>1, TailElements
<1>3. r \in Repos /\ queue[r] \in Seq(Works) /\ queue[r] # <<>>
  BY <1>1, <1>2
<1>4. w \in Works /\ w \in Elements(queue[r]) /\ RepoOf[w] = r
  BY <1>1, <1>3, TailElements
<1>5. Rotation!Turn(r)
  <2>1. \A s : <<s, r>> \notin Turns
    BY <1>1, OrderOfQueue DEF Turns
  <2>2. QED BY <1>2, <2>1, Lines DEF Rotation!Turn
<1>6. Rotation!Oldest(w)
  <2>1. SUFFICES ASSUME NEW v, NEW s \in Repos, <<v, w>> \in Pairs(queue[s])
                 PROVE  FALSE
    BY DEF Rotation!Oldest, Arrived
  <2>2. w \in Elements(queue[s])
    BY <2>1 DEF Pairs
  <2>3. s = r
    BY <1>1, <1>4, <2>2
  <2>4. QED BY <1>1, <1>3, <2>1, <2>3, OrderOfQueue
<1>7. w \in Queued
  BY <1>3, <1>4 DEF Queued
<1>8. QED BY <1>3, <1>4, <1>5, <1>6, <1>7

-----------------------------------------------------------------------------
(* Fewer active handlers leave room for the same works, or more.           *)
LEMMA RoomOfFewer ==
  ASSUME active \in SUBSET Works, active' \in SUBSET Works
  PROVE  /\ active' \subseteq active => Room \subseteq Room'
         /\ active \subseteq active' => Room' \subseteq Room
<1>1. ASSUME NEW A \in SUBSET Works, NEW B \in SUBSET A, NEW n \in Nat
      PROVE  Cardinality(A) < n => Cardinality(B) < n
  BY SubsetSize
<1>2. ASSUME NEW A \in SUBSET Works, NEW B \in SUBSET A, NEW p
      PROVE  OfProvider(A, p) \in SUBSET Works /\ OfProvider(B, p) \subseteq OfProvider(A, p)
  BY DEF OfProvider
<1>3. /\ GlobalLimit \in Nat /\ RepositoryLimit \in Nat /\ ModelLimit \in Nat
      /\ \A p \in DOMAIN ProviderLimit : ProviderLimit[p] \in Nat
  BY LimitsType
<1>4. ASSUME active' \subseteq active, NEW w \in Works, Eligible(w)
      PROVE  Eligible(w)'
  <2>1. \A A \in SUBSET Works : \A B \in SUBSET A : \A n \in Nat :
          Cardinality(A) < n => Cardinality(B) < n
    BY <1>1
  <2>2. Cardinality(active') < GlobalLimit
    BY <1>3, <1>4, <2>1 DEF Eligible
  <2>3. Cardinality(InRepo(active', RepoOf[w])) < RepositoryLimit
    <3>1. /\ InRepo(active, RepoOf[w]) \in SUBSET Works
          /\ InRepo(active', RepoOf[w]) \subseteq InRepo(active, RepoOf[w])
      BY <1>4 DEF InRepo
    <3>2. Cardinality(InRepo(active, RepoOf[w])) < RepositoryLimit
      BY <1>4 DEF Eligible
    <3>3. QED BY <1>3, <2>1, <3>1, <3>2
  <2>4. ASSUME w \in Model
        PROVE  Cardinality(active' \cap Model) < ModelLimit
    <3>1. active \cap Model \in SUBSET Works /\ active' \cap Model \subseteq active \cap Model
      BY <1>4
    <3>2. Cardinality(active \cap Model) < ModelLimit
      BY <1>4, <2>4 DEF Eligible
    <3>3. QED BY <1>3, <2>1, <3>1, <3>2
  <2>5. ASSUME w \in Model, NEW p \in DOMAIN ProviderLimit, p = ProviderOf[w]
        PROVE  Cardinality(OfProvider(active', p)) < ProviderLimit[p]
    <3>1. /\ OfProvider(active, p) \in SUBSET Works
          /\ OfProvider(active', p) \subseteq OfProvider(active, p)
      BY <1>2, <1>4
    <3>2. Cardinality(OfProvider(active, p)) < ProviderLimit[p]
      BY <1>4, <2>5 DEF Eligible
    <3>3. QED BY <1>3, <2>1, <3>1, <3>2
  <2>6. QED BY <2>2, <2>3, <2>4, <2>5 DEF Eligible
<1>5. ASSUME active \subseteq active', NEW w \in Works, Eligible(w)'
      PROVE  Eligible(w)
  <2>1. \A A \in SUBSET Works : \A B \in SUBSET A : \A n \in Nat :
          Cardinality(A) < n => Cardinality(B) < n
    BY <1>1
  <2>2. Cardinality(active) < GlobalLimit
    BY <1>3, <1>5, <2>1 DEF Eligible
  <2>3. Cardinality(InRepo(active, RepoOf[w])) < RepositoryLimit
    <3>1. /\ InRepo(active', RepoOf[w]) \in SUBSET Works
          /\ InRepo(active, RepoOf[w]) \subseteq InRepo(active', RepoOf[w])
      BY <1>5 DEF InRepo
    <3>2. Cardinality(InRepo(active', RepoOf[w])) < RepositoryLimit
      BY <1>5 DEF Eligible
    <3>3. QED BY <1>3, <2>1, <3>1, <3>2
  <2>4. ASSUME w \in Model
        PROVE  Cardinality(active \cap Model) < ModelLimit
    <3>1. active' \cap Model \in SUBSET Works /\ active \cap Model \subseteq active' \cap Model
      BY <1>5
    <3>2. Cardinality(active' \cap Model) < ModelLimit
      BY <1>5, <2>4 DEF Eligible
    <3>3. QED BY <1>3, <2>1, <3>1, <3>2
  <2>5. ASSUME w \in Model, NEW p \in DOMAIN ProviderLimit, p = ProviderOf[w]
        PROVE  Cardinality(OfProvider(active, p)) < ProviderLimit[p]
    <3>1. /\ OfProvider(active', p) \in SUBSET Works
          /\ OfProvider(active, p) \subseteq OfProvider(active', p)
      BY <1>2, <1>5
    <3>2. Cardinality(OfProvider(active', p)) < ProviderLimit[p]
      BY <1>5, <2>5 DEF Eligible
    <3>3. QED BY <1>3, <2>1, <3>1, <3>2
  <2>6. QED BY <2>2, <2>3, <2>4, <2>5 DEF Eligible
<1>6. QED BY <1>4, <1>5 DEF Room

(* Nothing but the active handlers decides on the room.                    *)
LEMMA SameRoom ==
  ASSUME UNCHANGED active
  PROVE  UNCHANGED Room
BY DEF Room, Eligible

(* A new work is last in its line, its repository last if it had none.     *)
LEMMA SubmitTakesTurn ==
  ASSUME IInv, NEW w \in Works, Submit(w)
  PROVE  Rotation!Submit(w)
<1> DEFINE R == RepoOf[w]
<1>1. /\ w \notin known /\ unfinished = {} /\ R \in Repos /\ active' = active
      /\ queue \in [Repos -> Seq(Works)] /\ rotation \in Seq(Repos)
      /\ queue' = [queue EXCEPT ![R] = Append(queue[R], w)]
      /\ rotation' = IF R \in Elements(rotation) THEN rotation ELSE Append(rotation, R)
  BY WorksType DEF Submit, IInv, Closed, TypeOK
<1>2. w \notin Queued
  BY <1>1 DEF IInv, OnePlace
<1> HIDE DEF R
<1>3. /\ queue[R] \in Seq(Works) /\ queue'[R] = Append(queue[R], w)
      /\ \A s \in Repos \ {R} : queue'[s] = queue[s]
  BY <1>1
<1>4. /\ Elements(queue'[R]) = Elements(queue[R]) \cup {w}
      /\ Pairs(queue'[R]) = Pairs(queue[R]) \cup (Elements(queue[R]) \X {w})
  BY <1>3, AppendElements, PairsOfAppend
<1>5. Queued' = Queued \cup {w}
  <2>1. \A s \in Repos : s # R => Elements(queue'[s]) = Elements(queue[s])
    BY <1>3
  <2>2. Elements(queue'[R]) = Elements(queue[R]) \cup {w}
    BY <1>4
  <2>3. R \in Repos
    BY <1>1
  <2>4. QED BY <2>1, <2>2, <2>3, Zenon DEF Queued
<1>6. Arrived' = Arrived \cup (Elements(queue[R]) \X {w})
  <2>1. \A s \in Repos : s # R => Pairs(queue'[s]) = Pairs(queue[s])
    BY <1>3
  <2>2. Pairs(queue'[R]) = Pairs(queue[R]) \cup (Elements(queue[R]) \X {w})
    BY <1>4
  <2>3. R \in Repos
    BY <1>1
  <2>4. QED BY <2>1, <2>2, <2>3, Zenon DEF Arrived
<1>7. Turns' = IF R \in Elements(rotation) THEN Turns ELSE Turns \cup (Elements(rotation) \X {R})
  <2>1. CASE R \in Elements(rotation)
    BY <1>1, <2>1 DEF Turns
  <2>2. CASE R \notin Elements(rotation)
    BY <1>1, <2>2, PairsOfAppend DEF Turns
  <2>3. QED BY <2>1, <2>2
<1>8. /\ Rotation!Line(R) = Elements(queue[R])
      /\ Rotation!InLine = Elements(rotation)
  BY <1>1, Lines
<1>9. Room' = Room
  BY <1>1, SameRoom
<1>10. QED BY <1>2, <1>5, <1>6, <1>7, <1>8, <1>9 DEF R, Rotation!Submit

(* A repository whose head finds no room is passed over.                   *)
LEMMA SkipPassesOver ==
  ASSUME IInv, Skip
  PROVE  Rotation!PassOver(Head(rotation))
<1> DEFINE r == Head(rotation)
           w == Head(queue[r])
<1>1. /\ rotation # <<>> /\ ~Eligible(w)
      /\ rotation' = Append(Tail(rotation), r)
      /\ UNCHANGED <<queue, active>>
  BY DEF Skip, Looping
<1>2. /\ r \in Repos /\ w \in Elements(queue[r])
      /\ Rotation!Turn(r) /\ Rotation!Oldest(w)
  BY <1>1, HeadsAreNext
<1>3. w \in Rotation!Line(r) /\ w \notin Room
  BY <1>1, <1>2, Lines DEF Room
<1>4. Turns' = Rotation!Behind(Turns, r, Rotation!InLine)
  <2>1. rotation \in Seq(Repos) /\ Injective(rotation)
    BY DEF IInv, TypeOK, RotationExact
  <2>2. Pairs(rotation') = Rotation!Behind(Pairs(rotation), r, Elements(rotation))
    BY <1>1, <2>1, OrderOfQueue
  <2>3. QED BY <2>2, Lines DEF Turns
<1>5. Queued' = Queued /\ Arrived' = Arrived /\ Room' = Room
  BY <1>1, SameRoom DEF Queued, Arrived
<1>6. QED BY <1>2, <1>3, <1>4, <1>5 DEF Rotation!PassOver

(* A dispatched work is served, and its repository goes behind the others. *)
LEMMA DispatchServes ==
  ASSUME IInv, Dispatch
  PROVE  \E w \in Works : Rotation!Serve(w)
<1>1. PICK r : r = Head(rotation)
  OBVIOUS
<1>2. PICK w : w = Head(queue[r])
  OBVIOUS
<1>3. /\ rotation \in Seq(Repos) /\ Injective(rotation) /\ rotation # <<>>
      /\ queue \in [Repos -> Seq(Works)]
      /\ active \in SUBSET Works
      /\ \A s \in Repos : Injective(queue[s])
      /\ \A s \in Repos : \A v \in Elements(queue[s]) : RepoOf[v] = s
  BY DEF Dispatch, Looping, IInv, TypeOK, OnePlace, RotationExact
<1>4. /\ Eligible(w) /\ active' = active \cup {w}
      /\ queue' = [queue EXCEPT ![r] = Tail(queue[r])]
      /\ rotation' = IF Tail(queue[r]) = <<>> THEN Tail(rotation)
                     ELSE Append(Tail(rotation), r)
  BY <1>1, <1>2 DEF Dispatch
<1>5. /\ r \in Repos /\ w \in Works /\ RepoOf[w] = r
      /\ queue[r] \in Seq(Works) /\ queue[r] # <<>>
      /\ w \in Elements(queue[r]) /\ w \in Queued
      /\ Rotation!Turn(r) /\ Rotation!Oldest(w)
  BY <1>1, <1>2, <1>3, HeadsAreNext
<1>6. /\ queue'[r] = Tail(queue[r])
      /\ \A s \in Repos \ {r} : queue'[s] = queue[s]
  BY <1>3, <1>4, <1>5
<1>7. /\ Elements(queue[r]) = Elements(Tail(queue[r])) \cup {w}
      /\ w \notin Elements(Tail(queue[r])) /\ Tail(queue[r]) \in Seq(Works)
      /\ Pairs(Tail(queue[r])) = Rotation!Without(Pairs(queue[r]), w)
  BY <1>2, <1>3, <1>5, TailElements, OrderOfQueue
<1>8. \A s \in Repos \ {r} : w \notin Elements(queue[s])
  BY <1>3, <1>5
<1>9. Queued' = Queued \ {w}
  <2>1. \A s \in Repos : Elements(queue'[s]) = Elements(queue[s]) \ {w}
    BY <1>6, <1>7, <1>8
  <2>2. QED BY <2>1 DEF Queued
<1>10. Arrived' = Rotation!Without(Arrived, w)
  <2>1. ASSUME NEW s \in Repos
        PROVE  Pairs(queue'[s]) = Rotation!Without(Pairs(queue[s]), w)
    <3>1. CASE s = r
      BY <1>6, <1>7, <3>1
    <3>2. CASE s # r
      <4>1. \A pair \in Pairs(queue[s]) : pair[1] # w /\ pair[2] # w
        BY <1>8, <3>2 DEF Pairs
      <4>2. QED BY <1>6, <3>2, <4>1 DEF Rotation!Without
    <3>3. QED BY <3>1, <3>2
  <2>2. QED BY <2>1 DEF Arrived, Rotation!Without
<1>11. Rotation!Line(r) = Elements(queue[r]) /\ Rotation!InLine = Elements(rotation)
  BY <1>5, Lines
<1>12. Rotation!Line(r) = {w} <=> Tail(queue[r]) = <<>>
  <2>1. CASE Tail(queue[r]) = <<>>
    <3>1. Elements(Tail(queue[r])) = {}
      BY <2>1 DEF Elements
    <3>2. QED BY <1>7, <1>11, <2>1, <3>1
  <2>2. CASE Tail(queue[r]) # <<>>
    <3>1. Elements(Tail(queue[r])) # {}
      <4>1. PICK t : t = Tail(queue[r])
        OBVIOUS
      <4>2. t \in Seq(Works) /\ t # <<>>
        BY <1>7, <2>2, <4>1
      <4>3. Elements(t) = Elements(Tail(t)) \cup {Head(t)}
        BY <4>2, TailElements
      <4>4. QED BY <4>1, <4>3
    <3>2. QED BY <1>7, <1>11, <2>2, <3>1
  <2>3. QED BY <2>1, <2>2
<1>13. Turns' = IF Rotation!Line(r) = {w} THEN Rotation!Without(Turns, r)
                ELSE Rotation!Behind(Turns, r, Rotation!InLine)
  <2>1. /\ Pairs(Tail(rotation)) = Rotation!Without(Pairs(rotation), r)
        /\ Pairs(Append(Tail(rotation), r)) = Rotation!Behind(Pairs(rotation), r, Elements(rotation))
    BY <1>1, <1>3, OrderOfQueue
  <2>2. QED BY <1>4, <1>11, <1>12, <2>1 DEF Turns
<1>14. Room' \subseteq Room /\ w \in Room
  <2>1. active' \in SUBSET Works /\ active \subseteq active'
    BY <1>3, <1>4, <1>5
  <2>2. QED BY <1>3, <1>4, <1>5, <2>1, RoomOfFewer DEF Room
<1>15. Rotation!Serve(w)
  BY <1>5, <1>9, <1>10, <1>13, <1>14 DEF Rotation!Serve
<1>16. QED BY <1>5, <1>15

(* Handlers that have stopped release room, whoever looks.                 *)
LEMMA ReapReleases ==
  ASSUME IInv, Reap
  PROVE  Room \subseteq Room'
<1>1. active \in SUBSET Works /\ active' \subseteq active
  BY DEF Reap, IInv, TypeOK
<1>2. QED BY <1>1, RoomOfFewer

(* A shutdown drops the queues and the turns.                              *)
LEMMA ShutdownDismisses ==
  ASSUME IInv, Shutdown
  PROVE  Rotation!Dismiss
<1>1. queue' = [r \in Repos |-> <<>>] /\ rotation' = <<>> /\ Reap
  BY DEF Shutdown
<1>2. Elements(<<>>) = {} /\ Pairs(<<>>) = {}
  BY DEF Elements, Pairs
<1>3. \A r \in Repos : queue'[r] = <<>>
  BY <1>1
<1>4. Queued' = {} /\ Arrived' = {} /\ Turns' = {}
  BY <1>1, <1>2, <1>3 DEF Queued, Arrived, Turns
<1>5. QED BY <1>1, <1>4, ReapReleases DEF Rotation!Dismiss

(* Every step serves, submits or passes over in turn, releases room, or    *)
(* changes nothing of the order.                                           *)
LEMMA StepTakesTurn ==
  ASSUME IInv, [Next]_vars
  PROVE  [Rotation!Next]_(Rotation!vars)
<1>1. ASSUME UNCHANGED <<queue, rotation>>
      PROVE  Queued' = Queued /\ Arrived' = Arrived /\ Turns' = Turns
  BY <1>1 DEF Queued, Arrived, Turns
<1>2. CASE \E w \in Works : Submit(w)
  BY <1>2, SubmitTakesTurn DEF Rotation!Next
<1>3. CASE Skip
  <2>1. Head(rotation) \in Repos
    BY <1>3, HeadsAreNext DEF Skip, Looping
  <2>2. QED BY <1>3, <2>1, SkipPassesOver DEF Rotation!Next
<1>4. CASE Dispatch
  BY <1>4, DispatchServes DEF Rotation!Next
<1>5. CASE Shutdown
  BY <1>5, ShutdownDismisses DEF Rotation!Next
<1>6. CASE Snapshot \/ BeginTick
  <2>1. Reap /\ UNCHANGED <<queue, rotation>>
    BY <1>6 DEF Snapshot, BeginTick
  <2>2. Rotation!Release
    BY <1>1, <2>1, ReapReleases DEF Rotation!Release
  <2>3. QED BY <2>2 DEF Rotation!Next
<1>7. CASE \/ AcknowledgeCompleted \/ CloseIntake \/ EndTick \/ UNCHANGED vars
           \/ \E w \in Works : DeadlinePasses(w)
           \/ \E w \in Works, how \in {"returned", "raised"} : Finish(w, how)
  <2>1. UNCHANGED <<queue, rotation, active>>
    BY <1>7 DEF AcknowledgeCompleted, CloseIntake, EndTick, vars, DeadlinePasses, Finish
  <2>2. QED BY <1>1, <2>1, SameRoom DEF Rotation!vars
<1>8. QED BY <1>2, <1>3, <1>4, <1>5, <1>6, <1>7 DEF Next, Serve, Tick

(* At the start nobody waits and there is room for every work.             *)
LEMMA InitTakesTurn == Init => Rotation!Init
<1> SUFFICES ASSUME Init PROVE Rotation!Init
  OBVIOUS
<1>1. Elements(<<>>) = {} /\ Pairs(<<>>) = {}
  BY DEF Elements, Pairs
<1>2. \A r \in Repos : queue[r] = <<>>
  BY DEF Init
<1>3. Queued = {} /\ Arrived = {} /\ Turns = {}
  BY <1>1, <1>2 DEF Init, Queued, Arrived, Turns
<1>4. Room = Works
  <2>1. \A r : InRepo({}, r) = {} /\ OfProvider({}, r) = {} /\ {} \cap Model = {}
    BY DEF InRepo, OfProvider
  <2>2. Cardinality({}) = 0
    BY FS_EmptySet
  <2>3. /\ 0 < GlobalLimit /\ 0 < RepositoryLimit /\ 0 < ModelLimit
        /\ \A p \in DOMAIN ProviderLimit : 0 < ProviderLimit[p]
    BY LimitsType
  <2>4. active = {}
    BY DEF Init
  <2>5. \A w \in Works : Eligible(w)
    BY <2>1, <2>2, <2>3, <2>4 DEF Eligible
  <2>6. QED BY <2>5 DEF Room
<1>5. QED BY <1>3, <1>4 DEF Rotation!Init

(* The scheduler is first in, first out within a repository and takes the  *)
(* repositories in turn, for any works, repositories, providers and limits *)
(* (submit, tick, shutdown).                                               *)
THEOREM ImplementsRoundRobin == Spec => TakesTurns
<1>1. Spec => []([Rotation!Next]_(Rotation!vars))
  BY StepTakesTurn, Inductive, PTL DEF Spec
<1>2. QED BY <1>1, InitTakesTurn, PTL DEF Spec, TakesTurns, Rotation!Spec
=============================================================================
