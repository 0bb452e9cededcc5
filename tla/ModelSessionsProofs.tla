------------------------- MODULE ModelSessionsProofs -------------------------
(***************************************************************************)
(* What holds of the ledger of model calls for all threads, sessions,      *)
(* requests, tools, routes and limits.                                     *)
(***************************************************************************)
EXTENDS ModelSessions, FiniteSetTheorems, TLAPS

Statuses == {"none"} \cup OpenStatuses \cup FinalStatuses
ToolStatuses == {"absent", "ready", "claimed", "done"}

(* Field by field: the records of the ledger and of a caller.              *)
LEMMA RequestFields ==
  ASSUME NEW r \in RequestType
  PROVE  r.status \in Statuses /\ r.attempt \in Nat /\ r.session \in Sessions \cup {None}
BY DEF RequestType, Statuses

(* A new status changes nothing else of a request.                          *)
LEMMA RequestStatus ==
  ASSUME NEW r \in RequestType, NEW s \in Statuses
  PROVE  /\ [r EXCEPT !.status = s] \in RequestType
         /\ [r EXCEPT !.status = s].status = s
         /\ [r EXCEPT !.status = s].attempt = r.attempt
         /\ [r EXCEPT !.status = s].session = r.session
BY DEF RequestType, Statuses

(* The fields of a tool.                                                    *)
LEMMA ToolFields ==
  ASSUME NEW r \in ToolType
  PROVE  r.status \in ToolStatuses /\ r.session \in Sessions \cup {None} /\ r.result \in Results \cup {None}
BY DEF ToolType, ToolStatuses

(* A tool claimed.                                                          *)
LEMMA ToolStatus ==
  ASSUME NEW r \in ToolType, NEW s \in ToolStatuses
  PROVE  [r EXCEPT !.status = s] \in ToolType /\ [r EXCEPT !.status = s].status = s
BY DEF ToolType, ToolStatuses

(* A tool with its result.                                                  *)
LEMMA ToolUpdates ==
  ASSUME NEW r \in ToolType, NEW s \in ToolStatuses, NEW v \in Results
  PROVE  /\ [r EXCEPT !.status = s, !.result = v] \in ToolType
         /\ [r EXCEPT !.status = s, !.result = v].status = s
BY DEF ToolType, ToolStatuses

(* The fields of what a thread holds.                                       *)
LEMMA JobFields ==
  ASSUME NEW j \in JobType
  PROVE  /\ j.request \in Requests \cup {None} /\ j.session \in Sessions \cup {None} /\ j.said \in Nat
         /\ j.seen \in RequestType /\ j.provider \in Providers \cup {None} /\ j.worked \in BOOLEAN
         /\ j.error \in ErrorType
BY DEF JobType

(* What a thread learns of its call.                                        *)
LEMMA JobUpdates ==
  ASSUME NEW j \in JobType, NEW e \in ErrorType
  PROVE  /\ [j EXCEPT !.error = e] \in JobType /\ [j EXCEPT !.worked = TRUE] \in JobType
BY DEF JobType

(* The empty records have their types.                                      *)
LEMMA NothingTypes ==
  NoRequest \in RequestType /\ NoTool \in ToolType /\ NoJob \in JobType /\ Doubt \in ErrorType
BY DEF NoRequest, NoTool, NoJob, RequestType, ToolType, JobType, ErrorType, Doubt

(* What a thread holds when it starts a call.                               *)
LEMMA NewJob ==
  ASSUME NEW q \in Requests, NEW s \in Sessions, NEW n \in Nat, NEW r \in RequestType, NEW p \in Providers
  PROVE  LET j == [NoJob EXCEPT !.request = q, !.session = s, !.said = n, !.seen = r, !.provider = p]
         IN /\ j \in JobType /\ j.request = q /\ j.session = s /\ j.said = n /\ j.seen = r
            /\ j.provider = p /\ j.worked = FALSE
BY NothingTypes DEF NoJob, JobType

(* Errors (adapters.py, transport.py): one that comes after the request may *)
(* have left is never retried.                                             *)
LEMMA ErrorTypes ==
  /\ \A c : ErrorOfCode(c) \in ErrorType
  /\ \A a : ErrorOfAnswer(a) \in ErrorType
  /\ \A k \in AfterSending : ~ErrorOfCode(CodeOf(k, TRUE)).retryable
  /\ \A a \in Answers : ErrorOfAnswer(a).retryable => a = "limited"
  /\ ~Doubt.retryable
<1>1. \A c : ErrorOfCode(c) \in ErrorType
  BY DEF ErrorOfCode, ErrorType, Doubt, Final, Again
<1>2. \A a : ErrorOfAnswer(a) \in ErrorType
  BY DEF ErrorOfAnswer, ErrorType, Doubt, Final, Again
<1>3. \A k \in AfterSending : CodeOf(k, TRUE) \in {"EFFECT_UNKNOWN", "HTTP_CANCELLED", "HTTP_TIMEOUT"}
  BY DEF AfterSending, Interruptions, CodeOf
<1>4. \A k \in AfterSending : ~ErrorOfCode(CodeOf(k, TRUE)).retryable
  BY <1>3 DEF ErrorOfCode, Doubt
<1>5. \A a \in Answers : ErrorOfAnswer(a).retryable => a = "limited"
  BY DEF Answers, ErrorOfAnswer, Doubt, Final, Again
<1>6. QED BY <1>1, <1>2, <1>4, <1>5 DEF Doubt

(* A route that can be selected names a model of a known provider.          *)
LEMMA ResolveType ==
  ASSUME NEW c \in Configs, Selectable(c)
  PROVE  Resolve(c) \in Models /\ ProviderOf[Resolve(c)] \in Providers
BY ConfigsType, ProviderOfType DEF Selectable, ConfigType

SpentType == [calls : Nat, tools : Nat, seconds : Nat]

(* The counters of the run.                                                 *)
LEMMA SpentFields ==
  ASSUME NEW s \in SpentType
  PROVE  s.calls \in Nat /\ s.tools \in Nat /\ s.seconds \in Nat
BY DEF SpentType

(* One counter changes without the others.                                  *)
LEMMA SpentUpdates ==
  ASSUME NEW s \in SpentType, NEW n \in Nat, NEW i \in Nat
  PROVE  /\ [s EXCEPT !.calls = n, !.seconds = i] \in SpentType
         /\ [s EXCEPT !.calls = n, !.seconds = i].calls = n
         /\ [s EXCEPT !.calls = n, !.seconds = i].tools = s.tools
         /\ [s EXCEPT !.calls = n, !.seconds = i].seconds = i
         /\ [s EXCEPT !.seconds = i] \in SpentType
         /\ [s EXCEPT !.seconds = i].calls = s.calls
         /\ [s EXCEPT !.seconds = i].tools = s.tools
         /\ [s EXCEPT !.seconds = i].seconds = i
         /\ [s EXCEPT !.tools = n] \in SpentType
         /\ [s EXCEPT !.tools = n].calls = s.calls
         /\ [s EXCEPT !.tools = n].tools = n
         /\ [s EXCEPT !.tools = n].seconds = s.seconds
BY DEF SpentType

-----------------------------------------------------------------------------
(* The invariant.                                                           *)

Flight == {"reserved", "sent", "answered", "failing"}

(* A pending request is in the hands of one thread at most, and one that a  *)
(* thread reads again before its reservation is not pending.                *)
InHand ==
  /\ \A k \in Callers :
       /\ pc[k] # "idle" => job[k].request \in Requests /\ job[k].session \in Sessions
                            /\ job[k].provider \in Providers
       /\ pc[k] \in {"checked", "slotted"} => job[k].seen.status \in {"none", "retry_wait"}
       /\ pc[k] \in Flight => request[job[k].request].status \in {"pending", "abandoned"}
  /\ \A k, l \in Callers :
       pc[k] \in Flight /\ pc[l] \in Flight /\ job[k].request = job[l].request => k = l

(* What a pending request has reserved.                                     *)
Reserved ==
  \A q \in Requests : request[q].status = "pending" =>
    Timeout <= spent.seconds /\ spent.seconds <= TimeLimit

(* What was worked on is not tried again.                                   *)
WorkedOnce ==
  /\ \A q \in Requests :
       /\ asked[q] \in {0, 1}
       /\ request[q].status \in {"none", "retry_wait"} => asked[q] = 0
  /\ \A k \in Callers :
       /\ pc[k] \in {"checked", "slotted", "reserved"} => ~job[k].worked
       /\ pc[k] \in Flight /\ ~job[k].worked => asked[job[k].request] = 0
       /\ pc[k] = "failing" /\ job[k].error.retryable => ~job[k].worked

RanOnce ==
  \A t \in Tools : ran[t] \in {0, 1} /\ (tool[t].status \in {"absent", "ready"} => ran[t] = 0)

ToolHeard ==
  \A t \in Tools : tool[t].status # "absent" => tool[t].session \in Sessions

Routed ==
  \A k \in Callers : pc[k] # "idle" =>
    /\ Selectable(config) /\ bound[job[k].session] = config
    /\ job[k].provider = ProviderOf[Resolve(config)]

IInv == TypeOK /\ InHand /\ OneOpen /\ ToolHeard /\ Reserved /\ BudgetHeld /\ WorkedOnce /\ RanOnce
        /\ PromptComplete /\ Routed /\ SlotsExact

(* The four ways a call in flight fails have one form.                      *)
LEMMA FailureStep ==
  ASSUME TypeOK, WorkedOnce, NEW k \in Callers,
         FailToSend(k) \/ Overdue(k) \/ FailAfterSend(k) \/ AnswerError(k)
  PROVE  /\ pc[k] \in {"reserved", "sent", "answered"}
         /\ \E e \in ErrorType : Fails(k, e) /\ (e.retryable => ~job[k].worked)
<1>1. CASE FailToSend(k)
  BY <1>1, ErrorTypes DEF FailToSend, WorkedOnce
<1>2. CASE Overdue(k)
  BY <1>2, ErrorTypes, NothingTypes DEF Overdue
<1>3. CASE FailAfterSend(k)
  BY <1>3, ErrorTypes DEF FailAfterSend
<1>4. CASE AnswerError(k)
  BY <1>4, ErrorTypes DEF AnswerError
<1>5. QED BY <1>1, <1>2, <1>3, <1>4

(* The step cases every invariant is proved by.                             *)
LEMMA StepCases ==
  ASSUME TypeOK, WorkedOnce, [Next]_vars
  PROVE  \/ \E s \in Sessions : OpenSession(s)
         \/ \E k \in Callers, q \in Requests : Inspect(k, q)
         \/ \E k \in Callers : TakeSlot(k) \/ Busy(k)
         \/ \E k \in Callers : Reserve(k)
         \/ \E k \in Callers, e \in ErrorType :
              pc[k] \in {"reserved", "sent", "answered"} /\ Fails(k, e) /\ (e.retryable => ~job[k].worked)
         \/ \E k \in Callers : Send(k) \/ AnswerResult(k)
         \/ \E k \in Callers : Work(k)
         \/ \E k \in Callers, i \in Elapsed : RecordFailure(k, i)
         \/ \E k \in Callers, i \in Elapsed, calls \in SUBSET Tools : RecordResult(k, i, calls)
         \/ \E t \in Tools : ClaimTool(t)
         \/ \E t \in Tools, r \in Results : FinishTool(t, r)
         \/ \E q \in Requests : AbandonRequest(q)
         \/ \E c \in Configs : Restart(c)
         \/ UNCHANGED vars
<1>1. CASE \E k \in Callers : Generate(k)
  <2> PICK k \in Callers : Generate(k) BY <1>1
  <2>1. CASE FailToSend(k) \/ Overdue(k) \/ FailAfterSend(k) \/ AnswerError(k)
    BY <2>1, FailureStep
  <2>2. QED BY <2>1 DEF Generate
<1>2. QED BY <1>1 DEF Next

(* A thread between its slot and the release is counted.                    *)
Users(p) == {k \in Callers : pc[k] \in Holding /\ job[k].provider = p}

(* The callers of a provider can be counted.                                *)
LEMMA UsersFinite ==
  ASSUME NEW p \in Providers
  PROVE  IsFiniteSet(Users(p)) /\ Cardinality(Users(p)) \in Nat
BY FiniteType, FS_Subset, FS_CardinalityType DEF Users

(* One caller more or less changes the count by one.                        *)
LEMMA Counted ==
  ASSUME SlotsExact, InHand, NEW k \in Callers, pc[k] \in Holding, held \in [Providers -> Nat]
  PROVE  job[k].provider \in Providers /\ held[job[k].provider] > 0
<1>1. job[k].provider \in Providers
  BY DEF InHand, Holding
<1>2. k \in Users(job[k].provider) /\ held[job[k].provider] = Cardinality(Users(job[k].provider))
  BY <1>1 DEF SlotsExact, Users
<1>3. held[job[k].provider] # 0
  BY <1>1, <1>2, UsersFinite, FS_EmptySet
<1>4. QED BY <1>1, <1>3

(* Every step keeps the types; a settled call gives back no more than was spent. *)
LEMMA TypeStep ==
  ASSUME TypeOK, InHand, ToolHeard, Reserved, WorkedOnce, SlotsExact, [Next]_vars
  PROVE  TypeOK'
<1> USE DEF vars, ledger, process
<1>0. session \in Sessions \cup {None} /\ config \in Configs
  BY DEF TypeOK
<1>1. ASSUME NEW s \in Sessions, OpenSession(s) PROVE TypeOK'
  BY <1>1 DEF OpenSession, TypeOK
<1>2. ASSUME NEW k \in Callers, NEW q \in Requests, Inspect(k, q) PROVE TypeOK'
  <2> DEFINE j == [NoJob EXCEPT !.request = q, !.session = session, !.said = said[session],
                                !.seen = request[q], !.provider = ProviderOf[Resolve(config)]]
  <2>1. session \in Sessions /\ said[session] \in Nat /\ request[q] \in RequestType
    BY <1>2 DEF Inspect, TypeOK
  <2>2. ProviderOf[Resolve(config)] \in Providers
    BY <1>2, <1>0, ResolveType DEF Inspect
  <2>3. j \in JobType
    BY <2>1, <2>2, NothingTypes DEF NoJob, JobType
  <2>4. job' = [job EXCEPT ![k] = j]
    BY <1>2 DEF Inspect
  <2> HIDE DEF j
  <2>5. job' \in [Callers -> JobType]
    BY <2>3, <2>4 DEF TypeOK
  <2>6. pc' \in [Callers -> Steps]
    BY <1>2 DEF Inspect, Becomes, TypeOK, Steps
  <2>7. QED BY <1>2, <2>5, <2>6 DEF Inspect, TypeOK
<1>3. ASSUME NEW k \in Callers, TakeSlot(k) \/ Busy(k) PROVE TypeOK'
  <2>1. pc' \in [Callers -> Steps] /\ job' \in [Callers -> JobType]
    BY <1>3, NothingTypes DEF TakeSlot, Busy, Becomes, TypeOK, Steps
  <2>2. held' \in [Providers -> Nat]
    BY <1>3 DEF TakeSlot, Busy, TypeOK
  <2>3. QED BY <1>3, <2>1, <2>2 DEF TakeSlot, Busy, TypeOK
<1>l. ASSUME NEW k \in Callers, pc[k] \in Holding, Leave(k)
      PROVE  config' \in Configs /\ held' \in [Providers -> Nat] /\ pc' \in [Callers -> Steps]
             /\ job' \in [Callers -> JobType]
  <2>1. job[k].provider \in Providers /\ held[job[k].provider] > 0
    BY <1>l, Counted DEF TypeOK
  <2>2. held[job[k].provider] - 1 \in Nat
    BY <2>1 DEF TypeOK
  <2>3. held' \in [Providers -> Nat]
    BY <1>l, <2>1, <2>2 DEF Leave, TypeOK
  <2>4. QED BY <1>l, <2>3, NothingTypes DEF Leave, Becomes, TypeOK, Steps
<1>4. ASSUME NEW k \in Callers, Reserve(k) PROVE TypeOK'
  <2>1. CASE Reservable(k)
    <3> DEFINE r == [status |-> "pending", attempt |-> request[job[k].request].attempt + 1,
                     session |-> session]
    <3>1. spent.calls + 1 \in Nat /\ spent.seconds + Timeout \in Nat
      BY SpentFields, LimitsType DEF TypeOK, SpentType
    <3>2. spent' \in SpentType
      <4>1. spent \in SpentType
        BY DEF TypeOK, SpentType
      <4>2. spent' = [spent EXCEPT !.calls = spent.calls + 1, !.seconds = spent.seconds + Timeout]
        BY <1>4, <2>1 DEF Reserve
      <4>3. QED BY <3>1, <4>1, <4>2, SpentUpdates
    <3>3. job[k].request \in Requests /\ request[job[k].request] \in RequestType
      BY <1>4 DEF Reserve, InHand, TypeOK
    <3>4. request[job[k].request].attempt \in Nat
      BY <3>3, RequestFields
    <3>5. r \in RequestType
      BY <1>0, <3>4 DEF RequestType, OpenStatuses
    <3>6. request' = [request EXCEPT ![job[k].request] = r]
      BY <1>4, <2>1 DEF Reserve
    <3> HIDE DEF r
    <3>7. request' \in [Requests -> RequestType]
      BY <3>3, <3>5, <3>6 DEF TypeOK
    <3>8. QED BY <1>4, <2>1, <3>2, <3>7 DEF Reserve, TypeOK, SpentType, Becomes, Steps
  <2>2. CASE ~Reservable(k)
    BY <1>4, <2>2, <1>l DEF Reserve, Holding, TypeOK
  <2>3. QED BY <2>1, <2>2
<1>5. ASSUME NEW k \in Callers, NEW e \in ErrorType, Fails(k, e) PROVE TypeOK'
  <2>1. [job[k] EXCEPT !.error = e] \in JobType
    BY JobUpdates DEF TypeOK
  <2>2. job' \in [Callers -> JobType]
    BY <1>5, <2>1 DEF Fails, TypeOK
  <2>3. QED BY <1>5, <2>2 DEF Fails, TypeOK, Becomes, Steps
<1>6. ASSUME NEW k \in Callers, Send(k) \/ AnswerResult(k) PROVE TypeOK'
  BY <1>6 DEF Send, AnswerResult, TypeOK, Becomes, Steps
<1>7. ASSUME NEW k \in Callers, Work(k) PROVE TypeOK'
  <2>1. [job[k] EXCEPT !.worked = TRUE] \in JobType
    BY JobUpdates, NothingTypes DEF TypeOK
  <2>2. job' \in [Callers -> JobType]
    BY <1>7, <2>1 DEF Work, TypeOK
  <2>3. asked' \in [Requests -> Nat]
    BY <1>7 DEF Work, TypeOK, InHand
  <2>4. QED BY <1>7, <2>2, <2>3 DEF Work, TypeOK
<1>s. ASSUME NEW k \in Callers, NEW i \in Elapsed, pc[k] \in Flight,
             request[job[k].request].status = "pending"
      PROVE  /\ job[k].request \in Requests
             /\ Settled(i) \in SpentType
  <2>1. job[k].request \in Requests
    BY <1>s DEF InHand, Flight
  <2>2. spent \in SpentType /\ spent.seconds \in Nat /\ spent.seconds >= Timeout
    BY <1>s, <2>1, SpentFields, LimitsType DEF Reserved, TypeOK, SpentType
  <2>3. spent.seconds + i - Timeout \in Nat
    BY <2>2, LimitsType, BoundsType DEF Elapsed
  <2>4. QED BY <2>1, <2>2, <2>3, SpentUpdates DEF Settled
<1>8. ASSUME NEW k \in Callers, NEW i \in Elapsed, RecordFailure(k, i) PROVE TypeOK'
  <2>1. config' \in Configs /\ held' \in [Providers -> Nat] /\ pc' \in [Callers -> Steps]
        /\ job' \in [Callers -> JobType]
    BY <1>8, <1>l DEF RecordFailure, Holding
  <2>2. request' \in [Requests -> RequestType]
    <3>1. CASE request[job[k].request].status = "pending"
      <4>1. job[k].request \in Requests /\ request[job[k].request] \in RequestType
        BY <1>8, <1>s, <3>1 DEF RecordFailure, Flight, TypeOK
      <4>2. PICK s \in Statuses : request' = [request EXCEPT ![job[k].request].status = s]
        BY <1>8, <3>1 DEF RecordFailure, Statuses, OpenStatuses, FinalStatuses
      <4>3. [request[job[k].request] EXCEPT !.status = s] \in RequestType
        BY <4>1, RequestStatus
      <4>4. QED BY <4>1, <4>2, <4>3 DEF TypeOK
    <3>2. QED BY <1>8, <3>1 DEF RecordFailure, TypeOK
  <2>3. spent' \in SpentType
    BY <1>8, <1>s DEF RecordFailure, TypeOK, SpentType, Flight
  <2>4. QED BY <1>8, <2>1, <2>2, <2>3 DEF RecordFailure, TypeOK, SpentType
<1>9. ASSUME NEW k \in Callers, NEW i \in Elapsed, NEW calls \in SUBSET Tools, RecordResult(k, i, calls)
      PROVE  TypeOK'
  <2>1. config' \in Configs /\ held' \in [Providers -> Nat] /\ pc' \in [Callers -> Steps]
        /\ job' \in [Callers -> JobType]
    BY <1>9, <1>l DEF RecordResult, Holding
  <2>2. CASE request[job[k].request].status = "pending" /\ AllNew(calls)
    <3>1. job[k].request \in Requests /\ request[job[k].request] \in RequestType /\ job[k].session \in Sessions
      BY <1>9, <2>2, <1>s DEF RecordResult, Flight, TypeOK, InHand
    <3>2. [request[job[k].request] EXCEPT !.status = "completed"] \in RequestType
      BY <3>1, RequestStatus DEF Statuses, FinalStatuses
    <3>3. request' \in [Requests -> RequestType]
      BY <1>9, <2>2, <3>1, <3>2 DEF RecordResult, TypeOK
    <3>4. spent' \in SpentType
      BY <1>9, <2>2, <1>s DEF RecordResult, Flight
    <3>5. said' \in [Sessions -> Nat]
      BY <1>9, <2>2, <3>1 DEF RecordResult, TypeOK
    <3>6. [status |-> "ready", session |-> job[k].session, result |-> None] \in ToolType
      BY <3>1 DEF ToolType
    <3>7. tool' \in [Tools -> ToolType]
      BY <1>9, <2>2, <3>6 DEF RecordResult, TypeOK
    <3>8. QED BY <1>9, <2>1, <3>3, <3>4, <3>5, <3>7 DEF RecordResult, TypeOK, SpentType
  <2>3. CASE ~(request[job[k].request].status = "pending" /\ AllNew(calls))
    BY <1>9, <2>1, <2>3 DEF RecordResult, TypeOK
  <2>4. QED BY <2>2, <2>3
<1>10. ASSUME NEW t \in Tools, ClaimTool(t) PROVE TypeOK'
  <2>1. [tool[t] EXCEPT !.status = "claimed"] \in ToolType
    BY ToolStatus DEF TypeOK, ToolStatuses
  <2>2. tool' \in [Tools -> ToolType]
    BY <1>10, <2>1 DEF ClaimTool, TypeOK
  <2>3. spent' \in SpentType
    <3>1. spent \in SpentType /\ spent.tools + 1 \in Nat
      BY SpentFields DEF TypeOK, SpentType
    <3>2. spent' = [spent EXCEPT !.tools = spent.tools + 1]
      BY <1>10 DEF ClaimTool
    <3>3. QED BY <3>1, <3>2, SpentUpdates DEF SpentType
  <2>4. QED BY <1>10, <2>2, <2>3 DEF ClaimTool, TypeOK, SpentType
<1>11. ASSUME NEW t \in Tools, NEW r \in Results, FinishTool(t, r) PROVE TypeOK'
  <2>1. [tool[t] EXCEPT !.status = "done", !.result = r] \in ToolType
    <3>1. tool[t] \in ToolType /\ "done" \in ToolStatuses
      BY DEF TypeOK, ToolStatuses
    <3>2. QED BY <3>1, ToolUpdates
  <2>2. tool' = [tool EXCEPT ![t] = [tool[t] EXCEPT !.status = "done", !.result = r]]
    BY <1>11 DEF FinishTool, TypeOK
  <2>3. tool' \in [Tools -> ToolType]
    BY <2>1, <2>2 DEF TypeOK
  <2>4. tool[t].session \in Sessions
    BY <1>11 DEF FinishTool, ToolHeard
  <2>5. said' \in [Sessions -> Nat]
    BY <1>11, <2>4 DEF FinishTool, TypeOK
  <2>6. QED BY <1>11, <2>3, <2>5 DEF FinishTool, TypeOK
<1>12. ASSUME NEW q \in Requests, AbandonRequest(q) PROVE TypeOK'
  <2>1. [request[q] EXCEPT !.status = "abandoned"] \in RequestType
    BY RequestStatus DEF TypeOK, Statuses, FinalStatuses
  <2>2. QED BY <1>12, <2>1 DEF AbandonRequest, TypeOK
<1>13. ASSUME NEW c \in Configs, Restart(c) PROVE TypeOK'
  BY <1>13, NothingTypes DEF Restart, TypeOK, Steps
<1>14. CASE UNCHANGED vars
  BY <1>14 DEF TypeOK
<1>15. QED
  BY StepCases, <1>1, <1>2, <1>3, <1>4, <1>5, <1>6, <1>7, <1>8, <1>9, <1>10, <1>11, <1>12, <1>13, <1>14

-----------------------------------------------------------------------------
(* What the steps do to the records of the ledger and of the callers, field *)
(* by field.                                                                *)
LEMMA StatusSet ==
  ASSUME TypeOK, NEW q \in Requests, NEW s \in Statuses, request' = [request EXCEPT ![q].status = s]
  PROVE  \A r \in Requests :
           /\ request'[r].status = IF r = q THEN s ELSE request[r].status
           /\ request'[r].attempt = request[r].attempt /\ request'[r].session = request[r].session
<1>1. request[q] \in RequestType /\ request' = [request EXCEPT ![q] = [request[q] EXCEPT !.status = s]]
  BY DEF TypeOK
<1>2. QED BY <1>1, RequestStatus DEF TypeOK

(* A failed call changes only the place and the error of its thread.        *)
LEMMA ErrorSet ==
  ASSUME TypeOK, NEW k \in Callers, NEW e \in ErrorType, Fails(k, e)
  PROVE  \A l \in Callers :
           /\ job'[l].request = job[l].request /\ job'[l].session = job[l].session
           /\ job'[l].said = job[l].said /\ job'[l].seen = job[l].seen
           /\ job'[l].provider = job[l].provider /\ job'[l].worked = job[l].worked
           /\ job'[l].error = IF l = k THEN e ELSE job[l].error
           /\ pc'[l] = IF l = k THEN "failing" ELSE pc[l]
<1>1. job[k] \in JobType /\ job' = [job EXCEPT ![k] = [job[k] EXCEPT !.error = e]]
  BY DEF TypeOK, Fails
<1>2. /\ [job[k] EXCEPT !.error = e].request = job[k].request
      /\ [job[k] EXCEPT !.error = e].session = job[k].session
      /\ [job[k] EXCEPT !.error = e].said = job[k].said
      /\ [job[k] EXCEPT !.error = e].seen = job[k].seen
      /\ [job[k] EXCEPT !.error = e].provider = job[k].provider
      /\ [job[k] EXCEPT !.error = e].worked = job[k].worked
      /\ [job[k] EXCEPT !.error = e].error = e
  BY <1>1 DEF JobType
<1>3. QED BY <1>1, <1>2 DEF TypeOK, Fails, Becomes

(* The work of a call is done while the call is in flight, once.            *)
LEMMA WorkSet ==
  ASSUME TypeOK, NEW k \in Callers, Work(k)
  PROVE  \A l \in Callers :
           /\ job'[l].request = job[l].request /\ job'[l].session = job[l].session
           /\ job'[l].said = job[l].said /\ job'[l].seen = job[l].seen
           /\ job'[l].provider = job[l].provider /\ job'[l].error = job[l].error
           /\ job'[l].worked = (l = k \/ job[l].worked)
<1>1. job[k] \in JobType /\ job' = [job EXCEPT ![k] = [job[k] EXCEPT !.worked = TRUE]]
  BY DEF TypeOK, Work
<1>2. /\ [job[k] EXCEPT !.worked = TRUE].request = job[k].request
      /\ [job[k] EXCEPT !.worked = TRUE].session = job[k].session
      /\ [job[k] EXCEPT !.worked = TRUE].said = job[k].said
      /\ [job[k] EXCEPT !.worked = TRUE].seen = job[k].seen
      /\ [job[k] EXCEPT !.worked = TRUE].provider = job[k].provider
      /\ [job[k] EXCEPT !.worked = TRUE].error = job[k].error
      /\ [job[k] EXCEPT !.worked = TRUE].worked = TRUE
  BY <1>1 DEF JobType
<1>3. \A l \in Callers : job'[l] = IF l = k THEN [job[k] EXCEPT !.worked = TRUE] ELSE job[l]
  BY <1>1 DEF TypeOK
<1>4. \A l \in Callers : job[l].worked \in BOOLEAN
  BY JobFields DEF TypeOK
<1>5. QED BY <1>2, <1>3, <1>4

(* A thread that starts a call holds what it has read of the request.       *)
LEMMA InspectSet ==
  ASSUME TypeOK, NEW k \in Callers, NEW q \in Requests, Inspect(k, q)
  PROVE  /\ job'[k].request = q /\ job'[k].session = session /\ session \in Sessions
         /\ job'[k].said = said[session] /\ job'[k].seen = request[q]
         /\ job'[k].provider = ProviderOf[Resolve(config)] /\ job'[k].provider \in Providers
         /\ job'[k].worked = FALSE
         /\ pc'[k] = "checked"
         /\ \A l \in Callers \ {k} : job'[l] = job[l] /\ pc'[l] = pc[l]
<1> DEFINE j == [NoJob EXCEPT !.request = q, !.session = session, !.said = said[session],
                              !.seen = request[q], !.provider = ProviderOf[Resolve(config)]]
<1>1. session \in Sessions /\ config \in Configs
  BY DEF Inspect, TypeOK
<1>2. ProviderOf[Resolve(config)] \in Providers
  BY <1>1, ResolveType DEF Inspect
<1>3. /\ j.request = q /\ j.session = session /\ j.said = said[session] /\ j.seen = request[q]
      /\ j.provider = ProviderOf[Resolve(config)] /\ j.worked = FALSE
  BY DEF NoJob
<1>4. job' = [job EXCEPT ![k] = j]
  BY DEF Inspect
<1> HIDE DEF j
<1>5. QED BY <1>1, <1>2, <1>3, <1>4 DEF Inspect, Becomes, TypeOK

(* A thread that returns changes nothing but its place.                     *)
LEMMA LeaveSet ==
  ASSUME TypeOK, NEW k \in Callers, Leave(k)
  PROVE  /\ pc'[k] = "idle" /\ config' = config
         /\ \A l \in Callers \ {k} : job'[l] = job[l] /\ pc'[l] = pc[l]
BY DEF Leave, Becomes, TypeOK

(* The other threads stay where they are.                                   *)
LEMMA PlaceSet ==
  ASSUME TypeOK, NEW k \in Callers, NEW p, Becomes(k, p)
  PROVE  \A l \in Callers : pc'[l] = IF l = k THEN p ELSE pc[l]
BY DEF Becomes, TypeOK

(* A reservation spends one call and the whole timeout.                     *)
LEMMA ReserveSet ==
  ASSUME TypeOK, InHand, NEW k \in Callers, Reserve(k), Reservable(k)
  PROVE  LET q == job[k].request
         IN /\ q \in Requests /\ request[q] = job[k].seen
            /\ request[q].status \in {"none", "retry_wait"}
            /\ request'[q].status = "pending" /\ request'[q].session = session
            /\ request'[q].attempt = request[q].attempt + 1
            /\ \A r \in Requests \ {q} : request'[r] = request[r]
            /\ \A l \in Callers : pc'[l] = IF l = k THEN "reserved" ELSE pc[l]
            /\ spent'.calls = spent.calls + 1 /\ spent'.tools = spent.tools
            /\ spent'.seconds = spent.seconds + Timeout
            /\ UNCHANGED <<session, bound, said, tool, held, config, job>>
<1>1. job[k].request \in Requests /\ request[job[k].request] = job[k].seen
      /\ job[k].seen.status \in {"none", "retry_wait"}
  BY DEF Reserve, Reservable, InHand
<1>2. spent \in SpentType
  BY DEF TypeOK, SpentType
<1>3. spent' = [spent EXCEPT !.calls = spent.calls + 1, !.seconds = spent.seconds + Timeout]
  BY DEF Reserve
<1>4. spent.calls + 1 \in Nat /\ spent.seconds + Timeout \in Nat
  BY <1>2, SpentFields, LimitsType
<1>5. /\ spent'.calls = spent.calls + 1 /\ spent'.tools = spent.tools
      /\ spent'.seconds = spent.seconds + Timeout
  BY <1>2, <1>3 DEF SpentType
<1>6. request' = [request EXCEPT ![job[k].request] =
                    [status |-> "pending", attempt |-> request[job[k].request].attempt + 1,
                     session |-> session]]
  BY DEF Reserve
<1>7. \A l \in Callers : pc'[l] = IF l = k THEN "reserved" ELSE pc[l]
  BY PlaceSet DEF Reserve
<1>8. QED BY <1>1, <1>5, <1>6, <1>7 DEF Reserve, TypeOK

(* A settled call gives back what it did not use.                           *)
LEMMA SettledSet ==
  ASSUME TypeOK, NEW i \in Elapsed, spent' = Settled(i), spent.seconds >= Timeout
  PROVE  /\ spent'.calls = spent.calls /\ spent'.tools = spent.tools
         /\ spent'.seconds = spent.seconds + i - Timeout
<1>1. spent \in SpentType /\ spent.seconds \in Nat
  BY SpentFields DEF TypeOK, SpentType
<1>2. spent.seconds + i - Timeout \in Nat
  BY <1>1, LimitsType, BoundsType DEF Elapsed
<1>3. QED BY <1>1, <1>2, SpentUpdates DEF Settled

(* What the record of a failure writes.                                     *)
LEMMA FailureSet ==
  ASSUME TypeOK, InHand, Reserved, NEW k \in Callers, NEW i \in Elapsed, RecordFailure(k, i)
  PROVE  LET q == job[k].request
         IN /\ q \in Requests /\ pc[k] = "failing" /\ Leave(k)
            /\ UNCHANGED <<session, bound, said, tool, asked, ran>>
            /\ \/ UNCHANGED <<request, spent>> /\ request[q].status # "pending"
               \/ /\ request[q].status = "pending"
                  /\ \E s \in {"failed", "retry_wait"} :
                       /\ s = "retry_wait" => job[k].error.retryable
                       /\ \A r \in Requests :
                            /\ request'[r].status = IF r = q THEN s ELSE request[r].status
                            /\ request'[r].attempt = request[r].attempt
                            /\ request'[r].session = request[r].session
                  /\ spent'.calls = spent.calls /\ spent'.tools = spent.tools
                  /\ spent'.seconds = spent.seconds + i - Timeout
<1>1. job[k].request \in Requests /\ pc[k] = "failing"
  BY DEF RecordFailure, InHand
<1>2. CASE request[job[k].request].status = "pending"
  <2>1. PICK s \in {"failed", "retry_wait"} :
          /\ s = "retry_wait" => job[k].error.retryable
          /\ request' = [request EXCEPT ![job[k].request].status = s]
    BY <1>2 DEF RecordFailure, Retry
  <2>2. s \in Statuses
    BY DEF Statuses, OpenStatuses, FinalStatuses
  <2>3. spent' = Settled(i) /\ spent.seconds >= Timeout
    BY <1>1, <1>2, SpentFields, LimitsType DEF RecordFailure, Reserved, TypeOK, SpentType
  <2>4. \A r \in Requests :
          /\ request'[r].status = IF r = job[k].request THEN s ELSE request[r].status
          /\ request'[r].attempt = request[r].attempt /\ request'[r].session = request[r].session
    BY <1>1, <2>1, <2>2, StatusSet
  <2>5. QED BY <1>1, <1>2, <2>1, <2>3, <2>4, SettledSet DEF RecordFailure
<1>3. CASE request[job[k].request].status # "pending"
  BY <1>1, <1>3 DEF RecordFailure
<1>4. QED BY <1>2, <1>3

(* What the record of a result writes.                                      *)
LEMMA ResultSet ==
  ASSUME TypeOK, InHand, Reserved, NEW k \in Callers, NEW i \in Elapsed, NEW calls \in SUBSET Tools,
         RecordResult(k, i, calls)
  PROVE  LET q == job[k].request
         IN /\ q \in Requests /\ pc[k] = "answered" /\ Leave(k)
            /\ UNCHANGED <<session, bound, asked, ran>>
            /\ \/ UNCHANGED <<request, spent, said, tool>>
               \/ /\ request[q].status = "pending" /\ AllNew(calls)
                  /\ job[k].session \in Sessions
                  /\ \A r \in Requests :
                       /\ request'[r].status = IF r = q THEN "completed" ELSE request[r].status
                       /\ request'[r].attempt = request[r].attempt
                       /\ request'[r].session = request[r].session
                  /\ spent'.calls = spent.calls /\ spent'.tools = spent.tools
                  /\ spent'.seconds = spent.seconds + i - Timeout
                  /\ said' = [said EXCEPT ![job[k].session] = @ + 1]
                  /\ \A t \in Tools :
                       /\ t \in calls => tool[t].status = "absent" /\ tool'[t].status = "ready"
                                         /\ tool'[t].session = job[k].session
                       /\ t \notin calls => tool'[t] = tool[t]
<1>1. job[k].request \in Requests /\ job[k].session \in Sessions /\ pc[k] = "answered"
  BY DEF RecordResult, InHand
<1>2. CASE request[job[k].request].status = "pending" /\ AllNew(calls)
  <2>1. request' = [request EXCEPT ![job[k].request].status = "completed"]
    BY <1>2 DEF RecordResult
  <2>2. "completed" \in Statuses
    BY DEF Statuses, OpenStatuses, FinalStatuses
  <2>3. spent' = Settled(i) /\ spent.seconds >= Timeout
    BY <1>1, <1>2, SpentFields, LimitsType DEF RecordResult, Reserved, TypeOK, SpentType
  <2>4. \A r \in Requests :
          /\ request'[r].status = IF r = job[k].request THEN "completed" ELSE request[r].status
          /\ request'[r].attempt = request[r].attempt /\ request'[r].session = request[r].session
    BY <1>1, <2>1, <2>2, StatusSet
  <2>5. \A t \in Tools :
          /\ t \in calls => tool[t].status = "absent" /\ tool'[t].status = "ready"
                            /\ tool'[t].session = job[k].session
          /\ t \notin calls => tool'[t] = tool[t]
    BY <1>2 DEF RecordResult, AllNew
  <2>6. QED BY <1>1, <1>2, <2>3, <2>4, <2>5, SettledSet DEF RecordResult
<1>3. CASE ~(request[job[k].request].status = "pending" /\ AllNew(calls))
  BY <1>1, <1>3 DEF RecordResult
<1>4. QED BY <1>2, <1>3

-----------------------------------------------------------------------------
(* A pending request stays in the hands of the thread that reserved it.     *)
LEMMA InHandStep ==
  ASSUME TypeOK, InHand, Reserved, WorkedOnce, [Next]_vars
  PROVE  InHand'
<1> USE DEF vars, ledger, process, Flight
<1>1. ASSUME UNCHANGED <<pc, job, request>> PROVE InHand'
  BY <1>1 DEF InHand
<1>2. ASSUME NEW k \in Callers, NEW q \in Requests, Inspect(k, q) PROVE InHand'
  <2>1. UNCHANGED request /\ request[q].status \in {"none", "retry_wait"}
    BY <1>2 DEF Inspect
  <2>2. /\ job'[k].request \in Requests /\ job'[k].session \in Sessions /\ job'[k].provider \in Providers
        /\ job'[k].seen.status \in {"none", "retry_wait"} /\ pc'[k] = "checked"
        /\ \A l \in Callers \ {k} : job'[l] = job[l] /\ pc'[l] = pc[l]
    BY <1>2, <2>1, InspectSet
  <2>3. QED BY <2>1, <2>2 DEF InHand
<1>3. ASSUME NEW k \in Callers, TakeSlot(k) \/ Busy(k) PROVE InHand'
  <2>1. CASE TakeSlot(k)
    BY <2>1, PlaceSet DEF TakeSlot, InHand
  <2>2. CASE Busy(k)
    <3>1. \A l \in Callers : pc'[l] = IF l = k THEN "idle" ELSE pc[l]
      BY <2>2, PlaceSet DEF Busy
    <3>2. \A l \in Callers \ {k} : job'[l] = job[l]
      BY <2>2 DEF Busy, TypeOK
    <3>3. QED BY <2>2, <3>1, <3>2 DEF Busy, InHand
  <2>3. QED BY <1>3, <2>1, <2>2
<1>l. ASSUME NEW k \in Callers, Leave(k), UNCHANGED request PROVE InHand'
  BY <1>l, LeaveSet DEF InHand
<1>4. ASSUME NEW k \in Callers, Reserve(k) PROVE InHand'
  <2>1. CASE Reservable(k)
    BY <1>4, <2>1, ReserveSet DEF InHand, Reserve
  <2>2. CASE ~Reservable(k)
    BY <1>4, <2>2, <1>l DEF Reserve
  <2>3. QED BY <2>1, <2>2
<1>5. ASSUME NEW k \in Callers, NEW e \in ErrorType, pc[k] \in {"reserved", "sent", "answered"}, Fails(k, e)
      PROVE  InHand'
  <2>1. UNCHANGED request
    BY <1>5 DEF Fails
  <2>2. QED BY <1>5, <2>1, ErrorSet DEF InHand
<1>6. ASSUME NEW k \in Callers, Send(k) \/ AnswerResult(k) PROVE InHand'
  BY <1>6, PlaceSet DEF Send, AnswerResult, InHand
<1>7. ASSUME NEW k \in Callers, Work(k) PROVE InHand'
  <2>1. UNCHANGED <<request, pc>>
    BY <1>7 DEF Work
  <2>2. QED BY <1>7, <2>1, WorkSet DEF InHand
<1>8. ASSUME NEW k \in Callers, NEW i \in Elapsed, RecordFailure(k, i) PROVE InHand'
  BY <1>8, FailureSet, LeaveSet DEF InHand
<1>9. ASSUME NEW k \in Callers, NEW i \in Elapsed, NEW calls \in SUBSET Tools, RecordResult(k, i, calls)
      PROVE  InHand'
  BY <1>9, ResultSet, LeaveSet DEF InHand
<1>10. ASSUME NEW q \in Requests, AbandonRequest(q) PROVE InHand'
  <2>1. \A r \in Requests : request'[r].status = IF r = q THEN "abandoned" ELSE request[r].status
    <3>1. request' = [request EXCEPT ![q].status = "abandoned"] /\ "abandoned" \in Statuses
      BY <1>10 DEF AbandonRequest, Statuses, FinalStatuses
    <3>2. QED BY <3>1, StatusSet
  <2>2. QED BY <1>10, <2>1 DEF AbandonRequest, InHand
<1>11. ASSUME NEW c \in Configs, Restart(c) PROVE InHand'
  BY <1>11 DEF Restart, InHand
<1>12. QED
  BY StepCases, <1>1, <1>2, <1>3, <1>4, <1>5, <1>6, <1>7, <1>8, <1>9, <1>10, <1>11
  DEF OpenSession, ClaimTool, FinishTool

(* A tool belongs to the session of the response that named it.             *)
LEMMA ToolHeardStep ==
  ASSUME TypeOK, InHand, Reserved, WorkedOnce, ToolHeard, [Next]_vars
  PROVE  ToolHeard'
<1> USE DEF vars, ledger, process
<1>1. ASSUME UNCHANGED tool PROVE ToolHeard'
  BY <1>1 DEF ToolHeard
<1>2. ASSUME NEW k \in Callers, NEW i \in Elapsed, NEW calls \in SUBSET Tools, RecordResult(k, i, calls)
      PROVE  ToolHeard'
  BY <1>2, ResultSet DEF ToolHeard
<1>3. ASSUME NEW t \in Tools, ClaimTool(t) \/ \E r \in Results : FinishTool(t, r) PROVE ToolHeard'
  <2>1. tool[t] \in ToolType /\ tool[t].status # "absent"
    BY <1>3 DEF ClaimTool, FinishTool, TypeOK
  <2>2. tool'[t].session = tool[t].session /\ \A u \in Tools \ {t} : tool'[u] = tool[u]
    BY <1>3, <2>1 DEF ClaimTool, FinishTool, TypeOK, ToolType
  <2>3. QED BY <2>1, <2>2 DEF ToolHeard
<1>4. QED
  BY StepCases, <1>1, <1>2, <1>3
  DEF OpenSession, Inspect, TakeSlot, Busy, Reserve, Fails, Send, AnswerResult, Work, RecordFailure,
      AbandonRequest, Restart

(* Claiming is the only step that lets a tool run, and needs it ready.      *)
LEMMA RanStep ==
  ASSUME TypeOK, InHand, Reserved, WorkedOnce, RanOnce, [Next]_vars
  PROVE  RanOnce'
<1> USE DEF vars, ledger, process
<1>1. ASSUME UNCHANGED <<tool, ran>> PROVE RanOnce'
  BY <1>1 DEF RanOnce
<1>2. ASSUME NEW k \in Callers, NEW i \in Elapsed, NEW calls \in SUBSET Tools, RecordResult(k, i, calls)
      PROVE  RanOnce'
  BY <1>2, ResultSet DEF RanOnce
<1>3. ASSUME NEW t \in Tools, ClaimTool(t) PROVE RanOnce'
  <2>1. tool'[t].status = "claimed" /\ \A u \in Tools \ {t} : tool'[u] = tool[u]
    BY <1>3 DEF ClaimTool, TypeOK, ToolType
  <2>2. ran[t] = 0 /\ ran'[t] = 1 /\ \A u \in Tools \ {t} : ran'[u] = ran[u]
    BY <1>3 DEF ClaimTool, TypeOK, RanOnce
  <2>3. QED BY <2>1, <2>2 DEF RanOnce
<1>4. ASSUME NEW t \in Tools, NEW r \in Results, FinishTool(t, r) PROVE RanOnce'
  <2>1. tool'[t].status = "done" /\ \A u \in Tools \ {t} : tool'[u] = tool[u]
    BY <1>4 DEF FinishTool, TypeOK, ToolType
  <2>2. QED BY <1>4, <2>1 DEF FinishTool, RanOnce
<1>5. QED
  BY StepCases, <1>1, <1>2, <1>3, <1>4
  DEF OpenSession, Inspect, TakeSlot, Busy, Reserve, Fails, Send, AnswerResult, Work, RecordFailure,
      AbandonRequest, Restart

(* An abandoned request is not open.                                        *)
LEMMA AbandonSet ==
  ASSUME TypeOK, NEW q \in Requests, AbandonRequest(q)
  PROVE  \A r \in Requests :
           /\ request'[r].status = IF r = q THEN "abandoned" ELSE request[r].status
           /\ request'[r].attempt = request[r].attempt /\ request'[r].session = request[r].session
<1>1. request' = [request EXCEPT ![q].status = "abandoned"] /\ "abandoned" \in Statuses
  BY DEF AbandonRequest, Statuses, FinalStatuses
<1>2. QED BY <1>1, StatusSet

(* A request is reserved only when no other one is open and no tool waits.  *)
LEMMA OneOpenStep ==
  ASSUME TypeOK, InHand, Reserved, WorkedOnce, OneOpen, [Next]_vars
  PROVE  OneOpen'
<1> USE DEF vars, ledger, process, Open, OpenStatuses
<1>1. ASSUME UNCHANGED <<request, tool, session>> PROVE OneOpen'
  BY <1>1 DEF OneOpen, ToolsDone
<1>2. ASSUME NEW s \in Sessions, OpenSession(s) PROVE OneOpen'
  BY <1>2 DEF OpenSession, OneOpen, Idle
<1>3. ASSUME NEW k \in Callers, Reserve(k) PROVE OneOpen'
  <2>1. CASE Reservable(k)
    <3> DEFINE q == job[k].request
    <3>1. ToolsDone /\ \A r \in Requests \ {q} : ~Open(r)
      BY <2>1 DEF Reservable
    <3>2. /\ q \in Requests /\ request'[q].session = session'
          /\ \A r \in Requests \ {q} : request'[r] = request[r]
          /\ tool' = tool
      BY <1>3, <2>1, ReserveSet
    <3>3. ToolsDone'
      BY <3>1, <3>2 DEF ToolsDone
    <3>4. QED BY <3>1, <3>2, <3>3 DEF OneOpen
  <2>2. CASE ~Reservable(k)
    BY <1>1, <1>3, <2>2 DEF Reserve
  <2>3. QED BY <2>1, <2>2
<1>4. ASSUME NEW k \in Callers, NEW i \in Elapsed, RecordFailure(k, i) PROVE OneOpen'
  <2>1. CASE UNCHANGED request
    BY <1>1, <1>4, <2>1 DEF RecordFailure
  <2>2. CASE request[job[k].request].status = "pending"
    <3>1. UNCHANGED <<session, tool>>
      BY <1>4 DEF RecordFailure
    <3>2. \A r \in Requests : request'[r].session = request[r].session /\ (Open(r)' => Open(r))
      BY <1>4, <2>2, FailureSet
    <3>3. QED BY <3>1, <3>2 DEF OneOpen, ToolsDone
  <2>3. QED BY <1>4, <2>1, <2>2, FailureSet
<1>5. ASSUME NEW k \in Callers, NEW i \in Elapsed, NEW calls \in SUBSET Tools, RecordResult(k, i, calls)
      PROVE  OneOpen'
  <2>1. CASE UNCHANGED <<request, tool>>
    BY <1>1, <1>5, <2>1 DEF RecordResult
  <2>2. CASE /\ request[job[k].request].status = "pending"
             /\ \A r \in Requests : request'[r].status = IF r = job[k].request THEN "completed"
                                                         ELSE request[r].status
    <3>1. \A r \in Requests : ~Open(r)'
      BY <1>5, <2>2, ResultSet DEF OneOpen
    <3>2. QED BY <3>1 DEF OneOpen
  <2>3. QED BY <1>5, <2>1, <2>2, ResultSet
<1>6. ASSUME NEW t \in Tools, ClaimTool(t) \/ \E r \in Results : FinishTool(t, r) PROVE OneOpen'
  <2>1. ~ToolsDone
    BY <1>6 DEF ClaimTool, FinishTool, ToolsDone
  <2>2. \A q \in Requests : ~Open(q)'
    BY <1>6, <2>1 DEF OneOpen, ClaimTool, FinishTool
  <2>3. QED BY <2>2 DEF OneOpen
<1>7. ASSUME NEW q \in Requests, AbandonRequest(q) PROVE OneOpen'
  <2>1. UNCHANGED <<session, tool>>
    BY <1>7 DEF AbandonRequest
  <2>2. \A r \in Requests : request'[r].session = request[r].session /\ (Open(r)' => Open(r))
    BY <1>7, AbandonSet
  <2>3. QED BY <2>1, <2>2 DEF OneOpen, ToolsDone
<1>8. QED
  BY StepCases, <1>1, <1>2, <1>3, <1>4, <1>5, <1>6, <1>7
  DEF Inspect, TakeSlot, Busy, Fails, Send, AnswerResult, Work, Restart

(* The reservation of the pending request keeps its place in the time of    *)
(* the run until it is settled, and only its own overrun comes on top.      *)
LEMMA BudgetStep ==
  ASSUME TypeOK, InHand, Reserved, WorkedOnce, OneOpen, BudgetHeld, [Next]_vars
  PROVE  Reserved' /\ BudgetHeld'
<1> USE DEF vars, ledger, process
<1>0. /\ spent.calls \in Nat /\ spent.tools \in Nat /\ spent.seconds \in Nat
      /\ Timeout \in Nat /\ MaxOverrun \in Nat /\ TimeLimit \in Nat /\ CallLimit \in Nat
      /\ ToolLimit \in Nat /\ RetryLimit \in Nat
  BY SpentFields, LimitsType, BoundsType DEF TypeOK, SpentType
<1>1. ASSUME UNCHANGED <<request, spent>> PROVE Reserved' /\ BudgetHeld'
  BY <1>1 DEF Reserved, BudgetHeld
<1>2. ASSUME NEW k \in Callers, Reserve(k) PROVE Reserved' /\ BudgetHeld'
  <2>1. CASE Reservable(k)
    <3> DEFINE q == job[k].request
    <3>1. /\ spent.calls < CallLimit /\ spent.seconds + Timeout <= TimeLimit
          /\ job[k].seen.attempt < RetryLimit
      BY <2>1 DEF Reservable
    <3>2. /\ q \in Requests /\ request'[q].attempt = request[q].attempt + 1 /\ request[q] = job[k].seen
          /\ \A r \in Requests \ {q} : request'[r] = request[r]
          /\ spent'.calls = spent.calls + 1 /\ spent'.tools = spent.tools
          /\ spent'.seconds = spent.seconds + Timeout
      BY <1>2, <2>1, ReserveSet
    <3>3. request[q].attempt \in Nat
      BY <3>2, RequestFields DEF TypeOK
    <3>4. Timeout <= spent'.seconds /\ spent'.seconds <= TimeLimit
      BY <1>0, <3>1, <3>2
    <3>5. Reserved'
      BY <3>4 DEF Reserved
    <3>6. spent'.calls <= CallLimit /\ spent'.tools <= ToolLimit /\ spent'.seconds <= TimeLimit + MaxOverrun
      BY <1>0, <3>1, <3>2, <3>4 DEF BudgetHeld
    <3>7. \A r \in Requests : request'[r].attempt <= RetryLimit
      BY <1>0, <3>1, <3>2, <3>3 DEF BudgetHeld
    <3>8. QED BY <3>5, <3>6, <3>7 DEF BudgetHeld
  <2>2. CASE ~Reservable(k)
    BY <1>1, <1>2, <2>2 DEF Reserve
  <2>3. QED BY <2>1, <2>2
<1>3. ASSUME NEW q \in Requests, request[q].status = "pending", NEW i \in Elapsed,
             request'[q].status # "pending",
             \A r \in Requests \ {q} : request'[r].status = request[r].status,
             \A r \in Requests : request'[r].attempt = request[r].attempt,
             spent'.calls = spent.calls, spent'.tools = spent.tools,
             spent'.seconds = spent.seconds + i - Timeout
      PROVE  Reserved' /\ BudgetHeld'
  <2>1. \A r \in Requests : request'[r].status # "pending"
    BY <1>3 DEF OneOpen, Open, OpenStatuses
  <2>2. i \in Nat /\ i <= Timeout + MaxOverrun /\ spent.seconds <= TimeLimit /\ spent.seconds >= Timeout
    BY <1>0, <1>3 DEF Elapsed, Reserved
  <2>3. spent'.seconds <= TimeLimit + MaxOverrun
    BY <1>0, <1>3, <2>2
  <2>4. QED BY <1>3, <2>1, <2>3 DEF Reserved, BudgetHeld
<1>4. ASSUME NEW k \in Callers, NEW i \in Elapsed, RecordFailure(k, i) PROVE Reserved' /\ BudgetHeld'
  <2>1. CASE UNCHANGED <<request, spent>>
    BY <1>1, <2>1
  <2>2. CASE request[job[k].request].status = "pending"
    <3>1. job[k].request \in Requests
      BY <1>4, FailureSet
    <3>2. /\ request'[job[k].request].status # "pending"
          /\ \A r \in Requests \ {job[k].request} : request'[r].status = request[r].status
          /\ \A r \in Requests : request'[r].attempt = request[r].attempt
          /\ spent'.calls = spent.calls /\ spent'.tools = spent.tools
          /\ spent'.seconds = spent.seconds + i - Timeout
      BY <1>4, <2>2, FailureSet
    <3>3. QED BY <1>3, <2>2, <3>1, <3>2
  <2>3. QED BY <1>4, <2>1, <2>2, FailureSet
<1>5. ASSUME NEW k \in Callers, NEW i \in Elapsed, NEW calls \in SUBSET Tools, RecordResult(k, i, calls)
      PROVE  Reserved' /\ BudgetHeld'
  <2>1. CASE UNCHANGED <<request, spent>>
    BY <1>1, <2>1
  <2>2. CASE ~UNCHANGED <<request, spent>>
    <3>1. job[k].request \in Requests /\ request[job[k].request].status = "pending"
      BY <1>5, <2>2, ResultSet
    <3>2. /\ request'[job[k].request].status # "pending"
          /\ \A r \in Requests \ {job[k].request} : request'[r].status = request[r].status
          /\ \A r \in Requests : request'[r].attempt = request[r].attempt
          /\ spent'.calls = spent.calls /\ spent'.tools = spent.tools
          /\ spent'.seconds = spent.seconds + i - Timeout
      BY <1>5, <2>2, ResultSet
    <3>3. QED BY <1>3, <3>1, <3>2
  <2>3. QED BY <2>1, <2>2
<1>6. ASSUME NEW t \in Tools, ClaimTool(t) PROVE Reserved' /\ BudgetHeld'
  <2>1. spent.tools < ToolLimit /\ spent' = [spent EXCEPT !.tools = @ + 1]
    BY <1>6 DEF ClaimTool
  <2>2. spent'.calls = spent.calls /\ spent'.tools = spent.tools + 1 /\ spent'.seconds = spent.seconds
    BY <2>1 DEF TypeOK
  <2>3. spent'.tools <= ToolLimit /\ UNCHANGED request
    BY <1>0, <1>6, <2>1, <2>2 DEF ClaimTool
  <2>4. QED BY <2>2, <2>3 DEF Reserved, BudgetHeld
<1>7. ASSUME NEW q \in Requests, AbandonRequest(q) PROVE Reserved' /\ BudgetHeld'
  <2>1. UNCHANGED spent
    BY <1>7 DEF AbandonRequest
  <2>2. QED BY <1>7, <2>1, AbandonSet DEF Reserved, BudgetHeld
<1>8. QED
  BY StepCases, <1>1, <1>2, <1>4, <1>5, <1>6, <1>7
  DEF OpenSession, FinishTool, Inspect, TakeSlot, Busy, Fails, Send, AnswerResult, Work, Restart

(* A call that may have been worked on ends in doubt and is not reserved again. *)
LEMMA WorkedStep ==
  ASSUME TypeOK, InHand, Reserved, WorkedOnce, [Next]_vars
  PROVE  WorkedOnce'
<1> USE DEF vars, ledger, process, Flight
<1>1. ASSUME UNCHANGED <<pc, job, request, asked>> PROVE WorkedOnce'
  BY <1>1 DEF WorkedOnce
<1>2. ASSUME NEW k \in Callers, NEW q \in Requests, Inspect(k, q) PROVE WorkedOnce'
  <2>1. /\ job'[k].worked = FALSE /\ pc'[k] = "checked"
        /\ \A l \in Callers \ {k} : job'[l] = job[l] /\ pc'[l] = pc[l]
    BY <1>2, InspectSet
  <2>2. UNCHANGED <<request, asked>>
    BY <1>2 DEF Inspect
  <2>3. QED BY <2>1, <2>2 DEF WorkedOnce
<1>3. ASSUME NEW k \in Callers, TakeSlot(k) \/ Busy(k) PROVE WorkedOnce'
  <2>1. CASE TakeSlot(k)
    BY <2>1, PlaceSet DEF TakeSlot, WorkedOnce
  <2>2. CASE Busy(k)
    <3>1. \A l \in Callers : pc'[l] = IF l = k THEN "idle" ELSE pc[l]
      BY <2>2, PlaceSet DEF Busy
    <3>2. \A l \in Callers \ {k} : job'[l] = job[l]
      BY <2>2 DEF Busy, TypeOK
    <3>3. QED BY <2>2, <3>1, <3>2 DEF Busy, WorkedOnce
  <2>3. QED BY <1>3, <2>1, <2>2
<1>4. ASSUME NEW k \in Callers, Reserve(k) PROVE WorkedOnce'
  <2>1. CASE Reservable(k)
    <3>1. UNCHANGED <<asked, job>> /\ pc[k] = "slotted"
      BY <1>4, <2>1 DEF Reserve
    <3>2. QED BY <1>4, <2>1, <3>1, ReserveSet DEF WorkedOnce
  <2>2. CASE ~Reservable(k)
    <3>1. Leave(k) /\ UNCHANGED <<request, asked>>
      BY <1>4, <2>2 DEF Reserve
    <3>2. QED BY <3>1, LeaveSet DEF WorkedOnce
  <2>3. QED BY <2>1, <2>2
<1>5. ASSUME NEW k \in Callers, NEW e \in ErrorType, pc[k] \in {"reserved", "sent", "answered"},
             Fails(k, e), e.retryable => ~job[k].worked
      PROVE  WorkedOnce'
  <2>1. UNCHANGED <<request, asked>>
    BY <1>5 DEF Fails
  <2>2. QED BY <1>5, <2>1, ErrorSet DEF WorkedOnce
<1>6. ASSUME NEW k \in Callers, Send(k) \/ AnswerResult(k) PROVE WorkedOnce'
  BY <1>6, PlaceSet DEF Send, AnswerResult, WorkedOnce
<1>7. ASSUME NEW k \in Callers, Work(k) PROVE WorkedOnce'
  <2> DEFINE q == job[k].request
  <2>1. /\ UNCHANGED <<request, pc>> /\ pc[k] = "sent" /\ ~job[k].worked
        /\ asked' = [asked EXCEPT ![q] = @ + 1]
    BY <1>7 DEF Work
  <2>2. q \in Requests /\ request[q].status \in {"pending", "abandoned"} /\ asked[q] = 0
    BY <2>1 DEF InHand, WorkedOnce
  <2>3. asked'[q] = 1 /\ \A r \in Requests \ {q} : asked'[r] = asked[r]
    BY <2>1, <2>2 DEF TypeOK
  <2>4. \A l \in Callers : pc[l] \in Flight /\ ~job'[l].worked => job[l].request # q
    BY <1>7, <2>1, WorkSet DEF InHand
  <2>5. \A r \in Requests :
          /\ asked'[r] \in {0, 1}
          /\ request'[r].status \in {"none", "retry_wait"} => asked'[r] = 0
    BY <2>1, <2>2, <2>3 DEF WorkedOnce
  <2>6. \A l \in Callers :
          /\ pc'[l] \in {"checked", "slotted", "reserved"} => ~job'[l].worked
          /\ pc'[l] = "failing" /\ job'[l].error.retryable => ~job'[l].worked
    BY <1>7, <2>1, WorkSet DEF WorkedOnce
  <2>7. \A l \in Callers : pc'[l] \in Flight /\ ~job'[l].worked => asked'[job'[l].request] = 0
    BY <1>7, <2>1, <2>3, <2>4, WorkSet DEF WorkedOnce, InHand
  <2>8. QED BY <2>5, <2>6, <2>7 DEF WorkedOnce
<1>8. ASSUME NEW k \in Callers, NEW i \in Elapsed, RecordFailure(k, i) PROVE WorkedOnce'
  <2>1. CASE UNCHANGED request
    BY <1>8, <2>1, FailureSet, LeaveSet DEF WorkedOnce
  <2>2. CASE request[job[k].request].status = "pending"
    <3>1. PICK s \in {"failed", "retry_wait"} :
            /\ s = "retry_wait" => job[k].error.retryable
            /\ \A r \in Requests :
                 request'[r].status = IF r = job[k].request THEN s ELSE request[r].status
      BY <1>8, <2>2, FailureSet
    <3>2. pc[k] = "failing" /\ Leave(k) /\ UNCHANGED asked
      BY <1>8, FailureSet
    <3>3. s = "retry_wait" => asked[job[k].request] = 0
      BY <3>1, <3>2 DEF WorkedOnce
    <3>4. QED BY <3>1, <3>2, <3>3, LeaveSet DEF WorkedOnce
  <2>3. QED BY <1>8, <2>1, <2>2, FailureSet
<1>9. ASSUME NEW k \in Callers, NEW i \in Elapsed, NEW calls \in SUBSET Tools, RecordResult(k, i, calls)
      PROVE  WorkedOnce'
  <2>1. Leave(k) /\ UNCHANGED asked
    BY <1>9, ResultSet
  <2>2. \A r \in Requests : request'[r].status \in {"none", "retry_wait"} => request'[r].status = request[r].status
    BY <1>9, ResultSet
  <2>3. QED BY <2>1, <2>2, LeaveSet DEF WorkedOnce
<1>10. ASSUME NEW q \in Requests, AbandonRequest(q) PROVE WorkedOnce'
  BY <1>10, AbandonSet DEF AbandonRequest, WorkedOnce
<1>11. ASSUME NEW c \in Configs, Restart(c) PROVE WorkedOnce'
  BY <1>11 DEF Restart, WorkedOnce
<1>12. QED
  BY StepCases, <1>1, <1>2, <1>3, <1>4, <1>5, <1>6, <1>7, <1>8, <1>9, <1>10, <1>11
  DEF OpenSession, ClaimTool, FinishTool

Asking == {"reserved", "sent", "answered"}

(* A reservation checks the prompt against the session as it is then.       *)
LEMMA PromptStep ==
  ASSUME TypeOK, InHand, Reserved, WorkedOnce, OneOpen, PromptComplete, [Next]_vars
  PROVE  PromptComplete'
<1> USE DEF vars, ledger, process, Flight, Open, OpenStatuses
<1>1. ASSUME UNCHANGED <<session, said>>,
             \A l \in Callers : pc'[l] \in Asking /\ request'[job'[l].request].status = "pending" =>
               /\ pc[l] \in Asking /\ request[job[l].request].status = "pending"
               /\ job'[l].session = job[l].session /\ job'[l].said = job[l].said
      PROVE  PromptComplete'
  BY <1>1 DEF PromptComplete, Asking
<1>2. ASSUME NEW s \in Sessions, OpenSession(s) PROVE PromptComplete'
  <2>1. UNCHANGED <<pc, job, request>> /\ \A q \in Requests : request[q].status # "pending"
    BY <1>2 DEF OpenSession, Idle
  <2>2. QED BY <2>1 DEF PromptComplete, InHand
<1>3. ASSUME NEW k \in Callers, NEW q \in Requests, Inspect(k, q) PROVE PromptComplete'
  <2>1. pc'[k] = "checked" /\ \A l \in Callers \ {k} : job'[l] = job[l] /\ pc'[l] = pc[l]
    BY <1>3, InspectSet
  <2>2. UNCHANGED <<request, session, said>>
    BY <1>3 DEF Inspect
  <2>3. QED BY <1>1, <2>1, <2>2 DEF Asking
<1>4. ASSUME NEW k \in Callers, TakeSlot(k) \/ Busy(k) PROVE PromptComplete'
  <2>1. \A l \in Callers \ {k} : pc'[l] = pc[l] /\ job'[l] = job[l]
    BY <1>4, PlaceSet DEF TakeSlot, Busy, TypeOK
  <2>2. pc'[k] \notin Asking /\ UNCHANGED <<request, session, said>>
    BY <1>4, PlaceSet DEF TakeSlot, Busy, Asking
  <2>3. QED BY <1>1, <2>1, <2>2
<1>l. ASSUME NEW k \in Callers, Leave(k), UNCHANGED <<session, said>>,
             \A r \in Requests : request'[r].status = "pending" => request[r].status = "pending"
      PROVE  PromptComplete'
  <2>1. pc'[k] = "idle" /\ \A l \in Callers \ {k} : job'[l] = job[l] /\ pc'[l] = pc[l]
    BY <1>l, LeaveSet
  <2>2. \A l \in Callers : pc[l] \in Asking => job[l].request \in Requests
    BY DEF InHand, Asking
  <2>3. QED BY <1>1, <1>l, <2>1, <2>2 DEF Asking
<1>5. ASSUME NEW k \in Callers, Reserve(k) PROVE PromptComplete'
  <2>1. CASE Reservable(k)
    <3> DEFINE q == job[k].request
    <3>1. /\ q \in Requests /\ request[q].status \in {"none", "retry_wait"}
          /\ \A r \in Requests \ {q} : request'[r] = request[r]
          /\ \A l \in Callers : pc'[l] = IF l = k THEN "reserved" ELSE pc[l]
          /\ UNCHANGED <<session, said, job>>
      BY <1>5, <2>1, ReserveSet
    <3>2. job[k].session = session /\ job[k].said = said[session]
      BY <2>1 DEF Reservable
    <3>3. \A l \in Callers \ {k} : pc[l] \in Asking => job[l].request \in Requests \ {q}
      BY <3>1 DEF InHand, Asking
    <3>4. ASSUME NEW l \in Callers, pc'[l] \in Asking, request'[job'[l].request].status = "pending"
          PROVE  job'[l].session = session' /\ job'[l].said = said'[session']
      BY <3>1, <3>2, <3>3, <3>4 DEF PromptComplete, Asking
    <3>5. QED BY <3>4 DEF PromptComplete, Asking
  <2>2. CASE ~Reservable(k)
    BY <1>5, <2>2, <1>l DEF Reserve
  <2>3. QED BY <2>1, <2>2
<1>6. ASSUME NEW k \in Callers, NEW e \in ErrorType, pc[k] \in {"reserved", "sent", "answered"}, Fails(k, e)
      PROVE  PromptComplete'
  <2>1. UNCHANGED <<request, session, said>>
    BY <1>6 DEF Fails
  <2>2. QED BY <1>1, <1>6, <2>1, ErrorSet DEF Asking
<1>7. ASSUME NEW k \in Callers, Send(k) \/ AnswerResult(k) PROVE PromptComplete'
  <2>1. UNCHANGED <<request, session, said, job>> /\ pc[k] \in Asking
    BY <1>7 DEF Send, AnswerResult, Asking
  <2>2. \A l \in Callers \ {k} : pc'[l] = pc[l]
    BY <1>7, PlaceSet DEF Send, AnswerResult
  <2>3. QED BY <1>1, <2>1, <2>2
<1>8. ASSUME NEW k \in Callers, Work(k) PROVE PromptComplete'
  <2>1. UNCHANGED <<request, session, said, pc>>
    BY <1>8 DEF Work
  <2>2. QED BY <1>1, <1>8, <2>1, WorkSet
<1>9. ASSUME NEW k \in Callers, NEW i \in Elapsed, RecordFailure(k, i) PROVE PromptComplete'
  <2>1. Leave(k) /\ UNCHANGED <<session, said>>
    BY <1>9, FailureSet
  <2>2. \A r \in Requests : request'[r].status = "pending" => request[r].status = "pending"
    BY <1>9, FailureSet
  <2>3. QED BY <1>l, <2>1, <2>2
<1>10. ASSUME NEW k \in Callers, NEW i \in Elapsed, NEW calls \in SUBSET Tools, RecordResult(k, i, calls)
       PROVE  PromptComplete'
  <2>1. CASE UNCHANGED <<request, said>>
    <3>1. Leave(k) /\ UNCHANGED session
      BY <1>10, ResultSet
    <3>2. QED BY <1>l, <2>1, <3>1
  <2>2. CASE ~UNCHANGED <<request, said>>
    <3>1. /\ job[k].request \in Requests /\ request[job[k].request].status = "pending"
          /\ \A r \in Requests : request'[r].status = IF r = job[k].request THEN "completed"
                                                      ELSE request[r].status
      BY <1>10, <2>2, ResultSet
    <3>2. \A r \in Requests : request'[r].status # "pending"
      BY <3>1 DEF OneOpen
    <3>3. pc'[k] = "idle" /\ \A l \in Callers \ {k} : job'[l] = job[l] /\ pc'[l] = pc[l]
      BY <1>10, ResultSet, LeaveSet
    <3>4. \A l \in Callers : pc'[l] \in Asking => job'[l].request \in Requests
      BY <3>3 DEF InHand, Asking
    <3>5. QED BY <3>2, <3>4 DEF PromptComplete, Asking
  <2>3. QED BY <2>1, <2>2
<1>11. ASSUME NEW t \in Tools, ClaimTool(t) \/ \E r \in Results : FinishTool(t, r) PROVE PromptComplete'
  <2>1. UNCHANGED <<pc, job, request>> /\ ~ToolsDone
    BY <1>11 DEF ClaimTool, FinishTool, ToolsDone
  <2>2. \A q \in Requests : request[q].status # "pending"
    BY <2>1 DEF OneOpen
  <2>3. QED BY <2>1, <2>2 DEF PromptComplete, InHand
<1>12. ASSUME NEW q \in Requests, AbandonRequest(q) PROVE PromptComplete'
  <2>1. UNCHANGED <<pc, job, session, said>>
    BY <1>12 DEF AbandonRequest
  <2>2. \A l \in Callers : pc[l] \in Asking => job[l].request \in Requests
    BY DEF InHand, Asking
  <2>3. QED BY <1>1, <1>12, <2>1, <2>2, AbandonSet
<1>13. ASSUME NEW c \in Configs, Restart(c) PROVE PromptComplete'
  BY <1>13 DEF Restart, PromptComplete
<1>14. CASE UNCHANGED vars
  BY <1>1, <1>14
<1>15. QED
  BY StepCases, <1>2, <1>3, <1>4, <1>5, <1>6, <1>7, <1>8, <1>9, <1>10, <1>11, <1>12, <1>13, <1>14

(* A call keeps the route of its session until a restart ends it.           *)
LEMMA RoutedStep ==
  ASSUME TypeOK, InHand, Reserved, WorkedOnce, Routed, [Next]_vars
  PROVE  Routed'
<1> USE DEF vars, ledger, process
<1>1. ASSUME UNCHANGED <<config, bound>>,
             \A l \in Callers : pc'[l] # "idle" =>
               pc[l] # "idle" /\ job'[l].session = job[l].session /\ job'[l].provider = job[l].provider
      PROVE  Routed'
  BY <1>1 DEF Routed, Selectable, Resolve
<1>2. ASSUME NEW s \in Sessions, OpenSession(s) PROVE Routed'
  <2>1. UNCHANGED <<pc, job, config>> /\ bound[s] = None /\ bound' = [bound EXCEPT ![s] = config]
    BY <1>2 DEF OpenSession
  <2>2. config # None
    BY NoneType DEF TypeOK
  <2>3. \A l \in Callers : pc[l] # "idle" => job[l].session \in Sessions /\ job[l].session # s
    BY <2>1, <2>2 DEF Routed, InHand
  <2>4. \A l \in Callers : pc[l] # "idle" => bound'[job[l].session] = bound[job[l].session]
    BY <2>1, <2>3 DEF TypeOK
  <2>5. QED BY <2>1, <2>4 DEF Routed, Selectable, Resolve
<1>3. ASSUME NEW k \in Callers, NEW q \in Requests, Inspect(k, q) PROVE Routed'
  <2>1. UNCHANGED <<config, bound>> /\ Selectable(config) /\ bound[session] = config
    BY <1>3 DEF Inspect
  <2>2. /\ job'[k].session = session /\ job'[k].provider = ProviderOf[Resolve(config)]
        /\ \A l \in Callers \ {k} : job'[l] = job[l] /\ pc'[l] = pc[l]
    BY <1>3, InspectSet
  <2>3. QED BY <2>1, <2>2 DEF Routed, Selectable, Resolve
<1>4. ASSUME NEW k \in Callers, TakeSlot(k) \/ Busy(k) PROVE Routed'
  <2>1. CASE TakeSlot(k)
    BY <1>1, <2>1, PlaceSet DEF TakeSlot
  <2>2. CASE Busy(k)
    <3>1. pc'[k] = "idle" /\ \A l \in Callers \ {k} : pc'[l] = pc[l] /\ job'[l] = job[l]
      BY <2>2, PlaceSet DEF Busy, TypeOK
    <3>2. QED BY <1>1, <2>2, <3>1 DEF Busy
  <2>3. QED BY <1>4, <2>1, <2>2
<1>l. ASSUME NEW k \in Callers, Leave(k), UNCHANGED bound PROVE Routed'
  BY <1>1, <1>l, LeaveSet
<1>5. ASSUME NEW k \in Callers, Reserve(k) PROVE Routed'
  <2>1. CASE Reservable(k)
    <3>1. UNCHANGED <<config, bound, job>> /\ pc[k] = "slotted"
      BY <1>5, <2>1 DEF Reserve
    <3>2. QED BY <1>1, <1>5, <2>1, <3>1, ReserveSet
  <2>2. CASE ~Reservable(k)
    BY <1>5, <2>2, <1>l DEF Reserve
  <2>3. QED BY <2>1, <2>2
<1>6. ASSUME NEW k \in Callers, NEW e \in ErrorType, pc[k] \in {"reserved", "sent", "answered"}, Fails(k, e)
      PROVE  Routed'
  <2>1. UNCHANGED <<config, bound>>
    BY <1>6 DEF Fails
  <2>2. QED BY <1>1, <1>6, <2>1, ErrorSet
<1>7. ASSUME NEW k \in Callers, Send(k) \/ AnswerResult(k) PROVE Routed'
  <2>1. UNCHANGED <<config, bound, job>> /\ pc[k] # "idle"
    BY <1>7 DEF Send, AnswerResult
  <2>2. QED BY <1>1, <1>7, <2>1, PlaceSet DEF Send, AnswerResult
<1>8. ASSUME NEW k \in Callers, Work(k) PROVE Routed'
  <2>1. UNCHANGED <<config, bound, pc>>
    BY <1>8 DEF Work
  <2>2. QED BY <1>1, <1>8, <2>1, WorkSet
<1>9. ASSUME NEW k \in Callers, NEW i \in Elapsed, RecordFailure(k, i) PROVE Routed'
  BY <1>9, <1>l, FailureSet
<1>10. ASSUME NEW k \in Callers, NEW i \in Elapsed, NEW calls \in SUBSET Tools, RecordResult(k, i, calls)
       PROVE  Routed'
  BY <1>10, <1>l, ResultSet
<1>11. ASSUME UNCHANGED <<pc, job, config, bound>> PROVE Routed'
  BY <1>1, <1>11
<1>12. ASSUME NEW c \in Configs, Restart(c) PROVE Routed'
  BY <1>12 DEF Restart, Routed
<1>13. QED
  BY StepCases, <1>2, <1>3, <1>4, <1>5, <1>6, <1>7, <1>8, <1>9, <1>10, <1>11, <1>12
  DEF ClaimTool, FinishTool, AbandonRequest

(* Only a slot taken and a slot released change who is counted.             *)
LEMMA SlotsStep ==
  ASSUME TypeOK, InHand, Reserved, WorkedOnce, SlotsExact, [Next]_vars
  PROVE  SlotsExact'
<1> USE DEF vars, ledger, process
<1>0. \A p \in Providers : held[p] = Cardinality(Users(p)) /\ held[p] \in Nat /\ held[p] <= ProviderLimit[p]
  BY DEF SlotsExact, Users, TypeOK
<1>1. ASSUME UNCHANGED held,
             \A l \in Callers :
               /\ (pc'[l] \in Holding) = (pc[l] \in Holding)
               /\ pc[l] \in Holding => job'[l].provider = job[l].provider
      PROVE  SlotsExact'
  <2>1. \A p \in Providers : Users(p)' = Users(p)
    BY <1>1 DEF Users
  <2>2. QED BY <1>0, <1>1, <2>1 DEF SlotsExact, Users
<1>2. ASSUME NEW k \in Callers, NEW q \in Requests, Inspect(k, q) PROVE SlotsExact'
  <2>1. UNCHANGED held /\ pc[k] = "idle"
    BY <1>2 DEF Inspect
  <2>2. pc'[k] = "checked" /\ \A l \in Callers \ {k} : job'[l] = job[l] /\ pc'[l] = pc[l]
    BY <1>2, InspectSet
  <2>3. QED BY <1>1, <2>1, <2>2 DEF Holding
<1>3. ASSUME NEW k \in Callers, TakeSlot(k) PROVE SlotsExact'
  <2> DEFINE p == job[k].provider
  <2>1. /\ p \in Providers /\ held[p] < ProviderLimit[p] /\ pc[k] = "checked"
        /\ held' = [held EXCEPT ![p] = @ + 1] /\ UNCHANGED job
    BY <1>3 DEF TakeSlot, Free, InHand
  <2>2. \A l \in Callers : pc'[l] = IF l = k THEN "slotted" ELSE pc[l]
    BY <1>3, PlaceSet DEF TakeSlot
  <2>3. Users(p)' = Users(p) \cup {k} /\ k \notin Users(p)
    BY <2>1, <2>2 DEF Users, Holding
  <2>4. \A r \in Providers \ {p} : Users(r)' = Users(r)
    BY <2>1, <2>2 DEF Users, Holding
  <2>5. Cardinality(Users(p)') = Cardinality(Users(p)) + 1
    BY <2>1, <2>3, UsersFinite, FS_AddElement
  <2>6. held'[p] = held[p] + 1 /\ \A r \in Providers \ {p} : held'[r] = held[r]
    BY <2>1 DEF TypeOK
  <2>7. held'[p] <= ProviderLimit[p]
    BY <1>0, <2>1, <2>6, LimitsType
  <2>8. \A r \in Providers : held'[r] = Cardinality(Users(r)') /\ held'[r] <= ProviderLimit[r]
    BY <1>0, <2>1, <2>4, <2>5, <2>6, <2>7
  <2>9. QED BY <2>8 DEF SlotsExact, Users
<1>4. ASSUME NEW k \in Callers, Busy(k) PROVE SlotsExact'
  <2>1. \A l \in Callers : pc'[l] = IF l = k THEN "idle" ELSE pc[l]
    BY <1>4, PlaceSet DEF Busy
  <2>2. UNCHANGED held /\ pc[k] = "checked" /\ \A l \in Callers \ {k} : job'[l] = job[l]
    BY <1>4 DEF Busy, TypeOK
  <2>3. QED BY <1>1, <2>1, <2>2 DEF Holding
<1>l. ASSUME NEW k \in Callers, pc[k] \in Holding, Leave(k) PROVE SlotsExact'
  <2> PICK p \in Providers : p = job[k].provider
    BY <1>l DEF InHand, Holding
  <2>1. held' = [held EXCEPT ![p] = @ - 1]
    BY <1>l DEF Leave
  <2>2. pc'[k] = "idle" /\ \A l \in Callers \ {k} : job'[l] = job[l] /\ pc'[l] = pc[l]
    BY <1>l, LeaveSet
  <2>3. Users(p)' = Users(p) \ {k} /\ k \in Users(p)
    BY <1>l, <2>2 DEF Users, Holding
  <2>4. \A r \in Providers \ {p} : Users(r)' = Users(r)
    BY <2>2 DEF Users, Holding
  <2>5. Cardinality(Users(p)') = Cardinality(Users(p)) - 1
    BY <2>1, <2>3, UsersFinite, FS_RemoveElement
  <2>6. held'[p] = held[p] - 1 /\ \A r \in Providers \ {p} : held'[r] = held[r]
    BY <2>1 DEF TypeOK
  <2>7. held'[p] <= ProviderLimit[p]
    BY <1>0, <2>1, <2>6, LimitsType
  <2>8. \A r \in Providers : held'[r] = Cardinality(Users(r)') /\ held'[r] <= ProviderLimit[r]
    BY <1>0, <2>1, <2>4, <2>5, <2>6, <2>7
  <2>9. QED BY <2>8 DEF SlotsExact, Users
<1>5. ASSUME NEW k \in Callers, Reserve(k) PROVE SlotsExact'
  <2>1. CASE Reservable(k)
    <3>1. UNCHANGED <<held, job>> /\ pc[k] = "slotted"
      BY <1>5, <2>1 DEF Reserve
    <3>2. \A l \in Callers : pc'[l] = IF l = k THEN "reserved" ELSE pc[l]
      BY <1>5, <2>1, ReserveSet
    <3>3. QED BY <1>1, <3>1, <3>2 DEF Holding
  <2>2. CASE ~Reservable(k)
    BY <1>5, <2>2, <1>l DEF Reserve, Holding
  <2>3. QED BY <2>1, <2>2
<1>6. ASSUME NEW k \in Callers, NEW e \in ErrorType, pc[k] \in {"reserved", "sent", "answered"}, Fails(k, e)
      PROVE  SlotsExact'
  <2>1. UNCHANGED held
    BY <1>6 DEF Fails
  <2>2. QED BY <1>1, <1>6, <2>1, ErrorSet DEF Holding
<1>7. ASSUME NEW k \in Callers, Send(k) \/ AnswerResult(k) PROVE SlotsExact'
  <2>1. UNCHANGED <<held, job>> /\ pc[k] \in Holding
    BY <1>7 DEF Send, AnswerResult, Holding
  <2>2. pc'[k] \in Holding /\ \A l \in Callers \ {k} : pc'[l] = pc[l]
    BY <1>7, PlaceSet DEF Send, AnswerResult, Holding
  <2>3. QED BY <1>1, <2>1, <2>2
<1>8. ASSUME NEW k \in Callers, Work(k) PROVE SlotsExact'
  <2>1. UNCHANGED <<held, pc>>
    BY <1>8 DEF Work
  <2>2. QED BY <1>1, <1>8, <2>1, WorkSet
<1>9. ASSUME NEW k \in Callers, NEW i \in Elapsed, RecordFailure(k, i) PROVE SlotsExact'
  BY <1>9, <1>l, FailureSet DEF Holding
<1>10. ASSUME NEW k \in Callers, NEW i \in Elapsed, NEW calls \in SUBSET Tools, RecordResult(k, i, calls)
       PROVE  SlotsExact'
  BY <1>10, <1>l, ResultSet DEF Holding
<1>11. ASSUME UNCHANGED <<pc, job, held>> PROVE SlotsExact'
  BY <1>1, <1>11
<1>12. ASSUME NEW c \in Configs, Restart(c) PROVE SlotsExact'
  <2>1. \A p \in Providers : Users(p)' = {} /\ held'[p] = 0
    BY <1>12 DEF Restart, Users, Holding
  <2>2. Cardinality({}) = 0
    BY FS_EmptySet
  <2>3. \A p \in Providers : ProviderLimit[p] >= 0
    BY LimitsType
  <2>4. QED BY <2>1, <2>2, <2>3 DEF SlotsExact, Users
<1>13. QED
  BY StepCases, <1>2, <1>3, <1>4, <1>5, <1>6, <1>7, <1>8, <1>9, <1>10, <1>11, <1>12
  DEF OpenSession, ClaimTool, FinishTool, AbandonRequest

(* The first state satisfies the invariant.                                 *)
LEMMA InitInvariant ==
  ASSUME Init
  PROVE  IInv
<1>1. TypeOK
  BY NothingTypes, LimitsType DEF Init, TypeOK, Steps
<1>2. InHand
  BY DEF Init, InHand, Flight
<1>3. OneOpen /\ Reserved
  BY DEF Init, OneOpen, Reserved, Open, OpenStatuses, NoRequest
<1>4. ToolHeard /\ RanOnce
  BY DEF Init, ToolHeard, RanOnce, NoTool
<1>5. BudgetHeld
  BY LimitsType, BoundsType DEF Init, BudgetHeld, NoRequest
<1>6. PromptComplete /\ Routed
  BY DEF Init, PromptComplete, Routed
<1>7. WorkedOnce
  <2>1. (\A q \in Requests : asked[q] = 0) /\ \A k \in Callers : pc[k] = "idle"
    BY DEF Init
  <2>2. QED BY <2>1 DEF WorkedOnce, Flight
<1>8. SlotsExact
  <2>1. \A p \in Providers : Users(p) = {} /\ held[p] = 0
    BY DEF Init, Users, Holding
  <2>2. Cardinality({}) = 0
    BY FS_EmptySet
  <2>3. \A p \in Providers : ProviderLimit[p] >= 0
    BY LimitsType
  <2>4. QED BY <2>1, <2>2, <2>3 DEF SlotsExact, Users
<1>9. QED BY <1>1, <1>2, <1>3, <1>4, <1>5, <1>6, <1>7, <1>8 DEF IInv

(* What every reachable state satisfies.                                    *)
THEOREM Invariant == Spec => []IInv
<1>1. Init => IInv
  BY InitInvariant
<1>2. IInv /\ [Next]_vars => IInv'
  BY TypeStep, InHandStep, OneOpenStep, ToolHeardStep, BudgetStep, WorkedStep, RanStep, PromptStep,
     RoutedStep, SlotsStep DEF IInv
<1>3. QED BY <1>1, <1>2, PTL DEF Spec

(* The ledger, the callers and the counters keep their types (sessions.py,  *)
(* adapters.py); what a reservation gives back never makes the time of the  *)
(* run negative.                                                            *)
THEOREM TypeCorrect == Spec => []TypeOK
<1>1. IInv => TypeOK
  BY DEF IInv
<1>2. QED BY Invariant, <1>1, PTL

(* For any number of threads, requests and restarts, the provider does the  *)
(* work of a request at most once (sessions.py 143-152, 195-207).           *)
THEOREM WorkAtMostOnce == Spec => []AtMostOnce
<1>1. IInv => AtMostOnce
  BY DEF IInv, WorkedOnce, AtMostOnce
<1>2. QED BY Invariant, <1>1, PTL

(* A tool is let run at most once (claim_tool, and the rule that a response *)
(* names no tool again).                                                    *)
THEOREM ToolsRunOnce == Spec => []ToolOnce
<1>1. IInv => ToolOnce
  BY DEF IInv, RanOnce, ToolOnce
<1>2. QED BY Invariant, <1>1, PTL

(* For all limits, calls, tools and attempts stay within them, and the time *)
(* exceeds its limit by the overrun of one call at most.                    *)
THEOREM BudgetsHold == Spec => []BudgetHeld
<1>1. IInv => BudgetHeld
  BY DEF IInv
<1>2. QED BY Invariant, <1>1, PTL

(* What is asked for a pending request holds every message of the active    *)
(* session.                                                                 *)
THEOREM PromptsComplete == Spec => []PromptComplete
<1>1. IInv => PromptComplete
  BY DEF IInv
<1>2. QED BY Invariant, <1>1, PTL

(* While a request is open no other one is, no tool waits, and its session  *)
(* is the active one (open_session, generate).                              *)
THEOREM OneRequestOpen == Spec => []OneOpen
<1>1. IInv => OneOpen
  BY DEF IInv
<1>2. QED BY Invariant, <1>1, PTL

(* A session is answered through the route it was opened with, which the    *)
(* present configuration still allows (router.py, generate).                *)
THEOREM RoutesKept == Spec => []RouteKept
<1>1. IInv => RouteKept
  BY DEF IInv, Routed, RouteKept, Holding
<1>2. QED BY Invariant, <1>1, PTL

(* No slot leaks, whichever way a call ends, and no provider has more       *)
(* callers than its limit (ModelConcurrency).                               *)
THEOREM SlotsCounted == Spec => []SlotsExact
<1>1. IInv => SlotsExact
  BY DEF IInv
<1>2. QED BY Invariant, <1>1, PTL

-----------------------------------------------------------------------------
(* The conversation.  What was answered was worked on, and what has not     *)
(* been reported has no result.                                             *)
Heard ==
  \A k \in Callers :
    /\ pc[k] \in Flight /\ job[k].worked => asked[job[k].request] = 1
    /\ pc[k] = "answered" => job[k].worked

Unreported ==
  \A t \in Tools : tool[t].status # "done" => tool[t].result = None

(* What a provider has worked on stays so.                                  *)
LEMMA HeardStep ==
  ASSUME TypeOK, InHand, Reserved, WorkedOnce, Heard, [Next]_vars
  PROVE  Heard'
<1> USE DEF vars, ledger, process, Flight
<1>1. ASSUME UNCHANGED <<pc, job, asked>> PROVE Heard'
  BY <1>1 DEF Heard
<1>2. ASSUME NEW k \in Callers, NEW q \in Requests, Inspect(k, q) PROVE Heard'
  <2>1. /\ pc'[k] = "checked"
        /\ \A l \in Callers \ {k} : job'[l] = job[l] /\ pc'[l] = pc[l]
    BY <1>2, InspectSet
  <2>2. UNCHANGED asked
    BY <1>2 DEF Inspect
  <2>3. QED BY <2>1, <2>2 DEF Heard
<1>l. ASSUME NEW k \in Callers, Leave(k), UNCHANGED asked PROVE Heard'
  BY <1>l, LeaveSet DEF Heard
<1>3. ASSUME NEW k \in Callers, TakeSlot(k) \/ Busy(k) PROVE Heard'
  <2>1. CASE TakeSlot(k)
    BY <2>1, PlaceSet DEF TakeSlot, Heard
  <2>2. CASE Busy(k)
    <3>1. \A l \in Callers : pc'[l] = IF l = k THEN "idle" ELSE pc[l]
      BY <2>2, PlaceSet DEF Busy
    <3>2. \A l \in Callers \ {k} : job'[l] = job[l]
      BY <2>2 DEF Busy, TypeOK
    <3>3. QED BY <2>2, <3>1, <3>2 DEF Busy, Heard
  <2>3. QED BY <1>3, <2>1, <2>2
<1>4. ASSUME NEW k \in Callers, Reserve(k) PROVE Heard'
  <2>1. CASE Reservable(k)
    <3>1. UNCHANGED <<asked, job>> /\ ~job[k].worked
      BY <1>4, <2>1 DEF Reserve, WorkedOnce
    <3>2. QED BY <1>4, <2>1, <3>1, ReserveSet DEF Heard
  <2>2. CASE ~Reservable(k)
    BY <1>4, <1>l, <2>2 DEF Reserve
  <2>3. QED BY <2>1, <2>2
<1>5. ASSUME NEW k \in Callers, NEW e \in ErrorType, pc[k] \in {"reserved", "sent", "answered"}, Fails(k, e)
      PROVE  Heard'
  <2>1. UNCHANGED asked
    BY <1>5 DEF Fails
  <2>2. QED BY <1>5, <2>1, ErrorSet DEF Heard
<1>6. ASSUME NEW k \in Callers, Send(k) \/ AnswerResult(k) PROVE Heard'
  BY <1>6, PlaceSet DEF Send, AnswerResult, Heard
<1>7. ASSUME NEW k \in Callers, Work(k) PROVE Heard'
  <2> DEFINE q == job[k].request
  <2>1. /\ UNCHANGED pc /\ pc[k] = "sent" /\ ~job[k].worked
        /\ asked' = [asked EXCEPT ![q] = @ + 1]
    BY <1>7 DEF Work
  <2>2. q \in Requests /\ asked[q] = 0
    BY <2>1 DEF InHand, WorkedOnce
  <2>3. asked'[q] = 1 /\ \A r \in Requests \ {q} : asked'[r] = asked[r]
    BY <2>1, <2>2 DEF TypeOK
  <2>4. \A l \in Callers : pc[l] \in Flight => job[l].request \in Requests
    BY DEF InHand
  <2>5. \A l \in Callers : job'[l].request = job[l].request /\ job'[l].worked = (l = k \/ job[l].worked)
    BY <1>7, WorkSet
  <2>6. ASSUME NEW l \in Callers, pc[l] \in Flight, job'[l].worked PROVE asked'[job[l].request] = 1
    <3>1. CASE job[l].request = q
      BY <2>3, <3>1
    <3>2. CASE job[l].request # q
      <4>1. job[l].worked
        BY <2>5, <2>6, <3>2
      <4>2. asked[job[l].request] = 1
        BY <2>6, <4>1 DEF Heard
      <4>3. QED BY <2>3, <2>4, <2>6, <3>2, <4>2
    <3>3. QED BY <3>1, <3>2
  <2>7. \A l \in Callers : pc[l] = "answered" => job'[l].worked
    BY <2>5 DEF Heard
  <2>8. QED BY <2>1, <2>5, <2>6, <2>7 DEF Heard
<1>8. ASSUME NEW k \in Callers, NEW i \in Elapsed, RecordFailure(k, i) PROVE Heard'
  BY <1>8, <1>l, FailureSet
<1>9. ASSUME NEW k \in Callers, NEW i \in Elapsed, NEW calls \in SUBSET Tools, RecordResult(k, i, calls)
      PROVE  Heard'
  BY <1>9, <1>l, ResultSet
<1>10. ASSUME NEW c \in Configs, Restart(c) PROVE Heard'
  BY <1>10 DEF Restart, Heard
<1>11. QED
  BY StepCases, <1>1, <1>2, <1>3, <1>4, <1>5, <1>6, <1>7, <1>8, <1>9, <1>10
  DEF OpenSession, ClaimTool, FinishTool, AbandonRequest

(* What the three steps of a tool write.                                    *)
LEMMA ToolSet ==
  ASSUME TypeOK, NEW t \in Tools
  PROVE  /\ ClaimTool(t) =>
              /\ tool'[t].status = "claimed" /\ tool'[t].result = tool[t].result
              /\ \A u \in Tools \ {t} : tool'[u] = tool[u]
         /\ \A r \in Results : FinishTool(t, r) =>
              /\ tool'[t].status = "done" /\ tool'[t].result = r
              /\ \A u \in Tools \ {t} : tool'[u] = tool[u]
<1>1. tool[t] \in ToolType /\ tool \in [Tools -> ToolType]
  BY DEF TypeOK
<1>2. ASSUME ClaimTool(t)
      PROVE  /\ tool'[t].status = "claimed" /\ tool'[t].result = tool[t].result
             /\ \A u \in Tools \ {t} : tool'[u] = tool[u]
  BY <1>1, <1>2 DEF ClaimTool, ToolType
<1>3. ASSUME NEW r \in Results, FinishTool(t, r)
      PROVE  /\ tool'[t].status = "done" /\ tool'[t].result = r
             /\ \A u \in Tools \ {t} : tool'[u] = tool[u]
  BY <1>1, <1>3 DEF FinishTool, ToolType
<1>4. QED BY <1>2, <1>3

(* A response calls tools that nothing was heard of.                        *)
LEMMA CallsSet ==
  ASSUME TypeOK, NEW k \in Callers, NEW i \in Elapsed, NEW calls \in SUBSET Tools,
         RecordResult(k, i, calls), ~UNCHANGED tool
  PROVE  /\ \A t \in calls : tool[t].status = "absent" /\ tool'[t].status = "ready"
                              /\ tool'[t].result = None
         /\ \A t \in Tools \ calls : tool'[t] = tool[t]
BY DEF RecordResult, AllNew

(* A result is there when the tool is done.                                 *)
LEMMA UnreportedStep ==
  ASSUME TypeOK, WorkedOnce, Unreported, [Next]_vars
  PROVE  Unreported'
<1> USE DEF vars, ledger, process
<1>1. ASSUME UNCHANGED tool PROVE Unreported'
  BY <1>1 DEF Unreported
<1>2. ASSUME NEW k \in Callers, NEW i \in Elapsed, NEW calls \in SUBSET Tools, RecordResult(k, i, calls)
      PROVE  Unreported'
  BY <1>1, <1>2, CallsSet DEF Unreported
<1>3. ASSUME NEW t \in Tools, ClaimTool(t) PROVE Unreported'
  BY <1>3, ToolSet DEF Unreported, ClaimTool
<1>4. ASSUME NEW t \in Tools, NEW r \in Results, FinishTool(t, r) PROVE Unreported'
  BY <1>4, ToolSet DEF Unreported
<1>5. QED
  BY StepCases, <1>1, <1>2, <1>3, <1>4
  DEF OpenSession, Inspect, TakeSlot, Busy, Reserve, Fails, Send, AnswerResult, Work, RecordFailure,
      AbandonRequest, Restart

(* The stage of a question, from the record of its request.                 *)
LEMMA Stages ==
  ASSUME TypeOK, NEW q \in Requests
  PROVE  /\ Asked[q] = Stage[request[q].status]
         /\ Asked[q] = "open" <=> Open(q)
         /\ request[q].status = "none" => Asked[q] = "new"
         /\ request[q].status \in {"failed", "abandoned"} => Asked[q] = "closed"
<1>1. request[q].status \in Statuses
  BY RequestFields DEF TypeOK
<1>2. QED BY <1>1 DEF Asked, Stage, Open, OpenStatuses, Statuses, FinalStatuses

(* One request moves: one question moves.                                   *)
LEMMA OneMoves ==
  ASSUME NEW q \in Requests, NEW s,
         \A r \in Requests : request'[r].status = IF r = q THEN s ELSE request[r].status
  PROVE  Asked' = [Asked EXCEPT ![q] = Stage[s]]
BY DEF Asked

(* Without a request or a tool that moves nothing is said.                  *)
LEMMA NothingSaid ==
  ASSUME UNCHANGED <<session, asked, ran>>,
         \A q \in Requests : Stage[request'[q].status] = Stage[request[q].status],
         \A t \in Tools : tool'[t].status = tool[t].status /\ tool'[t].result = tool[t].result
  PROVE  UNCHANGED Conversation!vars
<1>1. Asked' = Asked
  BY DEF Asked
<1>2. Called' = Called /\ Reported' = Reported
  BY DEF Called, Reported
<1>3. QED BY <1>1, <1>2 DEF Conversation!vars

(* Nothing is open and no tool waits: that is quiet.                        *)
LEMMA QuietWhenIdle ==
  ASSUME TypeOK
  PROVE  Conversation!Quiet <=> Idle
BY Stages DEF Conversation!Quiet, Idle, ToolsDone, Called

(* A reservation asks a question, or the same one again.                    *)
LEMMA ReservationAsks ==
  ASSUME IInv, NEW k \in Callers, Reserve(k)
  PROVE  [Conversation!Next]_Conversation!vars
<1>1. TypeOK /\ InHand /\ OneOpen
  BY DEF IInv
<1>2. CASE ~Reservable(k)
  BY <1>2, NothingSaid DEF Reserve
<1>3. CASE Reservable(k)
  <2> DEFINE q == job[k].request
  <2>1. /\ q \in Requests /\ request[q].status \in {"none", "retry_wait"}
        /\ request'[q].status = "pending"
        /\ \A r \in Requests \ {q} : request'[r] = request[r]
        /\ UNCHANGED <<session, tool, asked, ran>>
    BY <1>1, <1>3, ReserveSet DEF Reserve
  <2>2. CASE request[q].status = "retry_wait"
    <3>1. \A r \in Requests : Stage[request'[r].status] = Stage[request[r].status]
      BY <2>1, <2>2 DEF Stage
    <3>2. QED BY <2>1, <3>1, NothingSaid
  <2>3. CASE request[q].status = "none"
    <3>1. Idle
      BY <1>3, <2>3 DEF Reservable, Idle, Open, OpenStatuses
    <3>2. session # None
      BY <1>1, <1>3, NoneType DEF Reserve, Reservable, InHand
    <3>3. Asked' = [Asked EXCEPT ![q] = "open"] /\ Asked[q] = "new"
      <4>1. Asked' = [Asked EXCEPT ![q] = Stage["pending"]]
        BY <2>1, OneMoves
      <4>2. QED BY <1>1, <2>1, <2>3, <4>1, Stages DEF Stage
    <3>4. Called' = Called /\ Reported' = Reported
      BY <2>1 DEF Called, Reported
    <3>5. Conversation!Ask(q)
      BY <1>1, <2>1, <3>1, <3>2, <3>3, <3>4, QuietWhenIdle DEF Conversation!Ask
    <3>6. QED BY <2>1, <3>5 DEF Conversation!Next
  <2>4. QED BY <2>1, <2>2, <2>3
<1>4. QED BY <1>2, <1>3

(* The work of the provider is the work on the question, once.              *)
LEMMA WorkingWorks ==
  ASSUME IInv, NEW k \in Callers, Work(k)
  PROVE  [Conversation!Next]_Conversation!vars
<1> DEFINE q == job[k].request
<1>1. TypeOK /\ InHand /\ WorkedOnce
  BY DEF IInv
<1>2. /\ pc[k] = "sent" /\ ~job[k].worked /\ asked' = [asked EXCEPT ![q] = @ + 1]
      /\ UNCHANGED <<session, request, tool, ran>>
  BY DEF Work, ledger
<1>3. q \in Requests /\ request[q].status \in {"pending", "abandoned"} /\ asked[q] = 0
  BY <1>1, <1>2 DEF InHand, WorkedOnce, Flight
<1>4. asked' = [asked EXCEPT ![q] = 1]
  BY <1>2, <1>3
<1>5. Asked[q] \in {"open", "closed"}
  BY <1>1, <1>3, Stages DEF Open, OpenStatuses
<1>6. Asked' = Asked /\ Called' = Called /\ Reported' = Reported
  BY <1>2 DEF Asked, Called, Reported
<1>7. Conversation!Work(q)
  BY <1>2, <1>3, <1>4, <1>5, <1>6 DEF Conversation!Work
<1>8. QED BY <1>3, <1>7 DEF Conversation!Next

(* A failure closes the question or leaves it open for another attempt.     *)
LEMMA FailureCloses ==
  ASSUME IInv, NEW k \in Callers, NEW i \in Elapsed, RecordFailure(k, i)
  PROVE  [Conversation!Next]_Conversation!vars
<1> DEFINE q == job[k].request
<1>1. TypeOK /\ InHand /\ Reserved
  BY DEF IInv
<1>2. q \in Requests /\ UNCHANGED <<session, tool, asked, ran>>
  BY <1>1, FailureSet
<1>3. CASE UNCHANGED request
  BY <1>2, <1>3, NothingSaid
<1>4. ASSUME request[q].status = "pending", NEW s \in {"failed", "retry_wait"},
             \A r \in Requests : request'[r].status = IF r = q THEN s ELSE request[r].status
      PROVE  [Conversation!Next]_Conversation!vars
  <2>1. CASE s = "retry_wait"
    <3>1. \A r \in Requests : Stage[request'[r].status] = Stage[request[r].status]
      BY <1>4, <2>1 DEF Stage
    <3>2. QED BY <1>2, <3>1, NothingSaid
  <2>2. CASE s = "failed"
    <3>1. Asked' = [Asked EXCEPT ![q] = Stage[s]]
      BY <1>2, <1>4, OneMoves
    <3>2. Stage[s] = "closed"
      BY <2>2 DEF Stage
    <3>3. Asked[q] = "open"
      BY <1>1, <1>2, <1>4, Stages DEF Open, OpenStatuses
    <3>4. Called' = Called /\ Reported' = Reported
      BY <1>2 DEF Called, Reported
    <3>5. Conversation!Close(q)
      BY <1>2, <3>1, <3>2, <3>3, <3>4 DEF Conversation!Close
    <3>6. QED BY <1>2, <3>5 DEF Conversation!Next
  <2>3. QED BY <2>1, <2>2
<1>5. QED BY <1>1, <1>3, <1>4, FailureSet

(* A result answers its question, which was worked on.                      *)
LEMMA ResultAnswers ==
  ASSUME IInv, Heard, Unreported, NEW k \in Callers, NEW i \in Elapsed, NEW calls \in SUBSET Tools,
         RecordResult(k, i, calls)
  PROVE  [Conversation!Next]_Conversation!vars
<1> DEFINE q == job[k].request
<1>1. TypeOK /\ InHand /\ Reserved
  BY DEF IInv
<1>2. q \in Requests /\ pc[k] = "answered" /\ UNCHANGED <<session, asked, ran>>
  BY <1>1, ResultSet
<1>3. CASE UNCHANGED <<request, tool>>
  BY <1>2, <1>3, NothingSaid
<1>4. CASE ~UNCHANGED <<request, tool>>
  <2>1. /\ request[q].status = "pending" /\ AllNew(calls)
        /\ \A r \in Requests : request'[r].status = IF r = q THEN "completed" ELSE request[r].status
    BY <1>1, <1>4, ResultSet
  <2>2. tool' = [t \in Tools |-> IF t \in calls
                   THEN [status |-> "ready", session |-> job[k].session, result |-> None]
                   ELSE tool[t]]
    BY <2>1 DEF RecordResult
  <2>3. Asked' = [Asked EXCEPT ![q] = "answered"] /\ Asked[q] = "open"
    <3>1. Asked' = [Asked EXCEPT ![q] = Stage["completed"]]
      BY <1>2, <2>1, OneMoves
    <3>2. QED BY <1>1, <1>2, <2>1, <3>1, Stages DEF Stage, Open, OpenStatuses
  <2>4. asked[q] = 1
    BY <1>2 DEF Heard, Flight
  <2>5. \A t \in calls : Called[t] = "absent"
    BY <2>1 DEF AllNew, Called
  <2>6. Called' = [t \in Tools |-> IF t \in calls THEN "ready" ELSE Called[t]]
    BY <2>2 DEF Called
  <2>7. Reported' = Reported
    BY <2>1, <2>2 DEF Reported, Unreported, AllNew
  <2>8. Conversation!Answer(q, calls)
    BY <1>2, <2>3, <2>4, <2>5, <2>6, <2>7 DEF Conversation!Answer
  <2>9. QED BY <1>2, <2>8 DEF Conversation!Next
<1>5. QED BY <1>3, <1>4

(* A claimed tool runs, and reports once.                                   *)
LEMMA ToolsRunAndReport ==
  ASSUME IInv, Unreported, NEW t \in Tools, ClaimTool(t) \/ \E r \in Results : FinishTool(t, r)
  PROVE  [Conversation!Next]_Conversation!vars
<1>1. TypeOK /\ RanOnce
  BY DEF IInv
<1>2. UNCHANGED <<session, request, asked>>
  BY DEF ClaimTool, FinishTool
<1>3. Asked' = Asked
  BY <1>2 DEF Asked
<1>4. CASE ClaimTool(t)
  <2>1. /\ tool[t].status = "ready" /\ \A u \in Tools : tool[u].status # "claimed"
        /\ ran[t] = 0 /\ ran' = [ran EXCEPT ![t] = 1]
    <3>1. /\ tool[t].status = "ready" /\ \A u \in Tools : tool[u].status # "claimed"
          /\ ran' = [ran EXCEPT ![t] = ran[t] + 1]
      BY <1>4 DEF ClaimTool
    <3>2. ran[t] = 0
      BY <1>1, <3>1 DEF RanOnce
    <3>3. QED BY <3>1, <3>2
  <2>2. Called' = [Called EXCEPT ![t] = "claimed"] /\ Reported' = Reported
    BY <1>1, <1>4, ToolSet DEF Called, Reported
  <2>3. Conversation!Run(t)
    BY <1>2, <1>3, <2>1, <2>2 DEF Conversation!Run, Called
  <2>4. QED BY <2>3 DEF Conversation!Next
<1>5. ASSUME NEW r \in Results, FinishTool(t, r)
      PROVE  [Conversation!Next]_Conversation!vars
  <2>1. tool[t].status = "claimed" /\ ran' = ran
    BY <1>5 DEF FinishTool
  <2>2. Called' = [Called EXCEPT ![t] = "done"] /\ Reported' = [Reported EXCEPT ![t] = r]
    BY <1>1, <1>5, ToolSet DEF Called, Reported
  <2>3. Reported[t] = None /\ Called[t] = "claimed"
    BY <2>1 DEF Unreported, Reported, Called
  <2>4. Conversation!Report(t, r)
    BY <1>2, <1>3, <2>1, <2>2, <2>3 DEF Conversation!Report
  <2>5. QED BY <2>4 DEF Conversation!Next
<1>6. QED BY <1>4, <1>5

(* Every step of the threads, the operator and a kill is one of the         *)
(* conversation or is not heard in it.                                      *)
LEMMA StepSpeaks ==
  ASSUME IInv, Heard, Unreported, [Next]_vars
  PROVE  [Conversation!Next]_Conversation!vars
<1> USE DEF vars, ledger, process
<1>1. TypeOK /\ WorkedOnce
  BY DEF IInv
<1>2. ASSUME UNCHANGED <<session, request, tool, asked, ran>>
      PROVE  [Conversation!Next]_Conversation!vars
  BY <1>2, NothingSaid
<1>3. ASSUME NEW s \in Sessions, OpenSession(s)
      PROVE  [Conversation!Next]_Conversation!vars
  <2>1. Asked' = Asked /\ Called' = Called /\ Reported' = Reported
    BY <1>3 DEF OpenSession, Asked, Called, Reported
  <2>2. Conversation!Begin(s)
    BY <1>1, <1>3, <2>1, QuietWhenIdle DEF OpenSession, Conversation!Begin
  <2>3. QED BY <2>2 DEF Conversation!Next
<1>4. ASSUME NEW q \in Requests, AbandonRequest(q)
      PROVE  [Conversation!Next]_Conversation!vars
  <2>1. Asked' = [Asked EXCEPT ![q] = "closed"] /\ Asked[q] = "open"
    <3>1. Asked' = [Asked EXCEPT ![q] = Stage["abandoned"]]
      BY <1>1, <1>4, AbandonSet, OneMoves
    <3>2. QED BY <1>1, <1>4, <3>1, Stages DEF Stage, AbandonRequest
  <2>2. Called' = Called /\ Reported' = Reported
    BY <1>4 DEF AbandonRequest, Called, Reported
  <2>3. Conversation!Close(q)
    BY <1>4, <2>1, <2>2 DEF AbandonRequest, Conversation!Close
  <2>4. QED BY <2>3 DEF Conversation!Next
<1>5. QED
  BY StepCases, <1>1, <1>2, <1>3, <1>4, ReservationAsks, WorkingWorks, FailureCloses, ResultAnswers,
     ToolsRunAndReport
  DEF Inspect, TakeSlot, Busy, Fails, Send, AnswerResult, Restart

(* Through any threads, retries, lost answers and kills the ledger keeps a  *)
(* conversation in which questions are worked on and tools run once.        *)
THEOREM ImplementsDialogue == Spec => KeepsDialogue
<1>1. Init => Conversation!Init
  BY DEF Init, Conversation!Init, Asked, Called, Reported, Stage, NoRequest, NoTool
<1>2. Init => Heard /\ Unreported
  BY DEF Init, Heard, Unreported, Flight, NoTool
<1>3. IInv /\ Heard /\ Unreported /\ [Next]_vars => Heard' /\ Unreported'
  BY HeardStep, UnreportedStep DEF IInv
<1>4. IInv /\ Heard /\ Unreported /\ [Next]_vars => [Conversation!Next]_Conversation!vars
  BY StepSpeaks
<1>5. QED
  BY Invariant, <1>1, <1>2, <1>3, <1>4, PTL DEF Spec, KeepsDialogue, Conversation!Spec
=============================================================================
