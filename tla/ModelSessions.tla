---------------------------- MODULE ModelSessions ----------------------------
(***************************************************************************)
(* ai_dlc/models/sessions.py with adapters.py and router.py: the ledger of *)
(* the model calls and tool claims of one run, kept in the task's journal, *)
(* and the threads that call generate() against it.                        *)
(*                                                                         *)
(* Every _change is one commit under the task lock.  generate() reads the  *)
(* ledger without it, takes a slot of the process, commits a reservation,  *)
(* asks the provider and commits the outcome; between any two of these     *)
(* others change the ledger and the service may be killed.                 *)
(*                                                                         *)
(* Abstractions.  Messages are counted, responses are the identifiers of   *)
(* the tools they call, and time is the seconds a call took.  The wait for *)
(* retry_at only delays.  asked and ran are history: what the provider and *)
(* the tools have really done.                                             *)
(***************************************************************************)
EXTENDS Naturals, FiniteSets, FiniteSetsExt, Transport

CONSTANTS
  Callers,        \* threads inside generate()
  Sessions, Requests, Tools, Results,
  Models, Providers, ProviderOf,  \* ProviderOf[m]: the provider of a model
  Configs,        \* the configurations the service may be started with
  Unset, None,    \* no model in a routing table; nobody, nothing
  GlobalLimit, ProviderLimit,             \* ModelConcurrency
  CallLimit, ToolLimit, TimeLimit, RetryLimit,  \* limits of the run
  Timeout,        \* timeout_seconds of a request
  MaxOverrun,     \* bound: seconds a call may take beyond its timeout
  MaxRestarts     \* bound: kills of the service

(* ConnectionConfig and RepositoryConfig as far as the router reads them.   *)
ConfigType ==
  [repoPurpose : Models \cup {Unset}, repoDefault : Models \cup {Unset},
   purpose : Models \cup {Unset}, default : Models,
   allowed : SUBSET Models, ready : SUBSET Models]

ASSUME ConfigsType == Configs \subseteq ConfigType
ASSUME ProviderOfType == ProviderOf \in [Models -> Providers]
ASSUME NoneType == None \notin Sessions \cup Requests \cup Results \cup Configs
ASSUME UnsetType == Unset \notin Models
ASSUME FiniteType == IsFiniteSet(Callers)
ASSUME LimitsType ==
  /\ GlobalLimit \in Nat \ {0} /\ ProviderLimit \in [Providers -> Nat \ {0}]
  /\ CallLimit \in Nat \ {0} /\ ToolLimit \in Nat \ {0}
  /\ TimeLimit \in Nat \ {0} /\ RetryLimit \in 1..3 /\ Timeout \in Nat \ {0}
ASSUME BoundsType == MaxOverrun \in Nat /\ MaxRestarts \in Nat

VARIABLES
  session,   \* active_session
  bound,     \* [Sessions -> the configuration it was opened with, or None]
  said,      \* [Sessions -> messages after the checkpoint]
  request,   \* [Requests -> RequestType]
  tool,      \* [Tools -> ToolType]
  spent,     \* model_calls, tool_calls and active_seconds
  config,    \* the configuration of this process
  held,      \* ModelConcurrency._active
  pc, job,   \* [Callers -> where its generate() is, and with what]
  asked,     \* history: [Requests -> how often the provider did the work]
  ran,       \* history: [Tools -> how often the tool was let run]
  restarts

ledger == <<session, bound, said, request, tool, spent>>
process == <<config, held, pc, job>>
vars == <<ledger, process, asked, ran, restarts>>

OpenStatuses == {"pending", "retry_wait"}
FinalStatuses == {"completed", "failed", "abandoned"}
RequestType ==
  [status : {"none"} \cup OpenStatuses \cup FinalStatuses, attempt : Nat,
   session : Sessions \cup {None}]
ToolType ==
  [status : {"absent", "ready", "claimed", "done"}, session : Sessions \cup {None},
   result : Results \cup {None}]
JobType ==
  [request : Requests \cup {None}, session : Sessions \cup {None}, said : Nat,
   seen : RequestType, provider : Providers \cup {None}, worked : BOOLEAN,
   error : ErrorType]

NoRequest == [status |-> "none", attempt |-> 0, session |-> None]
NoTool == [status |-> "absent", session |-> None, result |-> None]
NoJob == [request |-> None, session |-> None, said |-> 0, seen |-> NoRequest,
          provider |-> None, worked |-> FALSE, error |-> Doubt]

Steps == {"idle", "checked", "slotted", "reserved", "sent", "answered", "failing"}

(* The types.                                                              *)
TypeOK ==
  /\ session \in Sessions \cup {None}
  /\ bound \in [Sessions -> Configs \cup {None}]
  /\ said \in [Sessions -> Nat]
  /\ request \in [Requests -> RequestType]
  /\ tool \in [Tools -> ToolType]
  /\ spent \in [calls : Nat, tools : Nat, seconds : Nat]
  /\ config \in Configs
  /\ held \in [Providers -> Nat]
  /\ pc \in [Callers -> Steps]
  /\ job \in [Callers -> JobType]
  /\ asked \in [Requests -> Nat]
  /\ ran \in [Tools -> Nat]
  /\ restarts \in Nat

(* create_run in a task without one.                                       *)
Init ==
  /\ session = None
  /\ bound = [s \in Sessions |-> None]
  /\ said = [s \in Sessions |-> 0]
  /\ request = [q \in Requests |-> NoRequest]
  /\ tool = [t \in Tools |-> NoTool]
  /\ spent = [calls |-> 0, tools |-> 0, seconds |-> 0]
  /\ config \in Configs
  /\ held = [p \in Providers |-> 0]
  /\ pc = [k \in Callers |-> "idle"]
  /\ job = [k \in Callers |-> NoJob]
  /\ asked = [q \in Requests |-> 0]
  /\ ran = [t \in Tools |-> 0]
  /\ restarts = 0

-----------------------------------------------------------------------------
(* ModelRouter.resolve: the first table that names a model.                *)
Resolve(c) ==
  IF c.repoPurpose # Unset THEN c.repoPurpose
  ELSE IF c.repoDefault # Unset THEN c.repoDefault
  ELSE IF c.purpose # Unset THEN c.purpose
  ELSE c.default

(* _selected: allowed for the repository, and preflight finds it ready.     *)
Selectable(c) == Resolve(c) \in c.allowed \cap c.ready

Open(q) == request[q].status \in OpenStatuses
ToolsDone == \A t \in Tools : tool[t].status \in {"absent", "done"}

(* _idle                                                                    *)
Idle == (\A q \in Requests : ~Open(q)) /\ ToolsDone

(* open_session.  The binding is a digest of the whole configuration.       *)
OpenSession(s) ==
  /\ Selectable(config)
  /\ bound[s] = None /\ Idle
  /\ session' = s
  /\ bound' = [bound EXCEPT ![s] = config]
  /\ UNCHANGED <<said, request, tool, spent, process, asked, ran, restarts>>

-----------------------------------------------------------------------------
(* generate().                                                              *)

Becomes(k, step) == pc' = [pc EXCEPT ![k] = step]

(* What is read without a lock.  A request that ended is answered from the  *)
(* ledger or refused, and one that is pending is in doubt: no change.       *)
Inspect(k, q) ==
  /\ pc[k] = "idle"
  /\ session # None /\ Selectable(config) /\ bound[session] = config
  /\ request[q].status \in {"none", "retry_wait"}
  /\ request[q].session \in {None, session}
  /\ Becomes(k, "checked")
  /\ job' = [job EXCEPT ![k] = [NoJob EXCEPT !.request = q, !.session = session,
                                             !.said = said[session], !.seen = request[q],
                                             !.provider = ProviderOf[Resolve(config)]]]
  /\ UNCHANGED <<ledger, config, held, asked, ran, restarts>>

Holding == {"slotted", "reserved", "sent", "answered", "failing"}
HeldInAll == MapThenSumSet(LAMBDA p : held[p], Providers)

(* ModelConcurrency.slot: a slot of the provider and one of all.            *)
Free(p) == HeldInAll < GlobalLimit /\ held[p] < ProviderLimit[p]

TakeSlot(k) ==
  /\ pc[k] = "checked" /\ Free(job[k].provider)
  /\ held' = [held EXCEPT ![job[k].provider] = @ + 1]
  /\ Becomes(k, "slotted")
  /\ UNCHANGED <<ledger, config, job, asked, ran, restarts>>

(* MODEL_BUSY: nothing was reserved.                                        *)
Busy(k) ==
  /\ pc[k] = "checked" /\ ~Free(job[k].provider)
  /\ Becomes(k, "idle")
  /\ job' = [job EXCEPT ![k] = NoJob]
  /\ UNCHANGED <<ledger, config, held, asked, ran, restarts>>

(* The call returns or raises: the slot is released.                        *)
Leave(k) ==
  /\ Becomes(k, "idle")
  /\ job' = [job EXCEPT ![k] = NoJob]
  /\ held' = [held EXCEPT ![job[k].provider] = @ - 1]
  /\ UNCHANGED config

(* Mutant: the budget is looked at before the reservation is added.         *)
ReservableLate(k) ==
  /\ session = job[k].session /\ said[session] = job[k].said
  /\ request[job[k].request] = job[k].seen
  /\ ToolsDone
  /\ \A other \in Requests \ {job[k].request} : ~Open(other)
  /\ spent.calls < CallLimit
  /\ spent.seconds < TimeLimit
  /\ job[k].seen.attempt < RetryLimit

(* Mutant: the ledger is not compared with what was read.                   *)
ReservableUnchecked(k) ==
  /\ ToolsDone
  /\ \A other \in Requests \ {job[k].request} : ~Open(other)
  /\ spent.calls < CallLimit
  /\ spent.seconds + Timeout <= TimeLimit
  /\ request[job[k].request].attempt < RetryLimit

Reservable(k) ==
  /\ session = job[k].session /\ said[session] = job[k].said
  /\ request[job[k].request] = job[k].seen
  /\ ToolsDone
  /\ \A other \in Requests \ {job[k].request} : ~Open(other)
  /\ spent.calls < CallLimit
  /\ spent.seconds + Timeout <= TimeLimit
  /\ job[k].seen.attempt < RetryLimit

(* model_call_reserved, or its refusal.                                     *)
Reserve(k) ==
  /\ pc[k] = "slotted"
  /\ IF Reservable(k)
     THEN /\ spent' = [spent EXCEPT !.calls = spent.calls + 1,
                                 !.seconds = spent.seconds + Timeout]
          /\ request' = [request EXCEPT ![job[k].request] =
                           [status |-> "pending", attempt |-> request[job[k].request].attempt + 1,
                            session |-> session]]
          /\ Becomes(k, "reserved")
          /\ UNCHANGED <<held, config, job>>
     ELSE Leave(k) /\ UNCHANGED <<spent, request>>
  /\ UNCHANGED <<session, bound, said, tool, asked, ran, restarts>>

Fails(k, error) ==
  /\ Becomes(k, "failing")
  /\ job' = [job EXCEPT ![k].error = error]
  /\ UNCHANGED <<ledger, config, held, asked, ran, restarts>>

(* Up to the handshake: nothing has been sent.                              *)
FailToSend(k) ==
  /\ pc[k] = "reserved"
  /\ \E code \in Refusals \cup {CodeOf(kind, FALSE) : kind \in BeforeSending} :
       Fails(k, ErrorOfCode(code))

(* Cancelled before the adapter, between it and the answer, or too late:    *)
(* always in doubt.                                                         *)
Overdue(k) ==
  /\ pc[k] \in {"reserved", "sent", "answered"}
  /\ Fails(k, Doubt)

(* request_sent is marked, then the bytes leave.                            *)
Send(k) ==
  /\ pc[k] = "reserved"
  /\ Becomes(k, "sent")
  /\ UNCHANGED <<ledger, config, held, job, asked, ran, restarts>>

(* The provider does the work, or not, before its answer arrives or is lost. *)
Work(k) ==
  /\ pc[k] = "sent" /\ ~job[k].worked
  /\ asked' = [asked EXCEPT ![job[k].request] = @ + 1]
  /\ job' = [job EXCEPT ![k].worked = TRUE]
  /\ UNCHANGED <<ledger, config, held, pc, ran, restarts>>

FailAfterSend(k) ==
  /\ pc[k] = "sent"
  /\ \E kind \in AfterSending : Fails(k, ErrorOfCode(CodeOf(kind, TRUE)))

(* An answer that is no result.  A provider that limits did not work.       *)
AnswerError(k) ==
  /\ pc[k] = "sent"
  /\ \E answer \in Answers :
       /\ answer = "limited" => ~job[k].worked
       /\ Fails(k, ErrorOfAnswer(answer))

AnswerResult(k) ==
  /\ pc[k] = "sent" /\ job[k].worked
  /\ Becomes(k, "answered")
  /\ UNCHANGED <<ledger, config, held, job, asked, ran, restarts>>

(* active_seconds gives back what the reservation did not use; a call may   *)
(* take longer than its timeout.                                            *)
Settled(elapsed) == [spent EXCEPT !.seconds = @ + elapsed - Timeout]

Retry(k) ==
  /\ job[k].error.retryable /\ job[k].error.effect = "none"
  /\ request[job[k].request].attempt < RetryLimit

(* model_call_failed.  A delay beyond a minute makes it final as well.  If   *)
(* the request was abandoned meanwhile, its record stands.                   *)
RecordFailure(k, elapsed) ==
  /\ pc[k] = "failing"
  /\ IF request[job[k].request].status = "pending"
     THEN /\ \E status \in {"failed"} \cup (IF Retry(k) THEN {"retry_wait"} ELSE {}) :
               request' = [request EXCEPT ![job[k].request].status = status]
          /\ spent' = Settled(elapsed)
     ELSE UNCHANGED <<request, spent>>
  /\ Leave(k)
  /\ UNCHANGED <<session, bound, said, tool, asked, ran, restarts>>

AllNew(calls) == \A t \in calls : tool[t].status = "absent"

(* validate_response: no tool call of the same session is named again.       *)
Unheard(k, calls) == \A t \in calls : tool[t].session # job[k].session

(* model_call_completed: the response, and the tools it calls.  If it was    *)
(* abandoned, or an identifier is not new, the request stays as it is.       *)
RecordResult(k, elapsed, calls) ==
  /\ pc[k] = "answered" /\ Unheard(k, calls)
  /\ IF request[job[k].request].status = "pending" /\ AllNew(calls)
     THEN /\ request' = [request EXCEPT ![job[k].request].status = "completed"]
          /\ spent' = Settled(elapsed)
          /\ said' = [said EXCEPT ![job[k].session] = @ + 1]
          /\ tool' = [t \in Tools |-> IF t \in calls
                        THEN [status |-> "ready", session |-> job[k].session, result |-> None]
                        ELSE tool[t]]
     ELSE UNCHANGED <<request, spent, said, tool>>
  /\ Leave(k)
  /\ UNCHANGED <<session, bound, asked, ran, restarts>>

-----------------------------------------------------------------------------
(* claim_tool: durable before the tool runs.                                *)
ClaimTool(t) ==
  /\ tool[t].status = "ready"
  /\ spent.tools < ToolLimit
  /\ \A other \in Tools : tool[other].status # "claimed"
  /\ tool' = [tool EXCEPT ![t].status = "claimed"]
  /\ spent' = [spent EXCEPT !.tools = @ + 1]
  /\ ran' = [ran EXCEPT ![t] = @ + 1]
  /\ UNCHANGED <<session, bound, said, request, process, asked, restarts>>

(* finish_tool, by the thread that ran it or by an operator who looked at    *)
(* its effect; reporting a tool that is done again changes nothing.          *)
FinishTool(t, r) ==
  /\ tool[t].status = "claimed"
  /\ tool' = [tool EXCEPT ![t].status = "done", ![t].result = r]
  /\ said' = [said EXCEPT ![tool[t].session] = @ + 1]
  /\ UNCHANGED <<session, bound, request, spent, process, asked, ran, restarts>>

(* abandon_request: an operator gives up an open request.                   *)
AbandonRequest(q) ==
  /\ Open(q)
  /\ request' = [request EXCEPT ![q].status = "abandoned"]
  /\ UNCHANGED <<session, bound, said, tool, spent, process, asked, ran, restarts>>

(* The service is killed and started again, perhaps configured otherwise.   *)
Restart(c) ==
  /\ restarts < MaxRestarts
  /\ restarts' = restarts + 1
  /\ config' = c
  /\ held' = [p \in Providers |-> 0]
  /\ pc' = [k \in Callers |-> "idle"]
  /\ job' = [k \in Callers |-> NoJob]
  /\ UNCHANGED <<ledger, asked, ran>>

Elapsed == 0..(Timeout + MaxOverrun)

Generate(k) ==
  \/ \E q \in Requests : Inspect(k, q)
  \/ TakeSlot(k) \/ Busy(k) \/ Reserve(k)
  \/ FailToSend(k) \/ Overdue(k) \/ Send(k) \/ Work(k)
  \/ FailAfterSend(k) \/ AnswerError(k) \/ AnswerResult(k)
  \/ \E elapsed \in Elapsed : RecordFailure(k, elapsed)
  \/ \E elapsed \in Elapsed, calls \in SUBSET Tools : RecordResult(k, elapsed, calls)

Next ==
  \/ \E s \in Sessions : OpenSession(s)
  \/ \E k \in Callers : Generate(k)
  \/ \E t \in Tools : ClaimTool(t)
  \/ \E t \in Tools, r \in Results : FinishTool(t, r)
  \/ \E q \in Requests : AbandonRequest(q)
  \/ \E c \in Configs : Restart(c)

Spec == Init /\ [][Next]_vars

-----------------------------------------------------------------------------
(* A provider does the work of a request at most once, whatever is lost,    *)
(* tried again, given up, or run by two threads: what is retried had no     *)
(* effect (sessions.py 143-152, 195-207, adapters.py 103-126).              *)
AtMostOnce == \A q \in Requests : asked[q] <= 1

(* A tool the model called is let run at most once, also if the provider    *)
(* gives its identifier again (sessions.py 215, 222, 235).                  *)
ToolOnce == \A t \in Tools : ran[t] <= 1

(* Threads, retries, lost answers and kills do not show in the conversation *)
(* the ledger keeps: a question is worked on once, and its tools run once,  *)
(* before the next (sessions.py 90-94, 165-169, 215-257).                   *)
Stage == [none |-> "new", pending |-> "open", retry_wait |-> "open", completed |-> "answered",
          failed |-> "closed", abandoned |-> "closed"]
Asked == [q \in Requests |-> Stage[request[q].status]]
Called == [t \in Tools |-> tool[t].status]
Reported == [t \in Tools |-> tool[t].result]
Conversation == INSTANCE Dialogue WITH
  active <- session, question <- Asked, worked <- asked, call <- Called, result <- Reported
KeepsDialogue == Conversation!Spec

(* While a request is open no other one is, no tool of the run is waiting,  *)
(* and its session is the active one: open_session and generate decide on   *)
(* it from two sides (sessions.py 90-94, 165-169).                          *)
OneOpen ==
  \A q \in Requests : Open(q) =>
    /\ ToolsDone /\ request[q].session = session
    /\ \A other \in Requests \ {q} : ~Open(other)

(* Calls and tools never exceed the limits of the run, and the time exceeds *)
(* its limit by the overrun of one call at most, over lost reservations,    *)
(* retries and restarts (sessions.py 170-176, 199, 217).                    *)
BudgetHeld ==
  /\ spent.calls <= CallLimit /\ spent.tools <= ToolLimit
  /\ spent.seconds <= TimeLimit + MaxOverrun
  /\ \A q \in Requests : request[q].attempt <= RetryLimit

(* What a thread asks for a pending request holds every message of the      *)
(* active session: nothing it read before the reservation is stale          *)
(* (sessions.py 134-136, 163-166).                                          *)
PromptComplete ==
  \A k \in Callers :
    pc[k] \in {"reserved", "sent", "answered"} /\ request[job[k].request].status = "pending"
      => job[k].session = session /\ job[k].said = said[session]

(* A session is answered by the model it was opened with, which the present *)
(* configuration still allows, across restarts with others                  *)
(* (sessions.py 135-139, router.py 58-77).                                  *)
RouteKept ==
  \A k \in Callers : pc[k] \in Holding =>
    /\ Selectable(config)
    /\ job[k].provider = ProviderOf[Resolve(bound[job[k].session])]

(* The slots of a provider that are taken are those of the threads between  *)
(* the slot and its release, whichever way they left, and within its limit  *)
(* (adapters.py 28-40).                                                     *)
SlotsExact ==
  \A p \in Providers :
    /\ held[p] = Cardinality({k \in Callers : pc[k] \in Holding /\ job[k].provider = p})
    /\ held[p] <= ProviderLimit[p]

=============================================================================
