------------------------------ MODULE Dialogue ------------------------------
(***************************************************************************)
(* What the ledger of a run promises of the conversation with a model: one *)
(* question is open at a time and its tools are run, one by one, before    *)
(* the next.  A question is worked on at most once, only an answer that    *)
(* was worked on calls tools, each of them new, and a tool runs and gets   *)
(* its result once.  A question that is given up may still be worked on.   *)
(***************************************************************************)
EXTENDS Naturals

CONSTANTS Sessions, Requests, Tools, Results, None

VARIABLES
  active,     \* the session that is spoken in
  question,   \* question[q]: "new", "open", "answered" or "closed"
  worked,     \* worked[q]: how often the provider did the work of q
  call,       \* call[t]: "absent", "ready", "claimed" or "done"
  ran,        \* ran[t]: how often the tool was let run
  result      \* result[t]: what it reported

vars == <<active, question, worked, call, ran, result>>

Init ==
  /\ active = None
  /\ question = [q \in Requests |-> "new"]
  /\ worked = [q \in Requests |-> 0]
  /\ call = [t \in Tools |-> "absent"]
  /\ ran = [t \in Tools |-> 0]
  /\ result = [t \in Tools |-> None]

(* Nothing is open: the model is asked again, or another session begins.    *)
Quiet ==
  /\ \A q \in Requests : question[q] # "open"
  /\ \A t \in Tools : call[t] \in {"absent", "done"}

Begin(s) ==
  /\ Quiet /\ active' = s
  /\ UNCHANGED <<question, worked, call, ran, result>>

Ask(q) ==
  /\ Quiet /\ active # None
  /\ question[q] = "new" /\ question' = [question EXCEPT ![q] = "open"]
  /\ UNCHANGED <<active, worked, call, ran, result>>

Work(q) ==
  /\ question[q] \in {"open", "closed"}
  /\ worked[q] = 0 /\ worked' = [worked EXCEPT ![q] = 1]
  /\ UNCHANGED <<active, question, call, ran, result>>

Answer(q, calls) ==
  /\ question[q] = "open" /\ worked[q] = 1
  /\ \A t \in calls : call[t] = "absent"
  /\ question' = [question EXCEPT ![q] = "answered"]
  /\ call' = [t \in Tools |-> IF t \in calls THEN "ready" ELSE call[t]]
  /\ UNCHANGED <<active, worked, ran, result>>

Close(q) ==
  /\ question[q] = "open" /\ question' = [question EXCEPT ![q] = "closed"]
  /\ UNCHANGED <<active, worked, call, ran, result>>

Run(t) ==
  /\ call[t] = "ready" /\ \A u \in Tools : call[u] # "claimed"
  /\ call' = [call EXCEPT ![t] = "claimed"]
  /\ ran[t] = 0 /\ ran' = [ran EXCEPT ![t] = 1]
  /\ UNCHANGED <<active, question, worked, result>>

Report(t, r) ==
  /\ call[t] = "claimed" /\ call' = [call EXCEPT ![t] = "done"]
  /\ result[t] = None /\ result' = [result EXCEPT ![t] = r]
  /\ UNCHANGED <<active, question, worked, ran>>

Next ==
  \/ \E s \in Sessions : Begin(s)
  \/ \E q \in Requests : Ask(q) \/ Work(q) \/ Close(q)
  \/ \E q \in Requests, calls \in SUBSET Tools : Answer(q, calls)
  \/ \E t \in Tools : Run(t) \/ \E r \in Results : Report(t, r)

Spec == Init /\ [][Next]_vars
=============================================================================
