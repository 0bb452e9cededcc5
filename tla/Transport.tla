------------------------------ MODULE Transport ------------------------------
(***************************************************************************)
(* ai_dlc/transport.py and models/adapters.py: how one HTTP exchange of a  *)
(* write ends, and what the caller may conclude about the effect on the    *)
(* other side.  Payloads, routes, TLS and limits are abstract: they decide *)
(* which failure it is.                                                    *)
(***************************************************************************)
EXTENDS FiniteSets

(* BackendFailure.kind, by whether request_sent had been marked.           *)
Interruptions == {"cancelled", "deadline"}
BeforeSending == Interruptions \cup {"network", "timeout", "tls"}
AfterSending == Interruptions \cup {"response", "timeout", "tls", "protocol", "response_limit"}

(* Refused before anything is sent: the request itself, the lack of a       *)
(* route or of a trust configuration, an address outside of the route.      *)
Malformed == {"HTTP_REQUEST", "NETWORK_URL", "NETWORK_DENIED"}
Unconfigured == {"TRANSPORT_NOT_CONFIGURED"}
Misresolved == {"NETWORK_DENIED"}
Refusals == Malformed \cup Unconfigured \cup Misresolved

(* Mutant: what was sent is looked at before the interruption and not at    *)
(* all for a lost answer.                                                   *)
CodeOfKind(kind, sent) ==
  CASE kind = "cancelled" -> "HTTP_CANCELLED"
    [] kind = "deadline" -> "HTTP_TIMEOUT"
    [] kind = "tls" -> "TLS_ERROR"
    [] kind = "protocol" -> "HTTP_PROTOCOL"
    [] kind = "response_limit" -> "RESPONSE_LIMIT"
    [] OTHER -> "NETWORK_UNAVAILABLE"

(* HttpTransport.request for a method that is not a read: one attempt.     *)
CodeOf(kind, sent) ==
  CASE kind = "cancelled" -> "HTTP_CANCELLED"
    [] kind = "deadline" -> "HTTP_TIMEOUT"
    [] kind \notin Interruptions /\ sent -> "EFFECT_UNKNOWN"
    [] kind = "tls" /\ ~sent -> "TLS_ERROR"
    [] OTHER -> "NETWORK_UNAVAILABLE"

ErrorType == [retryable : BOOLEAN, effect : {"none", "unknown"}]
Doubt == [retryable |-> FALSE, effect |-> "unknown"]
Final == [retryable |-> FALSE, effect |-> "none"]
Again == [retryable |-> TRUE, effect |-> "none"]

(* _HttpAdapter.generate: the error of a failed exchange, ...              *)
ErrorOfCode(code) ==
  CASE code \in {"EFFECT_UNKNOWN", "HTTP_CANCELLED", "HTTP_TIMEOUT"} -> Doubt
    [] code = "NETWORK_UNAVAILABLE" -> Again
    [] OTHER -> Final

(* ... and of an answer: too many requests; a timeout or a failure of the   *)
(* server; anything else that is not a result.                              *)
Answers == {"limited", "server", "other"}

ErrorOfAnswer(answer) ==
  CASE answer = "limited" -> Again
    [] answer = "server" -> Doubt
    [] OTHER -> Final
=============================================================================
