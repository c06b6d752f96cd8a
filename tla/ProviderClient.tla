---------------------------- MODULE ProviderClient ----------------------------
(***************************************************************************)
(* app/services/mpesa.py, airtel.py and provider_errors.py: how each kind  *)
(* of reply of a provider, or of the network, is read by the caller.  A    *)
(* push ends in one of four outcomes (three exceptions and a normal        *)
(* return), a status query in one of three.                                *)
(***************************************************************************)

PushOutcome == {"accepted", "not_sent", "rejected", "ambiguous"}
QueryOutcome == {"success", "failed", "unknown"}

(* What may come back from a push: no OAuth token; no connection; a          *)
(* connection lost after sending; HTTP 502-504; another HTTP error; a body   *)
(* that does not parse, that refuses, that says neither, that accepts.      *)
PushReply == {"no_token", "no_connection", "dropped", "gateway_error", "http_error",
              "unparseable", "refusal", "no_verdict", "acceptance"}

(* Exceptions of classify_send_error, by the transport error.               *)
classify_send_error(reply) ==
    IF reply = "no_connection" THEN "not_sent" ELSE "ambiguous"

(* Exceptions of classify_push_response, by the HTTP status.                *)
classify_push_response(reply) ==
    IF reply = "gateway_error" THEN "ambiguous" ELSE "rejected"

(* Common to both pushes: everything up to reading the body.                *)
PushFailure(reply) ==
    CASE reply = "no_token"                            -> "not_sent"
      [] reply \in {"no_connection", "dropped"}        -> classify_send_error(reply)
      [] reply \in {"gateway_error", "http_error"}     -> classify_push_response(reply)
      [] reply = "unparseable"                         -> "ambiguous"

BodyRead == {"refusal", "no_verdict", "acceptance"}

(* Daraja has accepted only if it says so and names a CheckoutRequestID.    *)
stk_push(reply) ==
    IF reply \notin BodyRead THEN PushFailure(reply)
    ELSE IF reply = "acceptance" THEN "accepted" ELSE "rejected"

(* Airtel has refused only if it says so. *)
initiate_payment(reply) ==
    IF reply \notin BodyRead THEN PushFailure(reply)
    ELSE IF reply = "refusal" THEN "rejected" ELSE "accepted"

(* What may come back from a status query: no answer at all (OAuth, network, *)
(* unparseable); an HTTP error ("still being processed" is one of Daraja's); *)
(* a body with no code, with a code in between, with the code of a failure, *)
(* with the code of a success.                                              *)
QueryReply == {"no_answer", "http_error", "no_code", "in_progress", "failure", "success"}

(* Mutant: two answers instead of three, "no answer" is "did not succeed".  *)
query_stk_status_two_valued(reply) ==
    IF reply = "success" THEN "success" ELSE "failed"

(* Daraja: any ResultCode but 0 is a failure. *)
query_stk_status(reply) ==
    CASE reply \in {"no_answer", "http_error", "no_code"} -> "unknown"
      [] reply = "success"                                -> "success"
      [] reply \in {"in_progress", "failure"}             -> "failed"

(* Airtel: TS, TF, and everything else is not an answer yet. *)
query_transaction_status(reply) ==
    CASE reply = "success" -> "success"
      [] reply = "failure" -> "failed"
      [] OTHER             -> "unknown"
=============================================================================
