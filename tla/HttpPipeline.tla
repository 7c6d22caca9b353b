---------------------------- MODULE HttpPipeline ----------------------------
(***************************************************************************)
(* What happens to a request between net/http and the components: router,  *)
(* generated wrappers with the error hooks of apihttp, LINE webhook route, *)
(* WriteError, and the middleware chain RequestID, access log,             *)
(* EnsureJSONError, Recoverer.  Requests share nothing but the error       *)
(* sentinels of apperr, from which With* derives one error after another.  *)
(* Of a response it matters which pieces it is made of, and whose.         *)
(***************************************************************************)
EXTENDS Naturals, Sequences

CONSTANT Requests     \* requests; each one's name is its request id, and
                      \* stands for the details and causes of its errors

Sentinels == {"ValidationFailed", "LineSignatureInvalid"}
None == "none"

ASSUME NamesAssumption == Requests \cap (Sentinels \cup {None, "plain"}) = {}

Codes == {"VALIDATION_FAILED", "PROPERTY_NOT_FOUND", "PROPERTY_DUPLICATE",
          "PROPERTY_INVALID_STATUS_TRANSITION", "LINE_SIGNATURE_INVALID", "INTERNAL"}

VARIABLES
    outcome,  \* what routing and handler come to
    pc,       \* next step of each request
    err,      \* the error in hand: a cell of the heap, or "plain" for another
    heap,     \* the apperr.Errors: the sentinels, and what each request derives
    writer,   \* the response writers of each request, from the guard down
    gone      \* the requests whose client has closed the connection

vars == <<outcome, pc, err, heap, writer, gone>>

\* The message of a code, or one for a body that could not be decoded, for a
\* webhook's body, and for a number that could not be parsed.
Messages == {"own", "body", "line", "parse"}

\* apperr.Error
Error == [code: Codes, message: Messages,
          details: Requests \cup {None}, cause: Requests \cup {None}]

NewError(code) == [code |-> code, message |-> "own", details |-> None, cause |-> None]

SentinelOf(s) ==
    NewError(IF s = "ValidationFailed" THEN "VALIDATION_FAILED" ELSE "LINE_SIGNATURE_INVALID")

HTTPStatus(code) ==
    CASE code = "VALIDATION_FAILED" -> 400
      [] code = "PROPERTY_NOT_FOUND" -> 404
      [] code \in {"PROPERTY_DUPLICATE", "PROPERTY_INVALID_STATUS_TRANSITION"} -> 409
      [] code = "LINE_SIGNATURE_INVALID" -> 401
      [] OTHER -> 500

\* The pieces a body is made of: the unified error, the JSON of a response,
\* and whatever else, which may tell internals.
ErrorBody(r, code, message, details) ==
    [kind |-> "error", id |-> r, code |-> code, message |-> message, details |-> details]
InternalError(r) == ErrorBody(r, "INTERNAL", "own", None)
Plain(kind) == [kind |-> kind]

-----------------------------------------------------------------------------
(* The response writers.                                                   *)

\* Mutant: the access log's status starts at zero.
NewWriterZero == [type |-> None, wroteHeader |-> FALSE, intercepted |-> FALSE,
                  logged |-> 0, status |-> 0, sentType |-> None, body |-> <<>>]

\* type: the Content-Type header; wroteHeader, intercepted: jsonErrorGuard;
\* logged: statusRecorder; status, sentType, body: what net/http sends.
NewWriter == [type |-> None, wroteHeader |-> FALSE, intercepted |-> FALSE,
              logged |-> 200, status |-> 0, sentType |-> None, body |-> <<>>]

SetType(w, t) == [w EXCEPT !.type = t]

\* statusRecorder.WriteHeader, and net/http's, which takes the first only.
RecordHeader(w, s) ==
    IF w.status = 0
      THEN [w EXCEPT !.logged = s, !.status = s, !.sentType = w.type]
      ELSE [w EXCEPT !.logged = s]

\* net/http sends a 200 before a body without a header.
Send(w, piece) ==
    [(IF w.status = 0 THEN [w EXCEPT !.status = 200, !.sentType = w.type] ELSE w)
        EXCEPT !.body = Append(@, piece)]

\* Mutant: a repeated WriteHeader is passed on.
WriteHeaderRepeated(r, w, s) ==
    IF s < 400 \/ w.type = "json"
      THEN RecordHeader([w EXCEPT !.wroteHeader = TRUE], s)
      ELSE Send(RecordHeader([w EXCEPT !.wroteHeader = TRUE, !.intercepted = TRUE,
                                       !.type = "json"], s),
                InternalError(r))

\* Mutant: the body is replaced, its type is not.
WriteHeaderKeepingType(r, w, s) ==
    IF w.wroteHeader THEN w
    ELSE IF s < 400 \/ w.type = "json"
      THEN RecordHeader([w EXCEPT !.wroteHeader = TRUE], s)
      ELSE Send(RecordHeader([w EXCEPT !.wroteHeader = TRUE, !.intercepted = TRUE], s),
                InternalError(r))

\* jsonErrorGuard.WriteHeader
WriteHeader(r, w, s) ==
    IF w.wroteHeader THEN w
    ELSE IF s < 400 \/ w.type = "json"
      THEN RecordHeader([w EXCEPT !.wroteHeader = TRUE], s)
      ELSE Send(RecordHeader([w EXCEPT !.wroteHeader = TRUE, !.intercepted = TRUE,
                                       !.type = "json"], s),
                InternalError(r))

\* jsonErrorGuard.Write
Write(r, w, piece) ==
    IF w.intercepted THEN w
    ELSE Send(IF w.wroteHeader THEN w ELSE WriteHeader(r, w, 200), piece)

\* httpx.WriteJSON, and the Visit methods of generated responses.
WriteJSON(r, w, s, piece) == Write(r, WriteHeader(r, SetType(w, "json"), s), piece)

-----------------------------------------------------------------------------
(* apperr: derivation from an error in a cell of the heap.                 *)

\* Mutant: the receiver itself is changed.
DeriveInPlace(r, e) ==
    /\ heap' = [heap EXCEPT ![err[r]] = e]
    /\ UNCHANGED err

\* clone: the derived error is in a cell of its own.
Derive(r, e) ==
    /\ heap' = [heap EXCEPT ![r] = e]
    /\ err' = [err EXCEPT ![r] = r]

Goto(r, step) == pc' = [pc EXCEPT ![r] = step]

WithDetails(r) ==
    /\ pc[r] = "details"
    /\ Derive(r, [heap[err[r]] EXCEPT !.details = r])
    /\ Goto(r, "cause")
    /\ UNCHANGED <<outcome, writer, gone>>

WithMessage(r) ==
    /\ pc[r] = "message"
    /\ Derive(r, [heap[err[r]] EXCEPT
                     !.message = IF outcome[r] = "bad line body" THEN "line" ELSE "body"])
    /\ Goto(r, "cause")
    /\ UNCHANGED <<outcome, writer, gone>>

WithError(r) ==
    /\ pc[r] = "cause"
    /\ Derive(r, [heap[err[r]] EXCEPT !.cause = r])
    /\ Goto(r, "error")
    /\ UNCHANGED <<outcome, writer, gone>>

-----------------------------------------------------------------------------
Init ==
    /\ outcome = [r \in Requests |-> None]
    /\ pc = [r \in Requests |-> "new"]
    /\ err = [r \in Requests |-> None]
    /\ heap = [c \in Sentinels \cup Requests |->
                  IF c \in Sentinels THEN SentinelOf(c) ELSE NewError("INTERNAL")]
    /\ writer = [r \in Requests |-> NewWriter]
    /\ gone = {}

Decide(r, o, step) ==
    /\ pc[r] = "new"
    /\ outcome' = [outcome EXCEPT ![r] = o]
    /\ Goto(r, step)

\* A path no route has (404 in plain text) or a method (405, no type at all).
\* chi answers itself.
Unrouted(r) ==
    /\ \E o \in {"no route", "no method"} :
          /\ Decide(r, o, "return")
          /\ writer' = [writer EXCEPT ![r] =
                IF o = "no route"
                  THEN Write(r, WriteHeader(r, SetType(@, "text"), 404), Plain("text"))
                  ELSE Write(r, WriteHeader(r, @, 405), Plain("empty"))]
    /\ UNCHANGED <<err, heap, gone>>

\* The hooks: ParamErrorHandler, RequestErrorHandler; and the webhook's own
\* refusals.  The handlers' own refusal of a missing body is never used:
\* strictHandler always passes one on.
Refused(r) ==
    /\ \/ /\ Decide(r, "bad param", "details")
          /\ err' = [err EXCEPT ![r] = "ValidationFailed"]
       \/ /\ \E o \in {"bad body", "bad line body"} : Decide(r, o, "message")
          /\ err' = [err EXCEPT ![r] = "ValidationFailed"]
       \/ /\ Decide(r, "bad signature", "cause")
          /\ err' = [err EXCEPT ![r] = "LineSignatureInvalid"]
    /\ UNCHANGED <<heap, writer, gone>>

\* The errors of a component: apperr.Validation's has details, apperr.Wrap's,
\* of a number that is valid and does not parse, has a message and a cause,
\* apperr.New's has neither.
HandlerError(r, o) ==
    CASE o = "VALIDATION_FAILED" -> [NewError(o) EXCEPT !.details = r]
      [] o = "unparsed" ->
            [NewError("VALIDATION_FAILED") EXCEPT !.message = "parse", !.cause = r]
      [] OTHER -> NewError(o)

\* The component returns an error of its own, or one of a driver.
HandlerFails(r) ==
    /\ \/ \E o \in {"VALIDATION_FAILED", "unparsed", "PROPERTY_NOT_FOUND",
                    "PROPERTY_DUPLICATE", "PROPERTY_INVALID_STATUS_TRANSITION"} :
             /\ Decide(r, o, "error")
             /\ err' = [err EXCEPT ![r] = r]
             /\ heap' = [heap EXCEPT ![r] = HandlerError(r, o)]
       \/ /\ Decide(r, "driver error", "error")
          /\ err' = [err EXCEPT ![r] = "plain"]
          /\ UNCHANGED heap
    /\ UNCHANGED <<writer, gone>>

\* The component has a response; a 503 is a health report, not an error.
HandlerSucceeds(r) ==
    /\ \E o \in {"ok", "created", "degraded"} : Decide(r, o, "respond")
    /\ UNCHANGED <<err, heap, writer, gone>>

\* The webhook's 200 has no body.
WebhookSucceeds(r) ==
    /\ Decide(r, "line ok", "return")
    /\ writer' = [writer EXCEPT ![r] = WriteHeader(r, @, 200)]
    /\ UNCHANGED <<err, heap, gone>>

\* Recoverer
Panics(r) ==
    /\ Decide(r, "panic", "return")
    /\ writer' = [writer EXCEPT ![r] = WriteJSON(r, @, 500, InternalError(r))]
    /\ UNCHANGED <<err, heap, gone>>

\* A Visit method writes the response.  When the client is gone that may be
\* an error, which is handled like one of the handler.
Respond(r, failed) ==
    /\ pc[r] = "respond"
    /\ failed => r \in gone
    /\ writer' = [writer EXCEPT ![r] =
          WriteJSON(r, @, CASE outcome[r] = "ok" -> 200
                            [] outcome[r] = "created" -> 201
                            [] OTHER -> 503, Plain("json"))]
    /\ Goto(r, IF failed THEN "error" ELSE "return")
    /\ err' = [err EXCEPT ![r] = IF failed THEN "plain" ELSE @]
    /\ UNCHANGED <<outcome, heap, gone>>

\* httpx.WriteError
WriteError(r) ==
    /\ pc[r] = "error"
    /\ writer' = [writer EXCEPT ![r] =
          IF err[r] = "plain" THEN WriteJSON(r, @, 500, InternalError(r))
          ELSE LET e == heap[err[r]]
               IN  WriteJSON(r, @, HTTPStatus(e.code),
                             ErrorBody(r, e.code, e.message, e.details))]
    /\ Goto(r, "return")
    /\ UNCHANGED <<outcome, err, heap, gone>>

\* The chain returns: the access log is written, net/http ends the response.
Return(r) ==
    /\ pc[r] = "return"
    /\ writer' = [writer EXCEPT ![r] =
          IF @.status = 0 THEN [@ EXCEPT !.status = 200, !.sentType = @.type] ELSE @]
    /\ Goto(r, "done")
    /\ UNCHANGED <<outcome, err, heap, gone>>

ClientGoes(r) ==
    /\ pc[r] # "done"
    /\ gone' = gone \cup {r}
    /\ UNCHANGED <<outcome, pc, err, heap, writer>>

Step(r) ==
    \/ Unrouted(r) \/ Refused(r) \/ HandlerFails(r) \/ HandlerSucceeds(r)
    \/ WebhookSucceeds(r) \/ Panics(r)
    \/ WithDetails(r) \/ WithMessage(r) \/ WithError(r)
    \/ \E failed \in BOOLEAN : Respond(r, failed)
    \/ WriteError(r) \/ Return(r)

Next == \E r \in Requests : Step(r) \/ ClientGoes(r)

Spec == Init /\ [][Next]_vars

-----------------------------------------------------------------------------
(* Properties                                                              *)

Outcomes == {None, "no route", "no method", "bad param", "bad body", "bad line body",
             "bad signature", "unparsed", "driver error", "ok", "created", "degraded",
             "line ok", "panic"} \cup (Codes \ {"INTERNAL", "LINE_SIGNATURE_INVALID"})

Statuses == {200, 201, 400, 401, 404, 405, 409, 500, 503}

\* Every variable has its type.
TypeOK ==
    /\ outcome \in [Requests -> Outcomes]
    /\ pc \in [Requests -> {"new", "details", "message", "cause", "error", "respond",
                            "return", "done"}]
    /\ err \in [Requests -> Sentinels \cup Requests \cup {None, "plain"}]
    /\ heap \in [Sentinels \cup Requests -> Error]
    /\ \A r \in Requests :
          /\ writer[r].logged \in Statuses
          /\ writer[r].status \in Statuses \cup {0}
          /\ Len(writer[r].body) <= 2
    /\ gone \subseteq Requests

\* r was answered, and its client is there to see it.
Answered(r) == pc[r] = "done" /\ r \notin gone

\* A response of 400 or more is one JSON value, and that value is the unified
\* error body with the request's own id, whichever route, hook, default of the
\* router or panic it comes from; only a degraded health report is its own.
\* And nothing that chi, a driver or net/http has to say is ever sent, be it half
\* way through a response or to a client that has gone.
ErrorsUnified ==
    \A r \in Requests :
        /\ \A i \in DOMAIN writer[r].body : writer[r].body[i].kind \in {"json", "error"}
        /\ Answered(r) /\ writer[r].status >= 400 =>
              /\ writer[r].sentType = "json"
              /\ Len(writer[r].body) = 1
              /\ \/ /\ writer[r].body[1].kind = "error"
                    /\ writer[r].body[1].id = r
                 \/ outcome[r] = "degraded" /\ writer[r].body[1] = Plain("json")

\* The error a client is told is the error of its own request: code, details
\* and message come from what went wrong in it, though concurrent requests
\* derive their errors from the same sentinels.  Only a parameter and a body
\* that failed validation have details; a number that passed validation and
\* does not parse is told by its message alone.
OwnError ==
    \A r \in Requests :
        Answered(r) /\ outcome[r] \notin {"ok", "created", "degraded", "line ok"} =>
            LET b == writer[r].body[1] o == outcome[r] IN
            /\ b.code =
                  CASE o \in {"bad param", "bad body", "bad line body", "unparsed"} ->
                            "VALIDATION_FAILED"
                    [] o = "bad signature" -> "LINE_SIGNATURE_INVALID"
                    [] o \in Codes -> o
                    [] OTHER -> "INTERNAL"
            /\ b.details = IF o \in {"bad param", "VALIDATION_FAILED"} THEN r ELSE None
            /\ b.message = CASE o = "bad body" -> "body"
                             [] o = "bad line body" -> "line"
                             [] o = "unparsed" -> "parse"
                             [] OTHER -> "own"

\* The access log has the status that was sent, also when the response fails
\* half way and an error is written after it.
LoggedIsSent ==
    \A r \in Requests : pc[r] = "done" => writer[r].logged = writer[r].status
=============================================================================
