-------------------------- MODULE HttpPipelineProofs --------------------------
(***************************************************************************)
(* The safety of the HTTP pipeline for any number of requests at once.     *)
(* The inductive invariant follows a request from step to step: what its   *)
(* outcome is, whose error it has in hand and what that error says, and    *)
(* what its response is made of by then.                                   *)
(***************************************************************************)
EXTENDS HttpPipeline, SequenceTheorems, TLAPS

Succeeded == {"ok", "created", "degraded"}
Refusals == {"bad param", "bad body", "bad line body"}
Handled == {"VALIDATION_FAILED", "unparsed", "PROPERTY_NOT_FOUND", "PROPERTY_DUPLICATE",
            "PROPERTY_INVALID_STATUS_TRANSITION"}

\* What the client has to be told of an outcome.
CodeOf(o) ==
    CASE o \in Refusals \cup {"unparsed"} -> "VALIDATION_FAILED"
      [] o = "bad signature" -> "LINE_SIGNATURE_INVALID"
      [] o \in Codes -> o
      [] OTHER -> "INTERNAL"
MessageOf(o) ==
    CASE o = "bad body" -> "body"
      [] o = "bad line body" -> "line"
      [] o = "unparsed" -> "parse"
      [] OTHER -> "own"
DetailsOf(r, o) == IF o \in {"bad param", "VALIDATION_FAILED"} THEN r ELSE None

Told(r) == ErrorBody(r, CodeOf(outcome[r]), MessageOf(outcome[r]), DetailsOf(r, outcome[r]))

StatusOf(o) == CASE o = "ok" -> 200 [] o = "created" -> 201 [] OTHER -> 503

\* What bodies are made of, and the response writers.
Pieces ==
    {Plain(kind) : kind \in {"json", "text", "empty"}} \cup
    {ErrorBody(r, code, message, details) :
        r \in Requests, code \in Codes, message \in Messages,
        details \in Requests \cup {None}}

ContentTypes == {None, "text", "json"}

Writers ==
    [type: ContentTypes, wroteHeader: BOOLEAN, intercepted: BOOLEAN,
     logged: Statuses, status: Statuses \cup {0}, sentType: ContentTypes,
     body: Seq(Pieces)]

\* The header of w is written: the status that is sent is the one that is logged.
Headed(w, type, intercepted, s) ==
    /\ w \in Writers
    /\ w.wroteHeader /\ (w.intercepted <=> intercepted)
    /\ w.logged = s /\ w.status = s /\ w.sentType = type

Body0(w) == w.body = <<>>
Body1(w, piece) == Len(w.body) = 1 /\ w.body[1] = piece
Body2(w, first, piece) == Len(w.body) = 2 /\ w.body[1] = first /\ w.body[2] = piece

-----------------------------------------------------------------------------
(* The invariant.                                                          *)

Types ==
    /\ outcome \in [Requests -> Outcomes]
    /\ pc \in [Requests -> {"new", "details", "message", "cause", "error", "respond",
                            "return", "done"}]
    /\ err \in [Requests -> Sentinels \cup Requests \cup {None, "plain"}]
    /\ heap \in [Sentinels \cup Requests -> Error]
    /\ writer \in [Requests -> Writers]
    /\ gone \subseteq Requests

\* Nobody has changed a sentinel.
SentinelsOK == \A s \in Sentinels : heap[s] = SentinelOf(s)

\* The error r has derived says what the outcome of r is.
Own(r) ==
    /\ err[r] = r
    /\ heap[r].code = CodeOf(outcome[r])
    /\ heap[r].message = MessageOf(outcome[r])
    /\ heap[r].details = DetailsOf(r, outcome[r])

\* The error r has in hand before WriteError, and what is written by then.
ErrorOK(r) ==
    \/ /\ Own(r) /\ outcome[r] \in Refusals \cup Handled \cup {"bad signature"}
       /\ writer[r] = NewWriter
    \/ /\ err[r] = "plain" /\ outcome[r] = "driver error"
       /\ writer[r] = NewWriter
    \/ /\ err[r] = "plain" /\ outcome[r] \in Succeeded /\ r \in gone
       /\ Headed(writer[r], "json", FALSE, StatusOf(outcome[r]))
       /\ Body1(writer[r], Plain("json"))

\* The response of r.
ResponseOK(r) ==
    \/ /\ outcome[r] \in Succeeded
       /\ Headed(writer[r], "json", FALSE, StatusOf(outcome[r]))
       /\ \/ Body1(writer[r], Plain("json"))
          \/ r \in gone /\ Body2(writer[r], Plain("json"), InternalError(r))
    \/ /\ outcome[r] = "line ok"
       /\ Headed(writer[r], None, FALSE, 200) /\ Body0(writer[r])
    \/ /\ outcome[r] \notin Succeeded \cup {"line ok"}
       /\ \E i \in BOOLEAN, s \in Statuses : Headed(writer[r], "json", i, s)
       /\ Body1(writer[r], Told(r))

RequestOK(r) ==
    /\ pc[r] \in {"new", "details", "message", "cause", "respond"} => writer[r] = NewWriter
    /\ pc[r] = "details" => outcome[r] = "bad param" /\ err[r] = "ValidationFailed"
    /\ pc[r] = "message" =>
          outcome[r] \in {"bad body", "bad line body"} /\ err[r] = "ValidationFailed"
    /\ pc[r] = "cause" =>
          \/ outcome[r] = "bad signature" /\ err[r] = "LineSignatureInvalid"
          \/ outcome[r] \in Refusals /\ Own(r)
    /\ pc[r] = "respond" => outcome[r] \in Succeeded
    /\ pc[r] = "error" => ErrorOK(r)
    /\ pc[r] \in {"return", "done"} => ResponseOK(r)

IInv == Types /\ SentinelsOK /\ \A r \in Requests : RequestOK(r)

-----------------------------------------------------------------------------
(* The response writers.                                                   *)

\* A response starts without a header and without a body.
LEMMA NewLemma ==
    /\ NewWriter \in Writers
    /\ NewWriter.type = None /\ ~NewWriter.wroteHeader /\ ~NewWriter.intercepted
    /\ NewWriter.logged = 200 /\ NewWriter.status = 0 /\ NewWriter.body = <<>>
  BY DEF NewWriter, Writers, ContentTypes, Statuses, None

\* Setting the type before the header changes nothing else.
LEMMA TypeLemma ==
    ASSUME NEW w \in Writers, NEW type \in ContentTypes
    PROVE  LET v == SetType(w, type) IN
           /\ v \in Writers
           /\ v.type = type /\ v.wroteHeader = w.wroteHeader
           /\ v.intercepted = w.intercepted /\ v.logged = w.logged
           /\ v.status = w.status /\ v.sentType = w.sentType /\ v.body = w.body
  BY DEF SetType, Writers

\* The first header is the one that is sent, and the one that is logged.
LEMMA RecordLemma ==
    ASSUME NEW w \in Writers, NEW s \in Statuses, w.status = 0
    PROVE  LET v == RecordHeader(w, s) IN
           /\ v \in Writers
           /\ v.type = w.type /\ v.wroteHeader = w.wroteHeader
           /\ v.intercepted = w.intercepted /\ v.logged = s
           /\ v.status = s /\ v.sentType = w.type /\ v.body = w.body
  BY DEF RecordHeader, Writers

\* After the header a piece of the body goes behind the others.
LEMMA SendLemma ==
    ASSUME NEW w \in Writers, NEW piece \in Pieces, w.status # 0
    PROVE  LET v == Send(w, piece) IN
           /\ v \in Writers
           /\ v.type = w.type /\ v.wroteHeader = w.wroteHeader
           /\ v.intercepted = w.intercepted /\ v.logged = w.logged
           /\ v.status = w.status /\ v.sentType = w.sentType
           /\ Body0(w) => Body1(v, piece)
           /\ \A first : Body1(w, first) => Body2(v, first, piece)
<1> DEFINE v == Send(w, piece)
<1>1. v = [w EXCEPT !.body = Append(@, piece)]
  BY DEF Send
<1>2. w.body \in Seq(Pieces)
  BY DEF Writers
<1>3. Append(w.body, piece) \in Seq(Pieces)
  BY <1>2
<1>4. /\ v \in Writers
      /\ v.type = w.type /\ v.wroteHeader = w.wroteHeader
      /\ v.intercepted = w.intercepted /\ v.logged = w.logged
      /\ v.status = w.status /\ v.sentType = w.sentType
      /\ v.body = Append(w.body, piece)
  BY <1>1, <1>3 DEF Writers
<1>5. /\ Len(v.body) = Len(w.body) + 1
      /\ v.body[Len(w.body) + 1] = piece
      /\ \A i \in 1..Len(w.body) : v.body[i] = w.body[i]
  BY <1>2, <1>4, AppendProperties
<1>6. Body0(w) => Body1(v, piece)
  BY <1>5 DEF Body0, Body1
<1>7. ASSUME NEW first, Body1(w, first)
      PROVE  Body2(v, first, piece)
  BY <1>5, <1>7 DEF Body1, Body2
<1> QED BY <1>4, <1>6, <1>7

\* A header that EnsureJSONError lets pass.
LEMMA HeaderLemma ==
    ASSUME NEW r, NEW w \in Writers, NEW s \in Statuses,
           ~w.wroteHeader, ~w.intercepted, w.status = 0, s < 400 \/ w.type = "json"
    PROVE  Headed(WriteHeader(r, w, s), w.type, FALSE, s) /\ WriteHeader(r, w, s).body = w.body
<1> DEFINE u == [w EXCEPT !.wroteHeader = TRUE]
<1>1. /\ u \in Writers
      /\ u.type = w.type /\ u.wroteHeader /\ u.intercepted = w.intercepted
      /\ u.status = w.status /\ u.body = w.body
  BY DEF Writers
<1>2. WriteHeader(r, w, s) = RecordHeader(u, s)
  BY DEF WriteHeader
<1> HIDE DEF u
<1>3. Headed(RecordHeader(u, s), w.type, FALSE, s) /\ RecordHeader(u, s).body = w.body
  BY <1>1, RecordLemma DEF Headed
<1> QED BY <1>2, <1>3

\* A JSON response: its header, its type, its body.
LEMMA JSONLemma ==
    ASSUME NEW r, NEW piece \in Pieces, NEW s \in Statuses
    PROVE  LET v == WriteJSON(r, NewWriter, s, piece) IN
           Headed(v, "json", FALSE, s) /\ Body1(v, piece)
<1> DEFINE w == SetType(NewWriter, "json")
           v == WriteHeader(r, w, s)
<1>1. /\ w \in Writers /\ w.type = "json" /\ w.body = <<>> /\ w.status = 0
      /\ ~w.wroteHeader /\ ~w.intercepted
  BY NewLemma, TypeLemma DEF ContentTypes
<1> HIDE DEF w
<1>2. Headed(v, "json", FALSE, s) /\ v.body = <<>>
  BY <1>1, HeaderLemma
<1> HIDE DEF v
<1>3. Write(r, v, piece) = Send(v, piece)
  BY <1>2 DEF Write, Headed
<1>4. v \in Writers /\ v.status # 0
  BY <1>2 DEF Headed, Statuses
<1>5. Headed(Send(v, piece), "json", FALSE, s) /\ Body1(Send(v, piece), piece)
  BY <1>2, <1>4, SendLemma DEF Headed, Body0
<1> QED BY <1>3, <1>5 DEF WriteJSON, v, w

\* What is written after a response goes behind it, under the header that was sent.
LEMMA JSONAgainLemma ==
    ASSUME NEW r, NEW piece \in Pieces, NEW first, NEW s \in Statuses, NEW t \in Statuses,
           NEW w, Headed(w, "json", FALSE, s), Body1(w, first)
    PROVE  LET v == WriteJSON(r, w, t, piece) IN
           Headed(v, "json", FALSE, s) /\ Body2(v, first, piece)
<1> DEFINE u == SetType(w, "json")
<1>1. Headed(u, "json", FALSE, s) /\ Body1(u, first)
  BY TypeLemma DEF Headed, Body1, ContentTypes
<1> HIDE DEF u
<1>2. u \in Writers /\ u.wroteHeader /\ ~u.intercepted /\ u.status # 0
  BY <1>1 DEF Headed, Statuses
<1>3. WriteHeader(r, u, t) = u
  BY <1>2 DEF WriteHeader
<1>4. Write(r, u, piece) = Send(u, piece)
  BY <1>2 DEF Write
<1>5. Headed(Send(u, piece), "json", FALSE, s) /\ Body2(Send(u, piece), first, piece)
  BY <1>1, <1>2, SendLemma DEF Headed
<1> QED BY <1>3, <1>4, <1>5 DEF WriteJSON, u

\* EnsureJSONError replaces what is not JSON: the header goes out with the type and
\* the body of the unified error, and what chi writes does not go out at all.
LEMMA GuardLemma ==
    ASSUME NEW r \in Requests, NEW s \in Statuses, s >= 400, NEW piece,
           NEW w \in Writers, ~w.wroteHeader, w.type # "json", w.status = 0, Body0(w)
    PROVE  LET v == Write(r, WriteHeader(r, w, s), piece) IN
           Headed(v, "json", TRUE, s) /\ Body1(v, InternalError(r))
<1> DEFINE u == [w EXCEPT !.wroteHeader = TRUE, !.intercepted = TRUE, !.type = "json"]
           v == RecordHeader(u, s)
<1>1. /\ u \in Writers
      /\ u.type = "json" /\ u.wroteHeader /\ u.intercepted /\ u.status = 0 /\ u.body = <<>>
  BY DEF Writers, Body0, ContentTypes
<1>2. WriteHeader(r, w, s) = Send(v, InternalError(r))
  BY DEF WriteHeader, Statuses
<1> HIDE DEF u
<1>3. Headed(v, "json", TRUE, s) /\ Body0(v)
  BY <1>1, RecordLemma DEF Headed, Body0
<1> HIDE DEF v
<1>4. InternalError(r) \in Pieces
  BY DEF InternalError, Pieces, Codes, Messages
<1>5. v \in Writers /\ v.status # 0
  BY <1>3 DEF Headed, Statuses
<1>6. Headed(Send(v, InternalError(r)), "json", TRUE, s)
      /\ Body1(Send(v, InternalError(r)), InternalError(r))
  BY <1>3, <1>4, <1>5, SendLemma DEF Headed
<1>7. Write(r, Send(v, InternalError(r)), piece) = Send(v, InternalError(r))
  BY <1>6 DEF Write, Headed
<1> QED BY <1>2, <1>6, <1>7

-----------------------------------------------------------------------------
(* The steps.  One of r leaves alone what the others have.                 *)

Elsewhere(r) ==
    /\ \A q \in Requests \ {r} :
          /\ outcome'[q] = outcome[q] /\ pc'[q] = pc[q] /\ err'[q] = err[q]
          /\ heap'[q] = heap[q] /\ writer'[q] = writer[q]
    /\ gone \subseteq gone'

Kept(r) == Types' /\ SentinelsOK' /\ Elsewhere(r) /\ RequestOK(r)'

\* A request is not the name of a sentinel, nor of no error at all.
LEMMA NamesLemma ==
    ASSUME NEW r \in Requests
    PROVE  r \notin Sentinels /\ r # None /\ r # "plain"
  BY NamesAssumption

\* What holds of a request keeps holding while others take their steps.
LEMMA OthersLemma ==
    ASSUME NEW r, NEW q \in Requests \ {r}, Elsewhere(r), RequestOK(q)
    PROVE  RequestOK(q)'
<1>1. /\ outcome'[q] = outcome[q] /\ pc'[q] = pc[q] /\ err'[q] = err[q]
      /\ heap'[q] = heap[q] /\ writer'[q] = writer[q] /\ (q \in gone => q \in gone')
  BY DEF Elsewhere
<1>2. Own(q) => Own(q)'
  BY <1>1 DEF Own
<1>3. ErrorOK(q) => ErrorOK(q)'
  BY <1>1, <1>2 DEF ErrorOK
<1>4. ResponseOK(q) => ResponseOK(q)'
  BY <1>1 DEF ResponseOK, Told
<1> QED BY <1>1, <1>2, <1>3, <1>4 DEF RequestOK

\* The router's own answers are replaced by the unified error.
LEMMA UnroutedLemma ==
    ASSUME IInv, NEW r \in Requests, Unrouted(r) PROVE Kept(r)
<1> DEFINE w == writer'[r]
           u == SetType(NewWriter, "text")
           notFound == 404
           notAllowed == 405
<1>1. /\ notFound \in Statuses /\ notAllowed \in Statuses
      /\ notFound >= 400 /\ notAllowed >= 400
  BY DEF Statuses
<1> HIDE DEF notFound, notAllowed
<1>2. u \in Writers /\ ~u.wroteHeader /\ u.type = "text" /\ u.status = 0 /\ Body0(u)
  BY NewLemma, TypeLemma DEF ContentTypes, Body0
<1>3. ASSUME NEW piece
      PROVE  LET v == Write(r, WriteHeader(r, NewWriter, notAllowed), piece) IN
             Headed(v, "json", TRUE, notAllowed) /\ Body1(v, InternalError(r))
  <2>1. NewWriter \in Writers /\ ~NewWriter.wroteHeader /\ NewWriter.type # "json"
        /\ NewWriter.status = 0 /\ Body0(NewWriter)
    BY NewLemma DEF None, Body0
  <2> QED BY <1>1, <2>1, GuardLemma, Zenon
<1> HIDE DEF u
<1>4. ASSUME NEW piece
      PROVE  LET v == Write(r, WriteHeader(r, u, notFound), piece) IN
             Headed(v, "json", TRUE, notFound) /\ Body1(v, InternalError(r))
  <2>1. u.type # "json"
    BY <1>2
  <2> QED BY <1>1, <1>2, <2>1, GuardLemma, Zenon
<1> USE DEF Unrouted, Decide, Goto
<1>5. writer[r] = NewWriter
  BY DEF IInv, RequestOK
<1>6. outcome'[r] \in {"no route", "no method"} /\ pc'[r] = "return"
  BY DEF IInv, Types
<1>7. \E s \in Statuses : Headed(w, "json", TRUE, s) /\ Body1(w, InternalError(r))
  <2>1. \/ w = Write(r, WriteHeader(r, u, notFound), Plain("text"))
        \/ w = Write(r, WriteHeader(r, NewWriter, notAllowed), Plain("empty"))
    BY <1>5, ZenonT(60) DEF IInv, Types, u, notFound, notAllowed
  <2> HIDE DEF Unrouted, w
  <2>2. \/ Headed(w, "json", TRUE, notFound) /\ Body1(w, InternalError(r))
        \/ Headed(w, "json", TRUE, notAllowed) /\ Body1(w, InternalError(r))
    <3>1. CASE w = Write(r, WriteHeader(r, u, notFound), Plain("text"))
      <4>1. LET v == Write(r, WriteHeader(r, u, notFound), Plain("text")) IN
            Headed(v, "json", TRUE, notFound) /\ Body1(v, InternalError(r))
        BY <1>4, Zenon
      <4> QED BY <3>1, <4>1, Zenon
    <3>2. CASE w = Write(r, WriteHeader(r, NewWriter, notAllowed), Plain("empty"))
      BY <1>3, <3>2, Zenon
    <3> QED BY <2>1, <3>1, <3>2
  <2> QED BY <1>1, <2>2
<1>8. Told(r)' = InternalError(r)
  BY <1>6 DEF Told, CodeOf, MessageOf, DetailsOf, Refusals, Codes, InternalError
<1>9. ResponseOK(r)'
  BY <1>6, <1>7, <1>8 DEF ResponseOK, Succeeded
<1>10. RequestOK(r)'
  BY <1>6, <1>9 DEF RequestOK
<1>11. w \in Writers
  BY <1>7 DEF Headed
<1>12. Types' /\ SentinelsOK' /\ Elsewhere(r)
  BY <1>11, ZenonT(60) DEF IInv, Types, Outcomes, SentinelsOK, Elsewhere
<1> QED BY <1>10, <1>12 DEF Kept

\* A hook takes a sentinel in hand.
LEMMA RefusedLemma ==
    ASSUME IInv, NEW r \in Requests, Refused(r) PROVE Kept(r)
<1> USE DEF Refused, Decide, Goto
<1>1. writer'[r] = NewWriter
  BY DEF IInv, RequestOK
<1>2. \/ pc'[r] = "details" /\ outcome'[r] = "bad param" /\ err'[r] = "ValidationFailed"
      \/ pc'[r] = "message" /\ outcome'[r] \in {"bad body", "bad line body"}
         /\ err'[r] = "ValidationFailed"
      \/ pc'[r] = "cause" /\ outcome'[r] = "bad signature" /\ err'[r] = "LineSignatureInvalid"
  BY DEF IInv, Types
<1>3. RequestOK(r)'
  BY <1>1, <1>2 DEF RequestOK
<1>4. Types' /\ SentinelsOK' /\ Elsewhere(r)
  BY DEF IInv, Types, Outcomes, Sentinels, SentinelsOK, Elsewhere
<1> QED BY <1>3, <1>4 DEF Kept

\* An error of the component is the request's own.
LEMMA HandlerFailsLemma ==
    ASSUME IInv, NEW r \in Requests, HandlerFails(r) PROVE Kept(r)
<1> USE DEF HandlerFails, Decide, Goto
<1>1. writer'[r] = NewWriter /\ pc'[r] = "error"
  BY DEF IInv, Types, RequestOK
<1>2. CASE outcome'[r] = "driver error"
  <2>1. err'[r] = "plain"
    BY <1>2 DEF IInv, Types
  <2>2. heap' = heap
    BY <1>2 DEF IInv, Types
  <2>3. RequestOK(r)'
    BY <1>1, <1>2, <2>1 DEF RequestOK, ErrorOK
  <2>4. outcome' = [outcome EXCEPT ![r] = "driver error"] /\ err' = [err EXCEPT ![r] = "plain"]
    BY <1>2 DEF IInv, Types
  <2>5. Types' /\ SentinelsOK' /\ Elsewhere(r)
    BY <2>2, <2>4 DEF IInv, Types, Outcomes, SentinelsOK, Elsewhere
  <2> QED BY <2>3, <2>5 DEF Kept
<1>3. CASE outcome'[r] # "driver error"
  <2>1. PICK code \in Handled :
           /\ outcome' = [outcome EXCEPT ![r] = code]
           /\ err' = [err EXCEPT ![r] = r]
           /\ heap' = [heap EXCEPT ![r] = HandlerError(r, code)]
    BY <1>3 DEF IInv, Types, Handled
  <2> DEFINE e == HandlerError(r, code)
  <2>2. e \in Error
    BY DEF HandlerError, Error, NewError, Handled, Codes, Messages
  <2>3. /\ e.code = CodeOf(code) /\ e.message = MessageOf(code)
        /\ e.details = DetailsOf(r, code)
    BY DEF HandlerError, NewError, Handled, CodeOf, MessageOf, DetailsOf, Refusals, Codes
  <2>4. heap' = [heap EXCEPT ![r] = e]
    BY <2>1
  <2> HIDE DEF e, HandlerFails
  <2>5. code \in Outcomes
    BY DEF Outcomes, Handled, Codes
  <2>6. heap'[r] = e /\ err'[r] = r /\ outcome'[r] = code
    BY <2>1, <2>4 DEF IInv, Types
  <2>7. Own(r)'
    BY <2>3, <2>6 DEF Own
  <2>8. RequestOK(r)'
    BY <1>1, <2>6, <2>7 DEF RequestOK, ErrorOK
  <2>9. writer' = writer /\ gone' = gone /\ pc' = [pc EXCEPT ![r] = "error"]
    BY DEF HandlerFails
  <2>10. Types'
    BY <2>1, <2>2, <2>4, <2>5, <2>9 DEF IInv, Types
  <2>11. SentinelsOK' /\ Elsewhere(r)
    BY <2>1, <2>4, <2>9, NamesLemma DEF IInv, Types, SentinelsOK, Elsewhere
  <2> QED BY <2>8, <2>10, <2>11 DEF Kept
<1> QED BY <1>2, <1>3

\* A response of the component is still to be written.
LEMMA HandlerSucceedsLemma ==
    ASSUME IInv, NEW r \in Requests, HandlerSucceeds(r) PROVE Kept(r)
<1> USE DEF HandlerSucceeds, Decide, Goto
<1>1. writer'[r] = NewWriter /\ pc'[r] = "respond" /\ outcome'[r] \in Succeeded
  BY DEF IInv, Types, RequestOK, Succeeded
<1>2. RequestOK(r)'
  BY <1>1 DEF RequestOK
<1>3. Types' /\ SentinelsOK' /\ Elsewhere(r)
  BY DEF IInv, Types, Outcomes, SentinelsOK, Elsewhere
<1> QED BY <1>2, <1>3 DEF Kept

\* The webhook's 200 has no body.
LEMMA WebhookSucceedsLemma ==
    ASSUME IInv, NEW r \in Requests, WebhookSucceeds(r) PROVE Kept(r)
<1> DEFINE w == WriteHeader(r, NewWriter, 200)
<1>1. Headed(w, NewWriter.type, FALSE, 200) /\ w.body = NewWriter.body
  <2> DEFINE s == 200
  <2>1. s \in Statuses /\ (s < 400 \/ NewWriter.type = "json")
    BY DEF Statuses
  <2> HIDE DEF s
  <2>2. NewWriter \in Writers /\ ~NewWriter.wroteHeader /\ ~NewWriter.intercepted
        /\ NewWriter.status = 0
    BY NewLemma
  <2>3. /\ Headed(WriteHeader(r, NewWriter, s), NewWriter.type, FALSE, s)
        /\ WriteHeader(r, NewWriter, s).body = NewWriter.body
    BY <2>1, <2>2, HeaderLemma, Zenon
  <2> QED BY <2>3 DEF s
<1>2. Headed(w, None, FALSE, 200) /\ Body0(w)
  BY <1>1, NewLemma DEF Body0
<1> USE DEF WebhookSucceeds, Decide, Goto
<1>3. writer'[r] = w /\ pc'[r] = "return" /\ outcome'[r] = "line ok"
  BY DEF IInv, Types, RequestOK
<1> HIDE DEF w
<1>4. RequestOK(r)'
  BY <1>2, <1>3 DEF RequestOK, ResponseOK
<1>5. w \in Writers
  BY <1>2 DEF Headed
<1>6. Types' /\ SentinelsOK' /\ Elsewhere(r)
  BY <1>3, <1>5 DEF IInv, Types, Outcomes, SentinelsOK, Elsewhere
<1> QED BY <1>4, <1>6 DEF Kept

\* Recoverer tells of a panic what it tells of any internal error.
LEMMA PanicsLemma ==
    ASSUME IInv, NEW r \in Requests, Panics(r) PROVE Kept(r)
<1> DEFINE w == WriteJSON(r, NewWriter, 500, InternalError(r))
<1>1. InternalError(r) \in Pieces /\ 500 \in Statuses
  BY DEF InternalError, Pieces, Codes, Messages, Statuses
<1>2. Headed(w, "json", FALSE, 500) /\ Body1(w, InternalError(r))
  BY <1>1, JSONLemma
<1> USE DEF Panics, Decide, Goto
<1>3. writer'[r] = w /\ pc'[r] = "return" /\ outcome'[r] = "panic"
  BY ZenonT(60) DEF IInv, Types, RequestOK
<1> HIDE DEF w
<1>4. Told(r)' = InternalError(r)
  BY <1>3 DEF Told, CodeOf, MessageOf, DetailsOf, Refusals, Codes, InternalError
<1>5. ResponseOK(r)'
  BY <1>3, <1>2, <1>4, ZenonT(60) DEF ResponseOK, Succeeded, Statuses
<1>6. RequestOK(r)'
  BY <1>3, <1>5 DEF RequestOK
<1>7. w \in Writers
  BY <1>2 DEF Headed
<1>8. Types' /\ SentinelsOK' /\ Elsewhere(r)
  BY <1>3, <1>7 DEF IInv, Types, Outcomes, SentinelsOK, Elsewhere
<1> QED BY <1>6, <1>8 DEF Kept

\* What the sentinels say.
LEMMA SentinelLemma ==
    /\ SentinelOf("ValidationFailed") \in Error
    /\ SentinelOf("ValidationFailed").code = "VALIDATION_FAILED"
    /\ SentinelOf("ValidationFailed").message = "own"
    /\ SentinelOf("ValidationFailed").details = None
    /\ SentinelOf("LineSignatureInvalid") \in Error
    /\ SentinelOf("LineSignatureInvalid").code = "LINE_SIGNATURE_INVALID"
    /\ SentinelOf("LineSignatureInvalid").message = "own"
    /\ SentinelOf("LineSignatureInvalid").details = None
  BY DEF SentinelOf, NewError, Error, Codes, Messages

\* What the client has to be told of the outcomes that start from a sentinel.
LEMMA ToldLemma ==
    ASSUME NEW r
    PROVE  /\ \A o \in Refusals : CodeOf(o) = "VALIDATION_FAILED"
           /\ CodeOf("bad signature") = "LINE_SIGNATURE_INVALID"
           /\ MessageOf("bad param") = "own" /\ MessageOf("bad signature") = "own"
           /\ DetailsOf(r, "bad param") = r
           /\ \A o \in {"bad body", "bad line body", "bad signature"} : DetailsOf(r, o) = None
  BY DEF CodeOf, MessageOf, DetailsOf, Refusals, Codes

\* Deriving an error changes no sentinel, and nobody else's error.
LEMMA DeriveLemma ==
    ASSUME IInv, NEW r \in Requests, NEW e \in Error, NEW step \in {"cause", "error"},
           Derive(r, e), Goto(r, step), UNCHANGED <<outcome, writer, gone>>
    PROVE  /\ Types' /\ SentinelsOK' /\ Elsewhere(r)
           /\ err'[r] = r /\ heap'[r] = e /\ pc'[r] = step
           /\ outcome'[r] = outcome[r] /\ writer'[r] = writer[r]
<1> USE DEF Derive, Goto
<1>1. err'[r] = r /\ heap'[r] = e /\ pc'[r] = step
      /\ outcome'[r] = outcome[r] /\ writer'[r] = writer[r]
  BY DEF IInv, Types
<1>2. Types'
  BY DEF IInv, Types
<1>3. SentinelsOK' /\ Elsewhere(r)
  BY NamesLemma DEF IInv, Types, SentinelsOK, Elsewhere
<1> QED BY <1>1, <1>2, <1>3

\* The error of a parameter has the details of its own request.
LEMMA WithDetailsLemma ==
    ASSUME IInv, NEW r \in Requests, WithDetails(r) PROVE Kept(r)
<1> DEFINE e == [heap[err[r]] EXCEPT !.details = r]
<1>1. /\ writer[r] = NewWriter /\ outcome[r] = "bad param"
      /\ heap[err[r]] = SentinelOf("ValidationFailed")
  BY DEF WithDetails, IInv, RequestOK, SentinelsOK, Sentinels
<1>2. e \in Error /\ e.code = "VALIDATION_FAILED" /\ e.message = "own" /\ e.details = r
  <2> DEFINE d == SentinelOf("ValidationFailed")
  <2>1. e = [d EXCEPT !.details = r]
    BY <1>1
  <2>2. d \in Error /\ d.code = "VALIDATION_FAILED" /\ d.message = "own"
    BY SentinelLemma
  <2> HIDE DEF d, e
  <2> QED BY <2>1, <2>2 DEF Error
<1>3. /\ Derive(r, e) /\ Goto(r, "cause") /\ UNCHANGED <<outcome, writer, gone>>
  BY DEF WithDetails
<1> HIDE DEF e
<1>4. /\ Types' /\ SentinelsOK' /\ Elsewhere(r)
      /\ err'[r] = r /\ heap'[r] = e /\ pc'[r] = "cause"
      /\ outcome'[r] = outcome[r] /\ writer'[r] = writer[r]
  BY <1>2, <1>3, DeriveLemma
<1>5. Own(r)'
  BY <1>1, <1>2, <1>4, ToldLemma, ZenonT(60) DEF Own, Refusals
<1>6. RequestOK(r)'
  BY <1>1, <1>4, <1>5 DEF RequestOK, Refusals
<1> QED BY <1>4, <1>6 DEF Kept

\* The error of a body has the message of the route the body was sent to.
LEMMA WithMessageLemma ==
    ASSUME IInv, NEW r \in Requests, WithMessage(r) PROVE Kept(r)
<1> DEFINE m == IF outcome[r] = "bad line body" THEN "line" ELSE "body"
           e == [heap[err[r]] EXCEPT !.message = m]
<1>1. /\ writer[r] = NewWriter /\ outcome[r] \in {"bad body", "bad line body"}
      /\ heap[err[r]] = SentinelOf("ValidationFailed")
  BY DEF WithMessage, IInv, RequestOK, SentinelsOK, Sentinels
<1>2. m \in {"line", "body"} /\ m = MessageOf(outcome[r])
  BY <1>1 DEF MessageOf
<1>3. /\ Derive(r, e) /\ Goto(r, "cause") /\ UNCHANGED <<outcome, writer, gone>>
  BY DEF WithMessage
<1> HIDE DEF m
<1>4. e \in Error /\ e.code = "VALIDATION_FAILED" /\ e.message = m /\ e.details = None
  <2> DEFINE d == SentinelOf("ValidationFailed")
  <2>1. e = [d EXCEPT !.message = m]
    BY <1>1
  <2>2. d \in Error /\ d.code = "VALIDATION_FAILED" /\ d.details = None
    BY SentinelLemma
  <2> HIDE DEF d, e
  <2> QED BY <1>2, <2>1, <2>2 DEF Error, Messages
<1> HIDE DEF e
<1>5. /\ Types' /\ SentinelsOK' /\ Elsewhere(r)
      /\ err'[r] = r /\ heap'[r] = e /\ pc'[r] = "cause"
      /\ outcome'[r] = outcome[r] /\ writer'[r] = writer[r]
  BY <1>3, <1>4, DeriveLemma
<1>6. Own(r)'
  BY <1>1, <1>2, <1>4, <1>5, ToldLemma DEF Own, Refusals
<1>7. RequestOK(r)'
  BY <1>1, <1>5, <1>6 DEF RequestOK, Refusals
<1> QED BY <1>5, <1>7 DEF Kept

\* The cause is added to what the error says already.
LEMMA WithErrorLemma ==
    ASSUME IInv, NEW r \in Requests, WithError(r) PROVE Kept(r)
<1> DEFINE d == heap[err[r]]
           e == [d EXCEPT !.cause = r]
<1>1. /\ writer[r] = NewWriter
      /\ \/ outcome[r] = "bad signature" /\ err[r] = "LineSignatureInvalid"
         \/ outcome[r] \in Refusals /\ Own(r)
  BY DEF WithError, IInv, RequestOK
<1>2. /\ d.code = CodeOf(outcome[r]) /\ d.message = MessageOf(outcome[r])
      /\ d.details = DetailsOf(r, outcome[r])
  <2>1. CASE outcome[r] = "bad signature" /\ err[r] = "LineSignatureInvalid"
    <3>1. d = SentinelOf("LineSignatureInvalid")
      BY <2>1 DEF IInv, SentinelsOK, Sentinels
    <3>2. /\ d.code = "LINE_SIGNATURE_INVALID" /\ d.message = "own" /\ d.details = None
      BY <3>1, SentinelLemma
    <3> HIDE DEF d
    <3> QED BY <2>1, <3>2, ToldLemma
  <2>2. CASE Own(r)
    BY <2>2 DEF Own
  <2> QED BY <1>1, <2>1, <2>2
<1>3. d \in Error
  <2>1. err[r] \in Sentinels \cup Requests
    BY <1>1 DEF Own, Sentinels
  <2> QED BY <2>1 DEF IInv, Types
<1>4. Derive(r, e) /\ Goto(r, "error") /\ UNCHANGED <<outcome, writer, gone>>
  BY DEF WithError
<1> HIDE DEF d
<1>5. e \in Error /\ e.code = d.code /\ e.message = d.message /\ e.details = d.details
  BY <1>3 DEF Error
<1> HIDE DEF e
<1>6. /\ Types' /\ SentinelsOK' /\ Elsewhere(r)
      /\ err'[r] = r /\ heap'[r] = e /\ pc'[r] = "error"
      /\ outcome'[r] = outcome[r] /\ writer'[r] = writer[r]
  BY <1>4, <1>5, DeriveLemma
<1>7. Own(r)'
  BY <1>2, <1>5, <1>6 DEF Own
<1>8. ErrorOK(r)'
  BY <1>1, <1>6, <1>7 DEF ErrorOK
<1>9. RequestOK(r)'
  BY <1>6, <1>8 DEF RequestOK
<1> QED BY <1>6, <1>9 DEF Kept

\* The outcomes that are a response have the status of that response.
LEMMA StatusLemma ==
    ASSUME NEW o \in Succeeded
    PROVE  StatusOf(o) \in Statuses /\ Plain("json") \in Pieces
  BY DEF Succeeded, StatusOf, Statuses, Pieces

\* Visit writes the response; an error it meets comes after it.
LEMMA RespondLemma ==
    ASSUME IInv, NEW r \in Requests, NEW failed \in BOOLEAN, Respond(r, failed) PROVE Kept(r)
<1> DEFINE s == StatusOf(outcome[r])
           w == WriteJSON(r, NewWriter, s, Plain("json"))
<1>1. writer[r] = NewWriter /\ outcome[r] \in Succeeded
  BY DEF Respond, IInv, RequestOK
<1>2. s \in Statuses /\ Plain("json") \in Pieces
  BY <1>1, StatusLemma
<1>3. w \in Writers /\ Headed(w, "json", FALSE, s) /\ Body1(w, Plain("json"))
  <2> HIDE DEF s
  <2>1. Headed(w, "json", FALSE, s) /\ Body1(w, Plain("json"))
    BY <1>2, JSONLemma
  <2> QED BY <2>1 DEF Headed
<1>4. writer' = [writer EXCEPT ![r] = w]
  BY <1>1 DEF Respond, StatusOf
<1> HIDE DEF s, w
<1>5. /\ pc' = [pc EXCEPT ![r] = IF failed THEN "error" ELSE "return"]
      /\ err' = [err EXCEPT ![r] = IF failed THEN "plain" ELSE @]
      /\ outcome' = outcome /\ heap' = heap /\ gone' = gone
      /\ failed => r \in gone
  BY DEF Respond, Goto
<1>6. Types' /\ SentinelsOK' /\ Elsewhere(r)
  BY <1>3, <1>4, <1>5 DEF IInv, Types, SentinelsOK, Elsewhere
<1>7. writer'[r] = w /\ outcome'[r] = outcome[r]
  BY <1>4, <1>5 DEF IInv, Types
<1>8. CASE failed
  <2>1. pc'[r] = "error" /\ err'[r] = "plain" /\ r \in gone'
    BY <1>5, <1>8 DEF IInv, Types
  <2>2. ErrorOK(r)'
    BY <1>1, <1>3, <1>7, <2>1 DEF ErrorOK, s
  <2> QED BY <1>6, <2>1, <2>2 DEF Kept, RequestOK
<1>9. CASE ~failed
  <2>1. pc'[r] = "return"
    BY <1>5, <1>9 DEF IInv, Types
  <2>2. ResponseOK(r)'
    BY <1>1, <1>3, <1>7 DEF ResponseOK, s
  <2> QED BY <1>6, <2>1, <2>2 DEF Kept, RequestOK
<1> QED BY <1>8, <1>9

\* WriteError tells the client the error in hand, or that it was internal.
LEMMA WriteErrorLemma ==
    ASSUME IInv, NEW r \in Requests, WriteError(r) PROVE Kept(r)
<1> DEFINE w == writer'[r]
<1>1. ErrorOK(r)
  BY DEF WriteError, IInv, RequestOK
<1>2. /\ pc' = [pc EXCEPT ![r] = "return"]
      /\ outcome' = outcome /\ err' = err /\ heap' = heap /\ gone' = gone
      /\ pc'[r] = "return"
  BY DEF WriteError, Goto, IInv, Types
<1>3. \A q \in Requests \ {r} : writer'[q] = writer[q]
  BY DEF WriteError, IInv, Types
<1>4. w \in Writers /\ writer' = [writer EXCEPT ![r] = w] /\ ResponseOK(r)'
  <2>1. writer' = [writer EXCEPT ![r] = w]
    BY DEF WriteError, IInv, Types
  <2>2. InternalError(r) \in Pieces /\ 500 \in Statuses
    BY DEF InternalError, Pieces, Codes, Messages, Statuses
  <2>3. CASE /\ Own(r) /\ outcome[r] \in Refusals \cup Handled \cup {"bad signature"}
             /\ writer[r] = NewWriter
    <3> DEFINE e == heap[err[r]]
               s == HTTPStatus(e.code)
               piece == ErrorBody(r, e.code, e.message, e.details)
    <3>1. err[r] # "plain" /\ e = heap[r]
      BY <2>3, NamesLemma DEF Own
    <3>2. w = WriteJSON(r, NewWriter, s, piece)
      BY <2>3, <3>1 DEF WriteError, IInv, Types
    <3>3. e \in Error
      BY <3>1 DEF IInv, Types
    <3>4. piece = Told(r)
      BY <2>3, <3>1 DEF Own, Told
    <3>5. s \in Statuses
      BY DEF HTTPStatus, Statuses
    <3>6. piece \in Pieces
      <4> HIDE DEF e
      <4>1. e.code \in Codes /\ e.message \in Messages
            /\ e.details \in Requests \cup {None}
        BY <3>3 DEF Error
      <4> QED BY <4>1 DEF Pieces
    <3> HIDE DEF e, s, piece
    <3>7. Headed(w, "json", FALSE, s) /\ Body1(w, piece)
      BY <3>2, <3>5, <3>6, JSONLemma
    <3>8. outcome'[r] \notin Succeeded \cup {"line ok"} /\ Told(r)' = Told(r)
      BY <1>2, <2>3 DEF Refusals, Handled, Succeeded, Told
    <3>9. ResponseOK(r)'
      BY <3>4, <3>5, <3>7, <3>8 DEF ResponseOK
    <3> QED BY <2>1, <3>7, <3>9 DEF Headed
  <2>4. CASE /\ err[r] = "plain" /\ outcome[r] = "driver error"
             /\ writer[r] = NewWriter
    <3>1. w = WriteJSON(r, NewWriter, 500, InternalError(r))
      BY <2>4 DEF WriteError, IInv, Types
    <3>2. Headed(WriteJSON(r, NewWriter, 500, InternalError(r)), "json", FALSE, 500)
          /\ Body1(WriteJSON(r, NewWriter, 500, InternalError(r)), InternalError(r))
      BY <2>2, JSONLemma
    <3>3. Headed(w, "json", FALSE, 500) /\ Body1(w, InternalError(r))
      BY <3>1, <3>2
    <3>4. outcome'[r] \notin Succeeded \cup {"line ok"} /\ Told(r)' = InternalError(r)
      BY <1>2, <2>4 DEF Succeeded, Told, CodeOf, MessageOf, DetailsOf, Refusals, Codes,
                        InternalError
    <3>5. ResponseOK(r)'
      BY <2>2, <3>3, <3>4 DEF ResponseOK
    <3> QED BY <2>1, <3>3, <3>5 DEF Headed
  <2>5. CASE /\ err[r] = "plain" /\ outcome[r] \in Succeeded /\ r \in gone
             /\ Headed(writer[r], "json", FALSE, StatusOf(outcome[r]))
             /\ Body1(writer[r], Plain("json"))
    <3> DEFINE s == StatusOf(outcome[r])
               v == writer[r]
    <3>1. w = WriteJSON(r, v, 500, InternalError(r))
      BY <2>5 DEF WriteError, IInv, Types
    <3>2. s \in Statuses
      BY <2>5, StatusLemma
    <3>3. Headed(v, "json", FALSE, s) /\ Body1(v, Plain("json"))
      BY <2>5
    <3> DEFINE internal == 500
    <3>4. internal \in Statuses /\ w = WriteJSON(r, v, internal, InternalError(r))
      BY <2>2, <3>1
    <3> HIDE DEF s, v, w, internal
    <3>5. /\ Headed(WriteJSON(r, v, internal, InternalError(r)), "json", FALSE, s)
          /\ Body2(WriteJSON(r, v, internal, InternalError(r)), Plain("json"), InternalError(r))
      BY <2>2, <3>2, <3>3, <3>4, JSONAgainLemma, ZenonT(60)
    <3>6. Headed(w, "json", FALSE, s) /\ Body2(w, Plain("json"), InternalError(r))
      BY <3>4, <3>5
    <3>7. ResponseOK(r)'
      BY <1>2, <2>5, <3>6 DEF ResponseOK, s, w
    <3> QED BY <2>1, <3>6, <3>7 DEF Headed, w
  <2> QED BY <1>1, <2>3, <2>4, <2>5 DEF ErrorOK
<1> HIDE DEF w
<1>5. Types' /\ SentinelsOK' /\ Elsewhere(r)
  BY <1>2, <1>3, <1>4 DEF IInv, Types, SentinelsOK, Elsewhere
<1>6. RequestOK(r)'
  BY <1>2, <1>4 DEF RequestOK
<1> QED BY <1>5, <1>6 DEF Kept

\* A response that is over has had its header.
LEMMA ReturnLemma ==
    ASSUME IInv, NEW r \in Requests, Return(r) PROVE Kept(r)
<1>1. ResponseOK(r)
  BY DEF Return, IInv, RequestOK
<1>2. writer[r].status # 0
  <2>1. \E s \in Statuses : writer[r].status = s
    <3>1. CASE outcome[r] \in Succeeded
      <4>1. StatusOf(outcome[r]) \in Statuses
        BY <3>1, StatusLemma
      <4>2. outcome[r] # "line ok"
        BY <3>1 DEF Succeeded
      <4> QED BY <1>1, <3>1, <4>1, <4>2 DEF ResponseOK, Headed
    <3>2. CASE outcome[r] = "line ok"
      <4>1. 200 \in Statuses /\ outcome[r] \notin Succeeded
        BY <3>2, ZenonT(60) DEF Statuses, Succeeded
      <4> QED BY <1>1, <4>1 DEF ResponseOK, Headed
    <3>3. CASE outcome[r] \notin Succeeded \cup {"line ok"}
      BY <1>1, <3>3 DEF ResponseOK, Headed
    <3> QED BY <3>1, <3>2, <3>3
  <2> QED BY <2>1 DEF Statuses
<1>3. writer' = writer
  BY <1>2 DEF Return, IInv, Types
<1>4. /\ pc' = [pc EXCEPT ![r] = "done"]
      /\ outcome' = outcome /\ err' = err /\ heap' = heap /\ gone' = gone
  BY DEF Return, Goto
<1>5. Types' /\ SentinelsOK' /\ Elsewhere(r)
  BY <1>3, <1>4 DEF IInv, Types, SentinelsOK, Elsewhere
<1>6. ResponseOK(r)'
  BY <1>1, <1>3, <1>4 DEF ResponseOK, Told
<1>7. pc'[r] = "done"
  BY <1>4 DEF IInv, Types
<1>8. RequestOK(r)'
  BY <1>6, <1>7 DEF RequestOK
<1> QED BY <1>5, <1>8 DEF Kept

\* A client that goes away changes nothing of its request.
LEMMA ClientGoesLemma ==
    ASSUME IInv, NEW r \in Requests, ClientGoes(r) PROVE Kept(r)
<1> USE DEF ClientGoes
<1>1. Own(r)' <=> Own(r)
  BY DEF Own
<1>2. (ErrorOK(r) => ErrorOK(r)') /\ (ResponseOK(r) => ResponseOK(r)')
  BY <1>1 DEF ErrorOK, ResponseOK, Told
<1>3. RequestOK(r)'
  BY <1>1, <1>2 DEF IInv, RequestOK
<1>4. Types' /\ SentinelsOK' /\ Elsewhere(r)
  BY DEF IInv, Types, SentinelsOK, Elsewhere
<1> QED BY <1>3, <1>4 DEF Kept

-----------------------------------------------------------------------------
(* The invariant is kept.                                                  *)

\* No request has come yet.
LEMMA InitLemma == Init => IInv
<1> SUFFICES ASSUME Init PROVE IInv
  OBVIOUS
<1>1. heap \in [Sentinels \cup Requests -> Error]
  BY DEF Init, SentinelOf, NewError, Error, Codes, Messages
<1>2. Types
  BY <1>1, NewLemma DEF Init, Types, Outcomes
<1>3. SentinelsOK
  BY DEF Init, SentinelsOK
<1>4. ASSUME NEW r \in Requests PROVE RequestOK(r)
  BY DEF Init, RequestOK
<1> QED BY <1>2, <1>3, <1>4 DEF IInv

\* A step of a request keeps what holds of it, and of the others.
LEMMA NextLemma == IInv /\ [Next]_vars => IInv'
<1> SUFFICES ASSUME IInv, [Next]_vars PROVE IInv'
  OBVIOUS
<1>1. ASSUME NEW r \in Requests, Kept(r) PROVE IInv'
  <2>1. \A q \in Requests \ {r} : RequestOK(q)'
    BY <1>1, OthersLemma DEF Kept, IInv
  <2> QED BY <1>1, <2>1 DEF Kept, IInv
<1>2. ASSUME NEW r \in Requests, Step(r) PROVE Kept(r)
  <2>1. CASE Unrouted(r)
    BY <2>1, UnroutedLemma
  <2>2. CASE Refused(r)
    BY <2>2, RefusedLemma
  <2>3. CASE HandlerFails(r)
    BY <2>3, HandlerFailsLemma
  <2>4. CASE HandlerSucceeds(r)
    BY <2>4, HandlerSucceedsLemma
  <2>5. CASE WebhookSucceeds(r)
    BY <2>5, WebhookSucceedsLemma
  <2>6. CASE Panics(r)
    BY <2>6, PanicsLemma
  <2>7. CASE WithDetails(r)
    BY <2>7, WithDetailsLemma
  <2>8. CASE WithMessage(r)
    BY <2>8, WithMessageLemma
  <2>9. CASE WithError(r)
    BY <2>9, WithErrorLemma
  <2>10. CASE \E failed \in BOOLEAN : Respond(r, failed)
    BY <2>10, RespondLemma
  <2>11. CASE WriteError(r)
    BY <2>11, WriteErrorLemma
  <2>12. CASE Return(r)
    BY <2>12, ReturnLemma
  <2> QED BY <1>2, <2>1, <2>2, <2>3, <2>4, <2>5, <2>6, <2>7, <2>8, <2>9, <2>10, <2>11,
             <2>12 DEF Step
<1>3. CASE Next
  <2>1. PICK r \in Requests : Step(r) \/ ClientGoes(r)
    BY <1>3 DEF Next
  <2> QED BY <1>1, <1>2, <2>1, ClientGoesLemma
<1>4. CASE UNCHANGED vars
  <2> USE <1>4 DEF vars
  <2>1. Types' /\ SentinelsOK'
    BY DEF IInv, Types, SentinelsOK
  <2>2. ASSUME NEW r \in Requests PROVE RequestOK(r)'
    <3>1. RequestOK(r) /\ (Own(r) <=> Own(r)')
      BY DEF IInv, Own
    <3>2. (ErrorOK(r) => ErrorOK(r)') /\ (ResponseOK(r) => ResponseOK(r)')
      BY <3>1 DEF ErrorOK, ResponseOK, Told
    <3> QED BY <3>1, <3>2 DEF RequestOK
  <2> QED BY <2>1, <2>2 DEF IInv
<1> QED BY <1>3, <1>4

\* The invariant holds in every state.
LEMMA Invariance == Spec => []IInv
  BY InitLemma, NextLemma, PTL DEF Spec

-----------------------------------------------------------------------------
(* What follows from it.                                                   *)

\* The body of a response is at most two pieces, and none is a word of chi,
\* net/http or a driver.
LEMMA BodyLemma ==
    ASSUME IInv, NEW r \in Requests
    PROVE  /\ Len(writer[r].body) <= 2
           /\ \A i \in DOMAIN writer[r].body : writer[r].body[i].kind \in {"json", "error"}
<1> DEFINE b == writer[r].body
<1>1. b \in Seq(Pieces)
  BY DEF IInv, Types, Writers
<1>2. Plain("json").kind = "json" /\ InternalError(r).kind = "error" /\ Told(r).kind = "error"
  BY DEF Plain, InternalError, ErrorBody, Told
<1>3. \/ b = <<>>
      \/ Len(b) = 1 /\ b[1].kind \in {"json", "error"}
      \/ Len(b) = 2 /\ b[1].kind \in {"json", "error"} /\ b[2].kind \in {"json", "error"}
  <2>1. RequestOK(r)
    BY DEF IInv
  <2>2. CASE writer[r] = NewWriter
    BY <2>2, NewLemma
  <2>3. CASE ErrorOK(r)
    BY <1>2, <2>3, NewLemma DEF ErrorOK, Body1
  <2>4. CASE ResponseOK(r)
    BY <1>2, <2>4 DEF ResponseOK, Body0, Body1, Body2
  <2> QED BY <2>1, <2>2, <2>3, <2>4 DEF RequestOK, IInv, Types
<1> HIDE DEF b
<1>4. Len(b) <= 2 /\ \A i \in 1..Len(b) : b[i].kind \in {"json", "error"}
  <2>1. b = <<>> => Len(b) = 0
    OBVIOUS
  <2>2. \/ Len(b) = 0
        \/ Len(b) = 1 /\ b[1].kind \in {"json", "error"}
        \/ Len(b) = 2 /\ b[1].kind \in {"json", "error"} /\ b[2].kind \in {"json", "error"}
    BY <1>3, <2>1
  <2>3. ASSUME NEW i \in 1..Len(b) PROVE b[i].kind \in {"json", "error"}
    <3>1. CASE Len(b) = 1
      <4>1. i = 1
        BY <3>1
      <4> QED BY <2>2, <3>1, <4>1
    <3>2. CASE Len(b) = 2
      <4>1. i = 1 \/ i = 2
        BY <3>2
      <4> QED BY <2>2, <3>2, <4>1
    <3>3. CASE Len(b) = 0
      BY <3>3
    <3> QED BY <2>2, <3>1, <3>2, <3>3
  <2> QED BY <2>2, <2>3
<1> QED BY <1>1, <1>4 DEF b

\* Every variable has its type, for any set of requests.
THEOREM Typing == Spec => []TypeOK
<1>1. IInv => TypeOK
  <2> SUFFICES ASSUME IInv PROVE TypeOK
    OBVIOUS
  <2>1. ASSUME NEW r \in Requests
        PROVE  /\ writer[r].logged \in Statuses
               /\ writer[r].status \in Statuses \cup {0}
               /\ Len(writer[r].body) <= 2
    BY BodyLemma DEF IInv, Types, Writers
  <2> QED BY <2>1 DEF IInv, Types, TypeOK
<1> QED BY <1>1, Invariance, PTL

\* The status in the access log is the status the client was sent.
THEOREM LogIsTrue == Spec => []LoggedIsSent
<1>1. IInv => LoggedIsSent
  <2> SUFFICES ASSUME IInv, NEW r \in Requests, pc[r] = "done"
               PROVE  writer[r].logged = writer[r].status
    BY DEF LoggedIsSent
  <2>1. ResponseOK(r)
    BY DEF IInv, RequestOK
  <2> QED BY <2>1 DEF ResponseOK, Headed
<1> QED BY <1>1, Invariance, PTL

\* Every failure a client is there to see is one unified error body with its
\* own request id, or the degraded health report.
THEOREM OneErrorFormat == Spec => []ErrorsUnified
<1>1. IInv => ErrorsUnified
  <2> SUFFICES ASSUME IInv, NEW r \in Requests
               PROVE  /\ \A i \in DOMAIN writer[r].body :
                            writer[r].body[i].kind \in {"json", "error"}
                      /\ Answered(r) /\ writer[r].status >= 400 =>
                            /\ writer[r].sentType = "json"
                            /\ Len(writer[r].body) = 1
                            /\ \/ /\ writer[r].body[1].kind = "error"
                                  /\ writer[r].body[1].id = r
                               \/ outcome[r] = "degraded" /\ writer[r].body[1] = Plain("json")
    BY DEF ErrorsUnified
  <2>1. \A i \in DOMAIN writer[r].body : writer[r].body[i].kind \in {"json", "error"}
    BY BodyLemma
  <2>2. ASSUME Answered(r), writer[r].status >= 400
        PROVE  /\ writer[r].sentType = "json"
               /\ Len(writer[r].body) = 1
               /\ \/ /\ writer[r].body[1].kind = "error"
                     /\ writer[r].body[1].id = r
                  \/ outcome[r] = "degraded" /\ writer[r].body[1] = Plain("json")
    <3>1. ResponseOK(r) /\ r \notin gone
      BY <2>2 DEF IInv, RequestOK, Answered
    <3>2. CASE outcome[r] \in Succeeded
      <4>1. /\ Headed(writer[r], "json", FALSE, StatusOf(outcome[r]))
            /\ Body1(writer[r], Plain("json"))
        BY <3>1, <3>2 DEF ResponseOK, Succeeded
      <4>2. outcome[r] = "degraded"
        BY <2>2, <3>2, <4>1 DEF Headed, StatusOf, Succeeded
      <4> QED BY <4>1, <4>2 DEF Headed, Body1
    <3>3. CASE outcome[r] = "line ok"
      <4>1. Headed(writer[r], None, FALSE, 200)
        BY <3>1, <3>3 DEF ResponseOK, Succeeded
      <4> QED BY <2>2, <4>1 DEF Headed
    <3>4. CASE outcome[r] \notin Succeeded \cup {"line ok"}
      <4>1. writer[r].sentType = "json" /\ Body1(writer[r], Told(r))
        BY <3>1, <3>4 DEF ResponseOK, Headed
      <4>2. Told(r).kind = "error" /\ Told(r).id = r
        BY DEF Told, ErrorBody
      <4> QED BY <4>1, <4>2 DEF Body1
    <3> QED BY <3>2, <3>3, <3>4
  <2> QED BY <2>1, <2>2
<1> QED BY <1>1, Invariance, PTL

\* The error a client is told is the one of its own request, however many others
\* derive theirs from the same sentinels.
THEOREM ErrorsAreOwn == Spec => []OwnError
<1>1. IInv => OwnError
  <2> SUFFICES ASSUME IInv, NEW r \in Requests, Answered(r),
                      outcome[r] \notin Succeeded \cup {"line ok"}
               PROVE  LET b == writer[r].body[1] o == outcome[r] IN
                      /\ b.code =
                            CASE o \in {"bad param", "bad body", "bad line body", "unparsed"} ->
                                    "VALIDATION_FAILED"
                              [] o = "bad signature" -> "LINE_SIGNATURE_INVALID"
                              [] o \in Codes -> o
                              [] OTHER -> "INTERNAL"
                      /\ b.details = IF o \in {"bad param", "VALIDATION_FAILED"} THEN r ELSE None
                      /\ b.message = CASE o = "bad body" -> "body"
                                       [] o = "bad line body" -> "line"
                                       [] o = "unparsed" -> "parse"
                                       [] OTHER -> "own"
    BY DEF OwnError, Succeeded
  <2>1. ResponseOK(r)
    BY DEF IInv, RequestOK, Answered
  <2>2. writer[r].body[1] = Told(r)
    BY <2>1 DEF ResponseOK, Body1
  <2>3. /\ Told(r).code = CodeOf(outcome[r])
        /\ Told(r).details = DetailsOf(r, outcome[r])
        /\ Told(r).message = MessageOf(outcome[r])
    BY DEF Told, ErrorBody
  <2> QED BY <2>2, <2>3 DEF CodeOf, DetailsOf, MessageOf, Refusals
<1> QED BY <1>1, Invariance, PTL
=============================================================================
