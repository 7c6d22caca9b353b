--------------------------- MODULE PropertyAmounts ---------------------------
(***************************************************************************)
(* The numbers of a property on their way from a request to a column and   *)
(* back to a response: strings that are validated, parsed to decimals,     *)
(* kept exactly in memory, rounded by NUMERIC(n,2) columns, and formatted  *)
(* with two places.  A create or PATCH answers with what it has in memory, *)
(* a GET with what the columns have.  One property and one request at a    *)
(* time; PropertyService is about requests that overlap.                   *)
(*                                                                         *)
(* A decimal is an integer number of thousandths, a value of a column and  *)
(* a formatted number one of hundredths: enough for a third place below,   *)
(* at and above the half that rounding is about.                           *)
(***************************************************************************)
EXTENDS Integers

CONSTANTS
    Decimals,      \* the numbers in requests, in thousandths
    Months,        \* the deposit_months in requests
    MaxStored,     \* for each column the greatest value, in hundredths
    MaxMonths      \* the greatest INT

Positive == {"area_ping", "monthly_rent"}
Columns == Positive \cup {"management_fee"}
Patchable == {"monthly_rent", "management_fee"}

ASSUME RangeAssumption ==
    /\ Decimals \subseteq Int
    /\ Months \subseteq Int
    /\ MaxStored \in [Columns -> Nat]
    /\ MaxMonths \in Nat

VARIABLES
    stored,     \* the columns of the row, in hundredths, or None
    months,     \* its deposit_months
    answer,     \* the numbers of the last 2xx answer, or None
    unanswered, \* those of a later write whose answer was lost, or None
    result      \* of the last request

vars == <<stored, months, answer, unanswered, result>>

\* The strings of a request: a number, "", blanks, no number; for a PATCH
\* also no string.
Number(d) == [kind |-> "number", value |-> d]
Empty     == [kind |-> "empty"]
Blank     == [kind |-> "blank"]
Malformed == [kind |-> "malformed"]
Absent    == [kind |-> "absent"]
Texts == {Number(d) : d \in Decimals} \cup {Empty, Blank, Malformed}

IsNumber(t) == t.kind = "number"

None == [kind |-> "none"]

-----------------------------------------------------------------------------
(* Operators of the code.                                                  *)

validatePositiveDecimal(t) == IsNumber(t) /\ t.value > 0

\* Mutant: the rule of the rent for the fee.
validateAboveZero(t) == t \in {Empty, Blank} \/ (IsNumber(t) /\ t.value > 0)

validateNonNegativeDecimal(t) == t \in {Empty, Blank} \/ (IsNumber(t) /\ t.value >= 0)

Valid(c, t) ==
    IF c \in Positive THEN validatePositiveDecimal(t) ELSE validateNonNegativeDecimal(t)

\* decimal.NewFromString refuses a blank fee, which is valid.
Parses(t) == IsNumber(t) \/ t = Empty
Parse(t) == IF t = Empty THEN 0 ELSE t.value

\* The nearest hundredth, away from zero from the middle on.
RoundHalfAway(d) == IF d < 0 THEN -((5 - d) \div 10) ELSE (d + 5) \div 10

\* Mutant: a third place is cut off.
formatMoneyTruncated(d) == d \div 10

\* decimal.StringFixed(2)
formatMoney(d) == RoundHalfAway(d)

\* What Postgres stores of a number in a NUMERIC(n,2) column.
ToColumn(d) == RoundHalfAway(d)
FromColumn(h) == 10 * h

ColumnsTake(p, m) ==
    /\ \A c \in Columns : ToColumn(p[c]) <= MaxStored[c]
    /\ m <= MaxMonths

-----------------------------------------------------------------------------
Init ==
    /\ stored = None
    /\ months = 0
    /\ answer = None
    /\ unanswered = None
    /\ result = "none"

Refuse(code) ==
    /\ result' = code
    /\ UNCHANGED <<stored, months, answer, unanswered>>

Answer(p, m) == [columns |-> [c \in Columns |-> formatMoney(p[c])], months |-> m]

\* The repository's INSERT or UPDATE of all columns.  An error of Exec or of
\* RowsAffected is answered 500, be it that the statement was not carried out
\* (a number that does not fit, or any failure) or that only its answer was
\* lost.
Save(p, m, code) ==
    \/ /\ ColumnsTake(p, m)
       /\ stored' = [c \in Columns |-> ToColumn(p[c])]
       /\ months' = m
       /\ \/ /\ answer' = Answer(p, m)
             /\ unanswered' = None
             /\ result' = code
          \/ /\ answer' = answer
             /\ unanswered' = Answer(p, m)
             /\ result' = "INTERNAL"
    \/ Refuse("INTERNAL")

Create ==
    /\ stored = None
    /\ \E in \in [Columns -> Texts], m \in Months :
          IF /\ \A c \in Columns : Valid(c, in[c]) /\ Parses(in[c])
             /\ m >= 0
            THEN Save([c \in Columns |-> Parse(in[c])], m, "CREATED")
            ELSE Refuse("VALIDATION_FAILED")

\* What a PATCH makes of the row; a field that is not given stays.
Patched(in) ==
    [c \in Columns |->
        IF c \in Patchable /\ in[c] # Absent THEN Parse(in[c]) ELSE FromColumn(stored[c])]

Accepts(in) == \A c \in Patchable : in[c] # Absent => (Valid(c, in[c]) /\ Parses(in[c]))

Update ==
    /\ stored # None
    /\ \E in \in [Patchable -> Texts \cup {Absent}], m \in Months \cup {months} :
          IF Accepts(in) /\ m >= 0
            THEN Save(Patched(in), m, "OK")
            ELSE Refuse("VALIDATION_FAILED")

\* What a GET answers.
Held == Answer([c \in Columns |-> FromColumn(stored[c])], months)

Get ==
    /\ stored # None
    /\ answer' = Held
    /\ unanswered' = None
    /\ result' = "OK"
    /\ UNCHANGED <<stored, months>>

Next == Create \/ Update \/ Get

Spec == Init /\ [][Next]_vars

-----------------------------------------------------------------------------
(* Properties                                                              *)

\* What a GET would answer is, to the cent, what the last write that took
\* effect has answered, or would have if its answer had not been lost, whatever
\* requests were refused or failed since.  A create and a PATCH answer from
\* memory and never read the columns again: StringFixed and NUMERIC have to
\* round alike.
AnswerIsStored ==
    IF stored = None
      THEN answer = None /\ unanswered = None
      ELSE Held = IF unanswered # None THEN unanswered ELSE answer

\* The PATCH that sends back the numbers of the last answer.
SentBack == [c \in Patchable |-> Number(FromColumn(answer.columns[c]))]

\* What the service answers, it takes back: an unchanged form can be sent.  It
\* brings the row back to what the form shows, also when a write whose answer
\* was lost has changed it since; without such a write it changes nothing.  The
\* exception is a rent below half a cent, which is positive, is stored as 0.00,
\* and in that form is refused.
SendingBackRestores ==
    answer # None =>
        /\ IF answer.columns["monthly_rent"] > 0
             THEN /\ Accepts(SentBack)
                  /\ \A c \in Columns :
                        ToColumn(Patched(SentBack)[c]) = answer.columns[c]
                  /\ ColumnsTake(Patched(SentBack), answer.months)
             ELSE ~Accepts(SentBack)
        /\ unanswered = None => answer.columns = stored /\ answer.months = months
=============================================================================
