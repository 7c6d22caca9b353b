------------------------ MODULE PropertyAmountsProofs ------------------------
(***************************************************************************)
(* PropertyAmounts: what holds for all numbers, column ranges and months.  *)
(* It all rests on one fact of arithmetic, that a number with two places   *)
(* is rounded to itself, and on saving only numbers that are not negative  *)
(* and that fit their columns.  An answer may be older than the row, so    *)
(* the invariant says of it by itself that its numbers fit, and that the   *)
(* area, which no PATCH can change, is still that of the row.              *)
(***************************************************************************)
EXTENDS PropertyAmounts, TLAPS

\* The columns are numbers they can hold.
RowOK ==
    stored # None =>
        /\ stored \in [Columns -> Nat]
        /\ \A c \in Columns : stored[c] <= MaxStored[c]
        /\ months \in Nat /\ months <= MaxMonths

\* The last answer is one the columns could hold, with the area of the row.
AnswerOK ==
    answer # None =>
        /\ stored # None
        /\ answer.columns \in [Columns -> Nat]
        /\ \A c \in Columns : answer.columns[c] <= MaxStored[c]
        /\ answer.months \in Nat /\ answer.months <= MaxMonths
        /\ answer.columns["area_ping"] = stored["area_ping"]

IInv == RowOK /\ AnswerOK /\ AnswerIsStored

-----------------------------------------------------------------------------
(* Numbers and texts.                                                      *)

\* A number with two places is rounded to itself.
LEMMA RoundExact == ASSUME NEW h \in Nat PROVE RoundHalfAway(FromColumn(h)) = h
  BY DEF RoundHalfAway, FromColumn

\* Rounding leaves a number that is not negative so.
LEMMA RoundNat == ASSUME NEW d \in Nat PROVE RoundHalfAway(d) \in Nat
  BY DEF RoundHalfAway

\* A number is no other text, and keeps its value.
LEMMA NumberIsNumber ==
    \A d : /\ Number(d) # Absent /\ Number(d) # Empty /\ Number(d) # Blank
          /\ IsNumber(Number(d)) /\ Number(d).value = d
<1>1. \A d : Number(d).kind = "number" /\ Number(d).value = d
  BY DEF Number
<1>2. Absent.kind = "absent" /\ Empty.kind = "empty" /\ Blank.kind = "blank"
  BY DEF Absent, Empty, Blank
<1>3. QED
  BY <1>1, <1>2 DEF IsNumber

\* A valid text that parses is a number that is not negative.
LEMMA ParsedNat ==
    ASSUME NEW c \in Columns, NEW t \in Texts, Valid(c, t), Parses(t)
    PROVE  Parse(t) \in Nat
<1>1. CASE t = Empty
  BY <1>1 DEF Parse
<1>2. CASE t # Empty
  <2>1. PICK d \in Decimals : t = Number(d)
    BY <1>2 DEF Texts, Parses, IsNumber, Blank, Malformed, Empty
  <2>2. t.value = d /\ d \in Int
    BY <2>1, RangeAssumption DEF Number
  <2>3. t # Blank
    BY <2>1 DEF Number, Blank
  <2>4. d >= 0
    BY <2>2, <2>3, <1>2 DEF Valid, validatePositiveDecimal, validateNonNegativeDecimal
  <2>5. QED
    BY <1>2, <2>2, <2>4 DEF Parse
<1>3. QED
  BY <1>1, <1>2

\* A row of columns is not the missing row, nor an answer the missing answer.
LEMMA NotNone ==
    /\ \A r : r \in [Columns -> Nat] => r # None
    /\ \A p, m : Answer(p, m) # None
<1>1. ASSUME NEW r \in [Columns -> Nat] PROVE r # None
  <2>1. "area_ping" \in DOMAIN r
    BY DEF Columns, Positive
  <2>2. "area_ping" \notin DOMAIN None
    BY DEF None
  <2>3. QED
    BY <2>1, <2>2
<1>2. ASSUME NEW p, NEW m PROVE Answer(p, m) # None
  <2>1. "months" \in DOMAIN Answer(p, m)
    BY DEF Answer
  <2>2. "months" \notin DOMAIN None
    BY DEF None
  <2>3. QED
    BY <2>1, <2>2
<1>3. QED
  BY <1>1, <1>2

\* Answering with numbers gives them rounded, and so does storing them.
LEMMA AnswerRounds ==
    ASSUME NEW p \in [Columns -> Nat], NEW m \in Nat
    PROVE  /\ Answer(p, m).months = m
           /\ Answer(p, m).columns = [c \in Columns |-> ToColumn(p[c])]
           /\ Answer(p, m).columns \in [Columns -> Nat]
<1>1. /\ Answer(p, m).months = m
      /\ Answer(p, m).columns = [c \in Columns |-> RoundHalfAway(p[c])]
  BY DEF Answer, formatMoney
<1>2. \A c \in Columns : RoundHalfAway(p[c]) \in Nat
  BY RoundNat
<1>3. QED
  BY <1>1, <1>2 DEF ToColumn

\* A GET answers with the columns as they are.
LEMMA HeldExact ==
    ASSUME stored \in [Columns -> Nat], months \in Nat
    PROVE  Held.columns = stored /\ Held.months = months
<1>1. \A c \in Columns : formatMoney(FromColumn(stored[c])) = stored[c]
  BY RoundExact DEF formatMoney
<1>2. Held.months = months
  BY DEF Held, Answer
<1>3. Held.columns = [c \in Columns |-> stored[c]]
  BY <1>1 DEF Held, Answer
<1>4. QED
  BY <1>2, <1>3

-----------------------------------------------------------------------------
(* The invariant.                                                          *)

\* There is no row and no answer in the beginning.
LEMMA InitInv == Init => IInv
  BY DEF Init, IInv, RowOK, AnswerOK, AnswerIsStored

\* A refused request changes nothing.
LEMMA RefuseKeeps ==
    ASSUME IInv, NEW code, Refuse(code)
    PROVE  IInv'
  BY DEF Refuse, IInv, RowOK, AnswerOK, AnswerIsStored, Held, Answer

\* Saving numbers that are not negative, with the area of the row that was
\* answered, keeps the invariant, whether the answer arrives or is lost.
LEMMA SaveKeeps ==
    ASSUME IInv, NEW p \in [Columns -> Nat], NEW m \in Nat, NEW code,
           Save(p, m, code),
           answer # None => ToColumn(p["area_ping"]) = stored["area_ping"]
    PROVE  IInv'
<1>1. CASE Refuse("INTERNAL")
  BY <1>1, RefuseKeeps
<1>2. ASSUME ColumnsTake(p, m),
             stored' = [c \in Columns |-> ToColumn(p[c])],
             months' = m,
             \/ answer' = Answer(p, m) /\ unanswered' = None
             \/ answer' = answer /\ unanswered' = Answer(p, m)
      PROVE  IInv'
  <2>1. /\ stored' \in [Columns -> Nat] /\ months' \in Nat
        /\ \A c \in Columns : stored'[c] = ToColumn(p[c])
    BY <1>2, RoundNat DEF ToColumn
  <2>2. stored' # None
    BY <2>1, NotNone
  <2>3. RowOK'
    BY <1>2, <2>1, RangeAssumption DEF RowOK, ColumnsTake
  <2>4. \A c \in Columns : formatMoney(p[c]) = formatMoney(FromColumn(stored'[c]))
    BY <2>1, RoundExact DEF formatMoney, ToColumn
  <2>5. Held' = Answer(p, m)
    BY <1>2, <2>4 DEF Held, Answer
  <2>6. AnswerIsStored'
    BY <1>2, <2>2, <2>5, NotNone DEF AnswerIsStored
  <2>7. "area_ping" \in Columns
    BY DEF Columns, Positive
  <2>8. CASE answer' = Answer(p, m)
    <3>1. /\ answer'.columns = stored' /\ answer'.months = months'
      BY <1>2, <2>8, AnswerRounds
    <3>2. QED
      BY <2>1, <2>2, <2>3, <2>6, <3>1 DEF IInv, RowOK, AnswerOK
  <2>9. CASE answer' = answer
    <3>1. answer # None => stored'["area_ping"] = stored["area_ping"]
      BY <2>1, <2>7
    <3>2. AnswerOK'
      BY <2>2, <2>9, <3>1 DEF IInv, AnswerOK
    <3>3. QED
      BY <2>3, <2>6, <3>2 DEF IInv
  <2>10. QED
    BY <1>2, <2>8, <2>9
<1>3. QED
  BY <1>1, <1>2 DEF Save

\* A create saves what it has parsed.
LEMMA CreateKeeps == IInv /\ Create => IInv'
<1> SUFFICES ASSUME IInv, Create PROVE IInv'
  OBVIOUS
<1>1. PICK in \in [Columns -> Texts], m \in Months :
          IF /\ \A c \in Columns : Valid(c, in[c]) /\ Parses(in[c])
             /\ m >= 0
            THEN Save([c \in Columns |-> Parse(in[c])], m, "CREATED")
            ELSE Refuse("VALIDATION_FAILED")
  BY DEF Create
<1>2. answer = None
  BY DEF Create, IInv, AnswerOK
<1>3. CASE (\A c \in Columns : Valid(c, in[c]) /\ Parses(in[c])) /\ m >= 0
  <2>1. m \in Nat
    BY <1>3, RangeAssumption
  <2>2. [c \in Columns |-> Parse(in[c])] \in [Columns -> Nat]
    BY <1>3, ParsedNat
  <2>3. QED
    BY <1>1, <1>2, <1>3, <2>1, <2>2, SaveKeeps
<1>4. QED
  BY <1>1, <1>3, RefuseKeeps

\* A PATCH saves what it has parsed and, for the rest, what it has read; the
\* area is never in its body.
LEMMA UpdateKeeps == IInv /\ Update => IInv'
<1> SUFFICES ASSUME IInv, Update PROVE IInv'
  OBVIOUS
<1>1. stored # None /\ stored \in [Columns -> Nat] /\ months \in Nat
  BY DEF Update, IInv, RowOK
<1>2. PICK in \in [Patchable -> Texts \cup {Absent}], m \in Months \cup {months} :
          IF Accepts(in) /\ m >= 0
            THEN Save(Patched(in), m, "OK")
            ELSE Refuse("VALIDATION_FAILED")
  BY DEF Update
<1>3. CASE Accepts(in) /\ m >= 0
  <2>1. m \in Nat
    BY <1>1, <1>3, RangeAssumption
  <2>2. ASSUME NEW c \in Columns, c \in Patchable /\ in[c] # Absent
        PROVE  Parse(in[c]) \in Nat
    BY <1>3, <2>2, ParsedNat DEF Accepts
  <2>3. \A c \in Columns : FromColumn(stored[c]) \in Nat
    BY <1>1 DEF FromColumn
  <2>4. Patched(in) \in [Columns -> Nat]
    BY <2>2, <2>3 DEF Patched
  <2>5. "area_ping" \in Columns /\ "area_ping" \notin Patchable
    BY DEF Columns, Positive, Patchable
  <2>6. Patched(in)["area_ping"] = FromColumn(stored["area_ping"])
    BY <2>5 DEF Patched
  <2>7. ToColumn(Patched(in)["area_ping"]) = stored["area_ping"]
    BY <1>1, <2>5, <2>6, RoundExact DEF ToColumn
  <2>8. QED
    BY <1>2, <1>3, <2>1, <2>4, <2>7, SaveKeeps
<1>4. QED
  BY <1>2, <1>3, RefuseKeeps

\* A GET answers with the row and leaves it alone.
LEMMA GetKeeps == IInv /\ Get => IInv'
<1> SUFFICES ASSUME IInv, Get PROVE IInv'
  OBVIOUS
<1>1. /\ stored # None /\ stored' = stored /\ months' = months
      /\ answer' = Held /\ unanswered' = None
  BY DEF Get
<1>2. stored \in [Columns -> Nat] /\ months \in Nat
  BY <1>1 DEF IInv, RowOK
<1>3. answer'.columns = stored /\ answer'.months = months
  BY <1>1, <1>2, HeldExact
<1>4. RowOK'
  BY <1>1 DEF IInv, RowOK
<1>5. AnswerOK'
  BY <1>1, <1>3 DEF IInv, RowOK, AnswerOK
<1>6. Held' = Held
  BY <1>1 DEF Held, Answer
<1>7. AnswerIsStored'
  BY <1>1, <1>6 DEF AnswerIsStored
<1>8. QED
  BY <1>4, <1>5, <1>7 DEF IInv

\* So every step keeps it, and it holds in every behaviour.
LEMMA Inductive == Spec => []IInv
<1>1. IInv /\ [Next]_vars => IInv'
  <2> SUFFICES ASSUME IInv, [Next]_vars PROVE IInv'
    OBVIOUS
  <2>1. CASE UNCHANGED vars
    BY <2>1 DEF vars, IInv, RowOK, AnswerOK, AnswerIsStored, Held, Answer
  <2>2. QED
    BY <2>1, CreateKeeps, UpdateKeeps, GetKeeps DEF Next
<1>2. QED
  BY <1>1, InitInv, PTL DEF Spec

-----------------------------------------------------------------------------
(* Theorems.                                                               *)

\* A GET answers to the cent what the last write that took effect has
\* answered, or would have had its answer not been lost: create.go and
\* update.go return the object they have saved and read no column again.
THEOREM AnswersStored == Spec => []AnswerIsStored
<1>1. IInv => AnswerIsStored
  BY DEF IInv
<1>2. QED
  BY <1>1, Inductive, PTL

\* A PATCH with the numbers of the last answer is accepted and brings the row
\* back to them, whatever writes without an answer have changed since, except
\* when the answered rent is 0.00; then it is refused.  Without such a write
\* it changes nothing.
THEOREM SendingBackIsSafe == Spec => []SendingBackRestores
<1>1. IInv => SendingBackRestores
  <2> SUFFICES ASSUME IInv, answer # None PROVE SendingBackRestores
    BY DEF SendingBackRestores
  <2> DEFINE a == answer.columns
  <2>1. /\ stored # None /\ a \in [Columns -> Nat]
        /\ \A c \in Columns : a[c] <= MaxStored[c]
        /\ answer.months \in Nat /\ answer.months <= MaxMonths
        /\ a["area_ping"] = stored["area_ping"]
    BY DEF IInv, AnswerOK
  <2>2. stored \in [Columns -> Nat] /\ months \in Nat
    BY <2>1 DEF IInv, RowOK
  <2>3. unanswered = None => a = stored /\ answer.months = months
    BY <2>1, <2>2, HeldExact DEF IInv, AnswerIsStored
  <2>4. /\ Patchable \subseteq Columns /\ "monthly_rent" \in Patchable
        /\ \A c \in Columns : c \notin Patchable => c = "area_ping"
    BY DEF Patchable, Columns, Positive
  <2>5. \A c \in Patchable : SentBack[c] = Number(FromColumn(a[c]))
    BY DEF SentBack
  <2>6. \A c \in Patchable : /\ SentBack[c] # Absent /\ SentBack[c] # Empty
                             /\ SentBack[c] # Blank /\ IsNumber(SentBack[c])
                             /\ SentBack[c].value = FromColumn(a[c])
    BY <2>5, NumberIsNumber
  <2>7. \A c \in Columns : Patched(SentBack)[c] = FromColumn(a[c])
    BY <2>1, <2>4, <2>6 DEF Patched, Parse
  <2>8. \A c \in Columns : ToColumn(Patched(SentBack)[c]) = a[c]
    BY <2>1, <2>7, RoundExact DEF ToColumn
  <2>9. ColumnsTake(Patched(SentBack), answer.months)
    BY <2>1, <2>8 DEF ColumnsTake
  <2>10. CASE a["monthly_rent"] > 0
    <3>1. Accepts(SentBack)
      BY <2>1, <2>4, <2>6, <2>10
      DEF Accepts, Valid, Parses, validatePositiveDecimal, validateNonNegativeDecimal,
          FromColumn, Patchable, Positive
    <3>2. QED
      BY <2>3, <2>8, <2>9, <2>10, <3>1 DEF SendingBackRestores
  <2>11. CASE ~(a["monthly_rent"] > 0)
    <3>1. ~(SentBack["monthly_rent"].value > 0)
      BY <2>1, <2>4, <2>6, <2>11 DEF FromColumn
    <3>2. ~Accepts(SentBack)
      BY <2>4, <2>6, <3>1 DEF Accepts, Valid, validatePositiveDecimal, Positive
    <3>3. QED
      BY <2>3, <2>11, <3>2 DEF SendingBackRestores
  <2>12. QED
    BY <2>10, <2>11
<1>2. QED
  BY <1>1, Inductive, PTL
=============================================================================
