---------------------------- MODULE PropertyList ----------------------------
(***************************************************************************)
(* GET /api/v1/properties: normalisation of the parameters, the offset in  *)
(* Go's int, and bun's ScanAndCount, which runs the query of the page and  *)
(* the query of the total as two statements at the same time.  A reader    *)
(* asks for one page after another while other requests write; of those    *)
(* only what PropertyTable promises is used.  Lists change nothing, so one *)
(* reader stands for all.                                                  *)
(***************************************************************************)
EXTENDS Integers, Sequences, FiniteSets

CONSTANTS
    Ids,              \* property ids, ordered as Postgres orders UUIDs
    Addresses,        \* values of the columns of properties_address_key
    CityOf,           \* the city column of each address
    Contacts,         \* the columns a list does not look at
    DefaultPageSize, MaxPageSize,
    IntBits,          \* width of int: 64
    PageParams,       \* page and page_size parameters a reader may begin with;
    SizeParams,       \*   zero for one that is not given
    FilterParams,     \* the other parameters, see FilterParam
    MaxTime,          \* bound on creation times
    SetStatuses       \* bound: the statuses that requests set

\* The table has fewer rows than an int counts.
ASSUME IdsAssumption ==
    /\ Ids \subseteq Nat
    /\ IsFiniteSet(Ids)
    /\ Cardinality(Ids) < 2^(IntBits - 1)
ASSUME SizeAssumption ==
    /\ DefaultPageSize \in Nat \ {0}
    /\ MaxPageSize \in Nat \ {0}
    /\ DefaultPageSize <= MaxPageSize
    /\ IntBits \in Nat \ {0}
    /\ MaxPageSize < 2^(IntBits - 1)
\* Arithmetic, for the proofs, to which powers are opaque.
ASSUME WidthAssumption == 2^(IntBits - 1) \in Nat /\ 2^IntBits = 2 * 2^(IntBits - 1)

VARIABLES
    rows,     \* the properties table
    pc,       \* "idle", "asking", or what came of the last request
    filter,   \* parameters of the reader's requests: the filters,
    page,     \*   the page
    size,     \*   and the page size
    running,  \* the statements of ScanAndCount that are not done
    items,    \* the page, as ids, and
    total,    \*   the count, of the last request, as far as they are known
    quiet,    \* no write since the last request began
    base,     \* the ids that matched the filters when the reading began
    read      \* the pages answered since the reading began, joined

vars == <<rows, pc, filter, page, size, running, items, total, quiet, base, read>>
request == <<pc, filter, page, size, running, items, total, base, read>>

Table == INSTANCE PropertyTable WITH Amounts <- {0}

-----------------------------------------------------------------------------
(* Parameters.                                                             *)

AnyValue == "any"

\* "unknown" is a value outside the enumeration, which binding lets through.
FilterParam == [city: {CityOf[a] : a \in Addresses} \cup {AnyValue},
                status: Table!Statuses \cup {AnyValue, "unknown"}]

\* Binding has turned every parameter into a value of its type.
ASSUME ParamAssumption ==
    /\ \A p \in PageParams : p \in Int /\ p < 2^(IntBits - 1)
    /\ SizeParams \subseteq Int
    /\ FilterParams \subseteq FilterParam
    /\ MaxTime \in Nat
    /\ SetStatuses \subseteq Table!Statuses

\* toListFilter: a status that is none does not filter.
ToListFilter(f) == IF f.status = "unknown" THEN [f EXCEPT !.status = AnyValue] ELSE f

\* ListFilter.normalize
NormalPage(p) == IF p < 1 THEN 1 ELSE p

\* Mutant: no upper limit.
NormalSizeUnlimited(s) == IF s < 1 THEN DefaultPageSize ELSE s

NormalSize(s) ==
    LET given == IF s < 1 THEN DefaultPageSize ELSE s
    IN  IF given > MaxPageSize THEN MaxPageSize ELSE given

\* n as a signed int.
MaxInt == 2^(IntBits - 1) - 1
Wrap(n) == ((n + MaxInt + 1) % 2^IntBits) - MaxInt - 1

\* Mutant: pages counted from zero.
OffsetFromZero == Wrap(page * size)

Offset == Wrap((page - 1) * size)

-----------------------------------------------------------------------------
(* The queries.                                                            *)

\* The WHERE clauses.
Matching(t, f) ==
    {i \in DOMAIN t : /\ f.city \in {AnyValue, CityOf[t[i].addr]}
                      /\ f.status \in {AnyValue, t[i].status}}

\* Mutant: no second key.
PrecedesByTime(i, j) == rows[i].createdAt > rows[j].createdAt

\* ORDER BY created_at DESC, id DESC
Precedes(i, j) ==
    \/ rows[i].createdAt > rows[j].createdAt
    \/ rows[i].createdAt = rows[j].createdAt /\ i > j

\* The orders in which Postgres may return the rows of S.
Orders(S) ==
    {o \in [1..Cardinality(S) -> S] :
        \A j \in DOMAIN o : \A i \in 1..(j - 1) : o[i] # o[j] /\ ~Precedes(o[j], o[i])}

\* LIMIT size OFFSET offset
Slice(o, offset) ==
    SubSeq(o, offset + 1, IF offset + size < Len(o) THEN offset + size ELSE Len(o))

-----------------------------------------------------------------------------
Init ==
    /\ rows = Table!NoRows
    /\ pc = "idle"
    /\ filter = [city |-> AnyValue, status |-> AnyValue]
    /\ page = 1
    /\ size = DefaultPageSize
    /\ running = {}
    /\ items = <<>>
    /\ total = 0
    /\ quiet = TRUE
    /\ base = {}
    /\ read = <<>>

Ask(p) ==
    /\ page' = p
    /\ pc' = "asking"
    /\ running' = {"scan", "count"}
    /\ items' = <<>>
    /\ total' = 0
    /\ quiet' = TRUE

\* A reading begins, at any page and with any table.  Readings have nothing in
\* common, so one is enough.
BeginReading ==
    /\ pc = "idle"
    /\ \E p \in PageParams, s \in SizeParams, f \in FilterParams :
          /\ Ask(NormalPage(p))
          /\ size' = NormalSize(s)
          /\ filter' = ToListFilter(f)
          /\ base' = Matching(rows, filter')
    /\ UNCHANGED <<rows, read>>

\* The reader goes on, after a full page.
NextPage ==
    /\ pc = "answered"
    /\ Len(items) = size
    /\ page < MaxInt
    /\ Ask(page + 1)
    /\ UNCHANGED <<rows, filter, size, base, read>>

\* A statement is done; with both, the request is answered.
Done(statement) ==
    /\ statement \in running
    /\ running' = running \ {statement}
    /\ pc' = IF running' = {} THEN "answered" ELSE pc
    /\ read' = IF running' = {} THEN read \o items' ELSE read

\* Mutant: the page is counted, not the table.
CountPage ==
    /\ total' = IF Cardinality(Matching(rows, filter)) < size
                  THEN Cardinality(Matching(rows, filter)) ELSE size
    /\ UNCHANGED <<rows, filter, page, size, items, quiet, base>>
    /\ Done("count")

Count ==
    /\ total' = Cardinality(Matching(rows, filter))
    /\ UNCHANGED <<rows, filter, page, size, items, quiet, base>>
    /\ Done("count")

\* An OFFSET below zero is none.
Scan ==
    /\ \E o \in Orders(Matching(rows, filter)) :
          items' = Slice(o, IF Offset < 0 THEN 0 ELSE Offset)
    /\ Done("scan")
    /\ UNCHANGED <<rows, filter, page, size, total, quiet, base>>

Fail(result) ==
    /\ pc = "asking"
    /\ pc' = result
    /\ running' = {}
    /\ UNCHANGED <<rows, filter, page, size, items, total, quiet, base, read>>

\* Or it is an error; either is answered with INTERNAL.
OffsetRefused == "scan" \in running /\ Offset < 0 /\ Fail("refused")
StatementFails == Fail("failed")

-----------------------------------------------------------------------------
(* Writes of other requests.                                               *)

\* The creation time was taken some time before the INSERT, so rows may also
\* appear between or below the stored ones.
RowCreated ==
    /\ \E id \in Ids, a \in Addresses, c \in Contacts, t \in 0..MaxTime :
          Table!Insert(id, [addr |-> a, fee |-> 0, contact |-> c, status |-> "VACANT",
                            createdAt |-> t, updatedAt |-> t])
    /\ quiet' = FALSE
    /\ UNCHANGED request

RowChanged ==
    /\ \E id \in DOMAIN rows, s \in SetStatuses :
          /\ s # rows[id].status
          /\ Table!Replace(id, [rows[id] EXCEPT !.status = s])
    /\ quiet' = FALSE
    /\ UNCHANGED request

Next ==
    \/ BeginReading \/ NextPage
    \/ Count \/ Scan \/ OffsetRefused \/ StatementFails
    \/ RowCreated \/ RowChanged

Spec == Init /\ [][Next]_vars

-----------------------------------------------------------------------------
(* Properties                                                              *)

\* Every variable has its type; pages have at most the size asked for.
TypeOK ==
    /\ DOMAIN rows \subseteq Ids
    /\ \A i \in DOMAIN rows : rows[i] \in Table!Row
    /\ pc \in {"idle", "asking", "answered", "refused", "failed"}
    /\ filter \in FilterParam
    /\ page \in 1..MaxInt
    /\ size \in 1..MaxPageSize
    /\ running \subseteq {"scan", "count"}
    /\ items \in Seq(Ids) /\ Len(items) <= size
    /\ total \in 0..Cardinality(Ids)
    /\ quiet \in BOOLEAN
    /\ base \subseteq Ids
    /\ read \in Seq(Ids)

\* The offset of the page, and so of all pages before it, is an int.
InRange == (page - 1) * size <= MaxInt

\* The position of a row in the whole list.
Rank(i) ==
    Cardinality({j \in Matching(rows, filter) :
                    \/ rows[j].createdAt > rows[i].createdAt
                    \/ rows[j].createdAt = rows[i].createdAt /\ j >= i})

\* Without a write in between, an answer is exact: the page has the rows from
\* position (page-1)*size on, in their order and all of them, and the total is
\* the number of matching rows.  It fails only for pages whose offset is not
\* an int: these are answered with INTERNAL or with the rows of another page.
QuietAnswerExact ==
    LET before == (page - 1) * size
        n == Cardinality(Matching(rows, filter))
    IN  pc \in {"answered", "refused"} /\ quiet /\ InRange =>
            /\ pc = "answered"
            /\ total = n
            /\ Len(items) = IF n <= before THEN 0
                            ELSE IF n < before + size THEN n - before ELSE size
            /\ \A k \in DOMAIN items :
                  items[k] \in Matching(rows, filter) /\ Rank(items[k]) = before + k

\* The reading went from the first page to one that was not full, by filters
\* on columns that never change.
WholeReading ==
    /\ pc = "answered"
    /\ Len(items) < size
    /\ Len(read) = (page - 1) * size + Len(items)
    /\ filter.status = AnyValue

\* A reader that pages on until a page is not full has seen every row that was
\* there when it began, whatever is created or changed between its requests
\* and between the statements of one.
NothingSkipped ==
    WholeReading => base \subseteq {read[k] : k \in DOMAIN read}

\* A row is only read twice when another one came in: there are at most as
\* many repetitions as rows created since the reading began.
RepeatsAreShifts ==
    filter.status = AnyValue /\ InRange =>
        Len(read) - Cardinality({read[k] : k \in DOMAIN read})
            <= Cardinality(Matching(rows, filter) \ base)

\* The total is that of the table the page was taken from, so it covers at
\* least the page and what lies before it.
TotalCoversPage ==
    pc = "answered" /\ items # <<>> /\ InRange =>
        (page - 1) * size + Len(items) <= total
=============================================================================
