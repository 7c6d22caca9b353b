\* Two concurrent handlers on one row and on two.
SPECIFICATION Spec
CONSTANTS
    Clients = {c1, c2}
    Ids = {i1, i2}
    Addresses = {a1, a2}
    Amounts = {zero, fee}
    ZeroAmount = zero
    Contacts = {k1}
    MaxClock = 1
CONSTRAINT TwoRowsAreSmall
INVARIANTS
    TypeOK
    TimestampsOrdered
    CopyMatchesRow
    AddressUnique
    OneCreatedPerAddress
PROPERTIES
    WriteExact
    TableSpec
SYMMETRY Symmetry
VIEW WithoutReply
