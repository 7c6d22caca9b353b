\* Two overlapping status changes of one property.
SPECIFICATION Spec
CONSTANTS
    Clients = {c1, c2}
    Ids = {i1}
    Addresses = {a1}
    Amounts = {zero}
    ZeroAmount = zero
    Contacts = {k1}
    MaxClock = 0
PROPERTIES
    StatusMovesLegal
SYMMETRY Symmetry
VIEW WithoutReply
