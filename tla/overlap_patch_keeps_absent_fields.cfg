\* Two overlapping requests on one property.
SPECIFICATION Spec
CONSTANTS
    Clients = {c1, c2}
    Ids = {i1}
    Addresses = {a1}
    Amounts = {zero, fee}
    ZeroAmount = zero
    Contacts = {k1, k2}
    MaxClock = 1
PROPERTIES
    PatchKeepsAbsentFields
SYMMETRY Symmetry
VIEW WithoutReply
