\* Does the total of an answer belong to its page?
SPECIFICATION Spec
CONSTANTS
    a1 = a1
    a2 = a2
    a3 = a3
    k = k
    Ids = {1, 2}
    Addresses <- MCAddresses
    CityOf <- MCCityOf
    Contacts = {k}
    DefaultPageSize = 2
    MaxPageSize = 4
    IntBits = 4
    PageParams = {0, 3, 5}
    SizeParams = {0, 1, 7}
    FilterParams <- MCFilterParams
    MaxTime = 1
    SetStatuses = {"VACANT", "OCCUPIED"}
INVARIANT
    TotalCoversPage
SYMMETRY Symmetry
