\* Numbers from requests into columns and back.
SPECIFICATION Spec
CONSTANTS
    Decimals <- MCDecimals
    Months <- MCMonths
    MaxStored <- MCMaxStored
    MaxMonths = 2
INVARIANTS
    AnswerIsStored
    SendingBackRestores
