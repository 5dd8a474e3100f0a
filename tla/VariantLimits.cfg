\* One Python thread issues token data with every limit of the converter, and publishes twice.
CONSTANTS
    a = a
    nul = nul
    Half = 4
    Char <- MCChar
    Nul = nul
    Thread = {t1}
    PyItem <- ManyItems
    MaxData = 1
    MaxLedger = 2
    Nil = nil
SPECIFICATION Spec
INVARIANTS ReturnedIntact
PROPERTIES RefinesSerialWallet
