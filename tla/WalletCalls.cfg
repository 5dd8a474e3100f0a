\* Two Python threads share one Wallet.
CONSTANTS
    a = a
    nul = nul
    Half = 4
    Char <- MCChar
    Nul = nul
    Thread = {t1, t2}
    PyItem <- FewItems
    MaxData = 2
    MaxLedger = 1
    Nil = nil
SPECIFICATION Spec
INVARIANTS TypeOK OneCallAtATime TypeErrorIsClean
PROPERTIES RefinesSerialWallet EveryCallEnds
