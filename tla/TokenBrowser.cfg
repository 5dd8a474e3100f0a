CONSTANTS
    Account = {alice, bob}
    Token = {t1, t2, t3}
    Nil = nil
    MaxTokens = 2
SPECIFICATION Spec
INVARIANTS TypeOK RowsOfOneLoad
PROPERTIES FilledUnderItsName ShortLoadIsTold
