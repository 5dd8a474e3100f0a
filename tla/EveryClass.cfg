CONSTANTS
    Class <- MCClass
    Attribute <- MCAttribute
    Layout <- MCLayout
    Ancestors <- MCAncestors
    Alternatives <- MCAlternatives
    FirstAlternative <- MCFirstAlternative
    Reader <- MCReader
    NotConstructible <- MCNotConstructible
    Zero = zero
    Messaging = zero
    Var = {x}
    Oid = {o1, o2}
    Datum = {zero}
    Made <- MCEveryClass
    Used <- MCEveryAttribute
    MaxLen = 0
SPECIFICATION Spec
INVARIANTS TypeOK NoDangling Readable
