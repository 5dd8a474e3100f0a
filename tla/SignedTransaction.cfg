CONSTANTS
    Class <- MCClass
    Attribute <- MCAttribute
    Layout <- MCLayout
    Ancestors <- MCAncestors
    Alternatives <- MCAlternatives
    FirstAlternative <- MCFirstAlternative
    Reader <- MCReader
    NotConstructible <- MCNotConstructible
    Zero = zero
    Messaging = zero
    Var = {x, y, z}
    Oid = {o1, o2, o3}
    Datum = {zero, one}
    Made = {"SignedTransaction", "Operation"}
    Used = {"operations"}
    MaxLen = 1
SPECIFICATION Spec
SYMMETRY Symmetry
PROPERTIES SealedBySignature
