CONSTANTS
    Class <- MCClass
    Attribute <- MCAttribute
    Layout <- MCLayout
    Ancestors <- MCAncestors
    Alternatives <- MCAlternatives
    FirstAlternative <- MCFirstAlternative
    Reader <- MCReader
    NotConstructible <- MCNotConstructible
    Zero = zero
    Messaging = zero
    Var = {x, y}
    Oid = {o1, o2, o3}
    Datum = {zero, one}
    Made = {"SignedTransaction", "CreateProposal", "Operation"}
    Used = {"operations", "proposed_operations"}
    MaxLen = 1
SPECIFICATION Spec
SYMMETRY Symmetry
PROPERTIES SealedBySignature
