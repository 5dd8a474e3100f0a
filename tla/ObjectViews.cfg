CONSTANTS
    Class <- MCClass
    Attribute <- MCAttribute
    Layout <- MCLayout
    Ancestors <- MCAncestors
    Alternatives <- MCAlternatives
    FirstAlternative <- MCFirstAlternative
    Reader <- MCReader
    NotConstructible <- MCNotConstructible
    Zero = zero
    Messaging = zero
    Var = {x, y, z}
    Oid = {o1, o2, o3}
    Datum = {zero, one}
    Made = {"Transfer", "BalanceEx", "Memo"}
    Used = {"fee", "amount", "memo", "nonce"}
    MaxLen = 0
SPECIFICATION Spec
SYMMETRY Symmetry
INVARIANTS NoDangling
PROPERTIES WriteIsLocal
