CONSTANTS
    Class <- MCClass
    Attribute <- MCAttribute
    Layout <- MCLayout
    Ancestors <- MCAncestors
    Alternatives <- MCAlternatives
    FirstAlternative <- MCFirstAlternative
    Reader <- MCReader
    NotConstructible <- MCNotConstructible
    Zero = zero
    Messaging = messaging
    Var = {x, y, z}
    Oid = {o1, o2, o3}
    Datum = {zero, messaging}
    Made = {"Custom", "MessagePayload", "MessageData"}
    Used = {"id", "data", "message_payload", "receivers"}
    MaxLen = 1
SPECIFICATION Spec
SYMMETRY Symmetry
PROPERTIES MessageIsKept
