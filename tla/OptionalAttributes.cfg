CONSTANTS
    Class <- MCClass
    Attribute <- MCAttribute
    Layout <- MCLayout
    Ancestors <- MCAncestors
    Alternatives <- MCAlternatives
    FirstAlternative <- MCFirstAlternative
    Reader <- MCReader
    NotConstructible <- MCNotConstructible
    Zero = zero
    Messaging = zero
    Var = {x, y, z}
    Oid = {o1, o2, o3}
    Datum = {zero, one}
    Made = {"GlobalProperties", "Asset", "CreateAsset"}
    Used = {"parameters", "pending_parameters", "current_fees", "scale", "options", "monitored_asset_opts", "monitored_asset_options", "fixed_max_supply", "minimum_feeds"}
    MaxLen = 0
SPECIFICATION Spec
SYMMETRY Symmetry
PROPERTIES WriteIsLocal StaysSet
