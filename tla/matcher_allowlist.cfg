\* An allowlist entry spelled with a capital.
SPECIFICATION Spec
CONSTANTS
    Empty = ""
    NoSource = 0
    Labels = {"a", "A", "c", ""}
    LowerLabel <- MCLowerLabel
    Names <- MCNames
    Lists <- MCLists
    Allowlists <- MCAllowlists
    Sources = {1, 2}
INVARIANT AllowlistBypasses
