SPECIFICATION Spec
CONSTANTS
    Breaking = {"quote"}
    Ignored = {"U+2028"}
    Values <- MCValues
    Replacers <- MCReplacers
    Spaces = {0, 2}
INVARIANTS
    TypeOK
    RoundTrip
    RevivedLikeReplaced
    Layout
    SelectsKeys
