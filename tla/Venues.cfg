SPECIFICATION Spec
CONSTANTS
    Ids = {v1, v2, v3}
    Names <- MCNames
    Lower <- MCLower
    Slots = {r1, r2}
INVARIANTS
    TypeOK
    NamesAreUnique
PROPERTIES
    DeletedStaysDeleted
    LoneRequestsGetTheirAnswer
