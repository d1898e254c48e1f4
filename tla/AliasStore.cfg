SPECIFICATION Spec
CONSTANTS
    Order <- MCOrder
    Models <- MCModels
    Targets = {ollama}
    Star = "*"
    None = None
    Requests = {r1}
    Editors = {e1, e2}
INVARIANTS
    TypeOK
    LongestMatchWins
    DeletedStaysDeleted
SYMMETRY Symmetry
