SPECIFICATION Spec
CONSTANTS
    Writers = {w1, w2}
    Requests = {r1, r2}
    Attempts = {a1, a2, a3}
    append = append
    note = note
    Prints <- MCPrints
    Drafts <- MCDrafts
    None = None
PROPERTIES
    ImplementsExactlyOnce
