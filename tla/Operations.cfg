SPECIFICATION AllSpec
CONSTANTS
    Scenes = {"migrations", "reconnecting", "adopting", "report"}
    ci = ci
    op = op
    a = a
    q = q
    Version <- Three
    Old = {1, 2}
    Adopted = FALSE
    Forbidden = {2}
    Contracting = {3}
    Runner = {ci, op}
    Flags <- AnyFlags
    Threshold = 2
    Written = {0, 1, 2}
    MaxChange = 2
    MaxFail = 1
    MaxCrash = 1
    MaxLoss = 0
INVARIANTS HistoryIsTrue AdoptedNeverRun MarkedIsTold
PROPERTIES CheckoutAgrees InOrder
