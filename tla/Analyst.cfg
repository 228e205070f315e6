SPECIFICATION Spec
CONSTANTS
    Stocks <- MCStocks
    LLMTexts <- MCLLMTexts
    Nil = Nil
CHECK_DEADLOCK FALSE
INVARIANTS
    ReturnedIsGuarded
    LabelTellsTheSource
    RejectionIsTheModelsFault
    NothingIsMissing
