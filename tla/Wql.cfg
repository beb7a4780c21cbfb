SPECIFICATION Spec
CONSTANTS
    Tags <- MCTags
    Algs = {1, 2}
    Nonce <- MCNonce
    Inputs <- MCInputs
INVARIANTS
    ArgsBound
    SelectsMeaning
    PrintsBack
    QueriesInOrder
CHECK_DEADLOCK FALSE
