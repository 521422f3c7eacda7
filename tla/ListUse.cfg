SPECIFICATION Spec
CONSTANTS
    NULL = NULL
    ListId = {la, lb}
    Item = {n1, n2, n3}
    Node <- AllNodes
INVARIANT LinksMirror
PROPERTY ImplementsSequences
