SPECIFICATION Spec
CONSTANTS
    MaxNodes = 11
VIEW Shape
INVARIANTS
    TreeSound
PROPERTIES
    TreeIsRecencyList
    OperationsEnd
