CONSTANTS
    Node = {a, b}
    MaxChanges = 1
    MaxLost = 1
SPECIFICATION MCSpec
INVARIANTS ConnectedCanSend DataIsSealed HandshakeIsTwoSided KeptOut
PROPERTIES BothConnect LinkSpec
CHECK_DEADLOCK FALSE
