\* Four blocks, thinking or not, overlapping or not; errors only before the message.
SPECIFICATION Spec
CONSTANTS
    Blocks = {b1, b2, b3, b4}
    NoBlock = NoBlock
    Faults = {"refused"}
PROPERTIES
    ImplementsClientStream
CHECK_DEADLOCK FALSE
