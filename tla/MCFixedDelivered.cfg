SPECIFICATION Spec
CONSTANTS
    Byte = {0, 1}
    Base = 2
    BufferSize = 4
    msg_fixed_size = 2
    MAX_CLIENT_BUFFER_SIZE = 8
    MaxSent = 3
    Builds = {1}
    Payloads <- MCPayloads
PROPERTY
    AllDelivered
CHECK_DEADLOCK FALSE
