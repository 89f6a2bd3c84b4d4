\* A sender with the receiver's limit, or with a higher one.
SPECIFICATION Spec
CONSTANTS
    Base = 2
    MaxPayload = 4
    SenderLimits = {4, 5}
    Payloads <- ShortAndLong
    MaxSent = 3
INVARIANTS
    TypeOK
    Aligned
    NeverInvalid
PROPERTIES
    ChannelRefined
    Delivered
