SPECIFICATION FairSpec
CONSTANTS
    BufferSize = 4
    HeaderSize = 2
    LengthAt = 2
    MaxLength = 3
    Packets = 2
    Start <- MCStart
    LengthField <- MCLengthField
    SlotOf <- MCSlotOf
    Raw <- MCRaw
    Width = 4
    Bricklets <- MCBricklets
    Ids = {"temperature_reached"}
    MaxRegistrations = 2
    Registrars = {"user", "callback"}
INVARIANT IsStream
INVARIANT RightCall
INVARIANT AtMostOneLate
PROPERTY QuietAfterDisconnect
PROPERTY Delivered
\* The stream ends, and nobody reads after a disconnect.
CHECK_DEADLOCK FALSE
