SPECIFICATION Spec
CONSTANTS
    B = 4
    ToLeBytes <- to_le_bytes
    FromLeBytes <- from_le_bytes
    WriteValue <- write_value
    ReadValue <- read_value
    Text <- text
    Document <- document
    Canon <- canon
    Agree <- agree
    Values <- AllValues
    More <- SomeValues
    MaxPdus = 2
CHECK_DEADLOCK FALSE
INVARIANTS InOrder AllDelivered DecodersAgree
