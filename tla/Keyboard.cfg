CONSTANTS
    RINGBUF_SIZE = 3
    Word = 16
    Scancode <- MC_Scancode
    scancode_to_ascii <- MC_ascii
SPECIFICATION Spec
INVARIANT TestStillHolds
PROPERTY ImplementsFifo
