\* Every sequence of calls on two buffers that grow at most to MaxBytes.
CONSTANTS
    Buffers = {input, output}
    Byte = {0, 1}
    Zero = 0
    headSize = 1
    initSize = 1
    ExtraSize = 1
    CopyOrders = {"upwards"}
    MaxLen = 2
    MaxBytes = 4
SPECIFICATION Spec
INVARIANT TypeOK
PROPERTIES ImplementsByteStreams GrowsOnlyWhenFull
