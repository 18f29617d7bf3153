CONSTANTS
    PIPE_CAPACITY = 3
    Byte = {0, 1}
    Zero = 0
    MaxEnds = 2
    Writes <- MCWrites
    Lengths = {1, 2, 4}
SPECIFICATION Spec
PROPERTY ImplementsFifo
