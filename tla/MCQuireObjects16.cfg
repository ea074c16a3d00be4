CONSTANTS
    W8 = 4
    W16 = 4
    W32 = 5
    WholeBits = 3
    B8 = 12
    B16 = 10
    B32 = 9
    L32 = 6
    JunkWords = {0, 1, 1023}
    Classes = {"quire16"}
    Precisions = {4}
    Operands <- MCOperands
    MaxProducts <- MCMaxProducts
SPECIFICATION Spec
INVARIANT OneProductExact
