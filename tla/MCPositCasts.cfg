CONSTANTS
    W8 = 8
    W16 = 9
    W32 = 10
    WholeBits = 5
    I32 = 16
    I64 = 20
    FloatDigits = 4
    FloatMax = 35
    Precisions = {2, 4, 7, 8, 10}
    Ints <- MCInts
    LeftNumbers <- MCLeftNumbers
    Doubles <- MCDoubles
    Partners <- MCPartners
SPECIFICATION Spec
INVARIANTS TypeOK CastsRight NumbersRight RootsAndRintRight WrapperThroughFloats
