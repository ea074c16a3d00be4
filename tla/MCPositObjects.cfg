CONSTANTS
    W8 = 8
    W16 = 7
    W32 = 6
    WholeBits = 3
    Types = {"posit8", "posit16", "posit32", "posit_1", "posit_2"}
    Precisions = {2, 3, 5, 6}
    Factors <- MCFactors
SPECIFICATION Spec
INVARIANTS TypeOK SignsAndNaRs RightlyRounded FusedIsClose OrderOfValues
