SPECIFICATION Spec
CONSTANTS
    ByteHalf = 2
    ShortHalf = 4
    IntHalf = 8
    LongHalf = 64
    FloatDigits = 2
    DoubleDigits = 5
    FloatExponent = 6
    DoubleExponent = 4
INVARIANTS
    SumsExact
    ProductsExact
    IntegerCastsExact
    SaturationDetected
    PrecisionLossDetected
