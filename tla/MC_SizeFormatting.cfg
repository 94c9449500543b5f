CONSTANTS
    Sizes <- MCSizes
    DecimalOptions = {0, 1, 2, 3, 5}
    LocaleSeparators <- MCLocaleSeparators
SPECIFICATION Spec
 
INVARIANT BytesShowExactly
INVARIANT RoundsUp
