CONSTANTS
    P = 11
    NumThreads = 3
    ThreadSize = 2
    SelectorFFT <- MCSelectorFFT
    WireFFT <- MCWireFFT
    QuotientIn <- MCQuotientIn
    Alpha = 3
    AlphaBase = 5
    NoResult = NoResult
SPECIFICATION Spec
INVARIANTS TypeOK QuotientCorrect SlotsConsistent

