CONSTANTS
    P = 11
    CosetGenerator = 2
    InputValues <- MCFr
    MaxInputs = 2
    Challenges <- MCFr
    Generators = {3, 10}
    NoDelta = NoDelta
SPECIFICATION Spec
INVARIANTS TypeOK DeltaCorrect
