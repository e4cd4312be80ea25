CONSTANTS
    P = 11
    N = 2
    Circuits <- MCCircuits
    Witnesses <- MCWitnesses
    Challenges <- MCChallenges
    Tau = 7
    VKNames <- MCNamesWithoutQ5
    Absent = Absent
SPECIFICATION Spec
INVARIANT ScalarMultCompletes
