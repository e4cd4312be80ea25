CONSTANTS
    P = 11
    N = 2
    Circuits <- MCCircuits
    Witnesses <- MCWitnesses
    Challenges <- MCChallenges
    Tau = 7
    VKNames <- MCAllNames
    Absent = Absent
SPECIFICATION Spec
INVARIANTS TypeOK QuotientSplit VerifierMirrorsProver ChainsAgree
