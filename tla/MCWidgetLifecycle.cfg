CONSTANTS
    P = 11
    k1 = k1
    k2 = k2
    w1 = w1
    w2 = w2
    Keys <- MCKeys
    Widgets <- MCWidgets
    NoKey = NoKey
SPECIFICATION Spec
INVARIANT WidgetConsistent
