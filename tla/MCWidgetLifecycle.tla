------------------------- MODULE MCWidgetLifecycle -------------------------
EXTENDS WidgetLifecycle, TLC
CONSTANTS k1, k2, w1, w2
MCKeys == {k1, k2}
MCWidgets == {w1, w2}
==============================================================================
