--------------------------- MODULE WidgetLifecycle ---------------------------
(***************************************************************************)
(* Construction, copy, move and assignment of ProverTurboArithmeticWidget  *)
(* (turbo_arithmetic_widget.cpp lines 159-263).  A widget binds sixteen    *)
(* members to polynomials of its proving key: the coefficient forms, found *)
(* in key->constraint_selectors under "q_1" .. "q_arith", and the coset    *)
(* FFT forms, found in key->constraint_selector_ffts under "q_1_fft" ..    *)
(* "q_arith_fft".  A lookup with std::map::at of a name the map lacks      *)
(* throws std::out_of_range, leaving the members assigned before it as     *)
(* they were assigned.  A member is modelled by the key whose polynomial   *)
(* it holds.                                                               *)
(***************************************************************************)
EXTENDS TurboArithmetic, Sequences

CONSTANTS
    Keys,     \* proving keys
    Widgets,  \* widget objects
    NoKey     \* a widget not yet constructed

FftOf == [q_1 |-> "q_1_fft", q_2 |-> "q_2_fft", q_3 |-> "q_3_fft",
          q_4 |-> "q_4_fft", q_5 |-> "q_5_fft", q_m |-> "q_m_fft",
          q_c |-> "q_c_fft", q_arith |-> "q_arith_fft"]
FftNames == {FftOf[n] : n \in SelectorNames}
Members == SelectorNames \cup FftNames

\* The names a proving key's two maps hold (proving_key.cpp).
ConstraintSelectorNames == SelectorNames
ConstraintSelectorFftNames == FftNames

\* The order in which the constructors and operator= assign the members.
MemberOrder == <<"q_1", "q_2", "q_3", "q_4", "q_5", "q_m", "q_c", "q_arith",
                 "q_1_fft", "q_2_fft", "q_3_fft", "q_4_fft", "q_5_fft",
                 "q_m_fft", "q_c_fft", "q_arith_fft">>

VARIABLES key, holds, thrown

vars == <<key, holds, thrown>>

\* Assign the members in MemberOrder, looking member m up in lookup[m], from
\* key k: the members before the first failed lookup hold k, the others keep
\* what they held; the result records whether a lookup threw.
AssignMembers(old, k, lookup) ==
    LET fails(i) == MemberOrder[i] \notin lookup[MemberOrder[i]]
        stop == IF \E i \in 1..16 : fails(i)
                THEN CHOOSE i \in 1..16 : fails(i) /\ \A j \in 1..(i - 1) : ~fails(j)
                ELSE 17
        done == {MemberOrder[i] : i \in 1..(stop - 1)}
    IN  [members |-> [m \in Members |-> IF m \in done THEN k ELSE old[m]],
         threw |-> stop < 17]

\* The constructors look each name up in the map that holds it.
ConstructorLookup ==
    [m \in Members |-> IF m \in SelectorNames THEN ConstraintSelectorNames
                                             ELSE ConstraintSelectorFftNames]

\* Both assignment operators look every name up in constraint_selectors.
AssignmentLookup == [m \in Members |-> ConstraintSelectorNames]

Unbound == [m \in Members |-> NoKey]

Init ==
    /\ key = [w \in Widgets |-> NoKey]
    /\ holds = [w \in Widgets |-> Unbound]
    /\ thrown = FALSE

\* ProverTurboArithmeticWidget(input_key, input_witness), lines 159-176.
Construct(w, k) ==
    LET a == AssignMembers(Unbound, k, ConstructorLookup)
    IN  /\ ~thrown /\ key[w] = NoKey
        /\ key' = [key EXCEPT ![w] = k]
        /\ holds' = [holds EXCEPT ![w] = a.members]
        /\ thrown' = a.threw

\* The copy and move constructors, lines 178-214: ProverBaseWidget(other)
\* copies other's key, then the members are looked up in it.
CopyConstruct(w, o) ==
    LET a == AssignMembers(Unbound, key[o], ConstructorLookup)
    IN  /\ ~thrown /\ key[w] = NoKey /\ key[o] # NoKey
        /\ key' = [key EXCEPT ![w] = key[o]]
        /\ holds' = [holds EXCEPT ![w] = a.members]
        /\ thrown' = a.threw

\* The copy and move assignment operators, lines 216-263:
\* ProverBaseWidget::operator=(other) takes other's key, then every member
\* is looked up in key->constraint_selectors.
Assign(w, o) ==
    LET a == AssignMembers(holds[w], key[o], AssignmentLookup)
    IN  /\ ~thrown /\ key[w] # NoKey /\ key[o] # NoKey /\ w # o
        /\ key' = [key EXCEPT ![w] = key[o]]
        /\ holds' = [holds EXCEPT ![w] = a.members]
        /\ thrown' = a.threw

Next ==
    \/ \E w \in Widgets, k \in Keys : Construct(w, k)
    \/ \E w, o \in Widgets : CopyConstruct(w, o) \/ Assign(w, o)

Spec == Init /\ [][Next]_vars

(***************************************************************************)
(* Every member of a constructed widget holds a polynomial of the widget's *)
(* own key: copying or assigning a widget rebinds all sixteen members to   *)
(* the key it now refers to, and no operation throws.                      *)
(***************************************************************************)
WidgetConsistent ==
    /\ ~thrown
    /\ \A w \in Widgets : key[w] # NoKey => \A m \in Members : holds[w][m] = key[w]
==============================================================================
