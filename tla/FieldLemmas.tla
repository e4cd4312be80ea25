----------------------------- MODULE FieldLemmas -----------------------------
(***************************************************************************)
(* The algebra of the field operations of module Field, proved for every   *)
(* modulus that satisfies PAssumption: the operations land in Fr, and they *)
(* commute, associate and distribute as field operations must.  The proofs *)
(* of the widget and of the public-input binder cite these lemmas by name  *)
(* instead of asking the provers to reason about % afresh.                 *)
(***************************************************************************)
EXTENDS Field, Integers, TLAPS

\* The only facts about P the lemmas need.
LEMMA PBounds == P \in Nat /\ P > 7
BY PAssumption

-----------------------------------------------------------------------------
(* Remainders.  The provers handle x % P when the quotient is named: every *)
(* lemma below goes through "x % P = x - q * P for some integer q".        *)

LEMMA ModQuotient ==
    ASSUME NEW x \in Int
    PROVE  \E q \in Int : (x % P) = x - q * P
BY PBounds

LEMMA ModUnique ==
    ASSUME NEW x \in Int, NEW r \in 0..(P - 1), NEW q \in Int, x = q * P + r
    PROVE  (x % P) = r
BY PBounds

\* Adding a multiple of P leaves the residue alone.
LEMMA ModShift ==
    ASSUME NEW x \in Int, NEW k \in Int
    PROVE  ((x + k * P) % P) = (x % P)
<1>1. PICK q \in Int : (x % P) = x - q * P
  BY ModQuotient
<1>2. x + k * P = (q + k) * P + (x % P)
  BY <1>1, PBounds
<1>3. (x % P) \in 0..(P - 1) /\ x + k * P \in Int /\ q + k \in Int
  BY PBounds
<1>4. QED
  BY <1>2, <1>3, ModUnique, Zenon

\* Reducing a factor or a summand first does not change the residue.
LEMMA MulModLeft ==
    ASSUME NEW a \in Int, NEW b \in Int
    PROVE  (((a % P) * b) % P) = ((a * b) % P)
<1>1. PICK q \in Int : (a % P) = a - q * P
  BY ModQuotient
<1>2. (a % P) * b = a * b + (-(q * b)) * P
  BY <1>1, PBounds
<1>3. a * b \in Int /\ -(q * b) \in Int
  BY PBounds
<1>4. QED
  BY <1>2, <1>3, ModShift, Zenon

LEMMA AddModLeft ==
    ASSUME NEW a \in Int, NEW b \in Int
    PROVE  (((a % P) + b) % P) = ((a + b) % P)
<1>1. PICK q \in Int : (a % P) = a - q * P
  BY ModQuotient
<1>2. (a % P) + b = a + b + (-q) * P
  BY <1>1, PBounds
<1>3. a + b \in Int /\ -q \in Int
  BY PBounds
<1>4. QED
  BY <1>2, <1>3, ModShift, Zenon

-----------------------------------------------------------------------------
(* The field operations.                                                   *)

\* Every operation yields a canonical residue from integer operands.
LEMMA FieldType ==
    ASSUME NEW a \in Int, NEW b \in Int
    PROVE  /\ FAdd(a, b) \in Fr
           /\ FSub(a, b) \in Fr
           /\ FMul(a, b) \in Fr
           /\ FSqr(a) \in Fr
           /\ FConst(a) \in Fr
BY PBounds DEF FAdd, FSub, FMul, FSqr, FConst, Fr

LEMMA FrInt == Fr \subseteq Int
BY PBounds DEF Fr

\* Fr holds exactly the residues: reducing one changes nothing.
LEMMA ResidueFixed ==
    ASSUME NEW x \in Fr
    PROVE  (x % P) = x
BY PBounds DEF Fr

LEMMA AddComm ==
    ASSUME NEW a \in Int, NEW b \in Int
    PROVE  FAdd(a, b) = FAdd(b, a)
BY DEF FAdd

LEMMA MulComm ==
    ASSUME NEW a \in Int, NEW b \in Int
    PROVE  FMul(a, b) = FMul(b, a)
BY DEF FMul

LEMMA AddAssoc ==
    ASSUME NEW a \in Int, NEW b \in Int, NEW c \in Int
    PROVE  FAdd(FAdd(a, b), c) = FAdd(a, FAdd(b, c))
<1>1. FAdd(FAdd(a, b), c) = ((a + b + c) % P)
  BY AddModLeft DEF FAdd
<1>2. FAdd(a, FAdd(b, c)) = ((((b + c) % P) + a) % P)
  BY PBounds DEF FAdd
<1>3. ((((b + c) % P) + a) % P) = ((b + c + a) % P)
  BY AddModLeft
<1>4. QED
  BY <1>1, <1>2, <1>3

LEMMA MulAssoc ==
    ASSUME NEW a \in Int, NEW b \in Int, NEW c \in Int
    PROVE  FMul(FMul(a, b), c) = FMul(a, FMul(b, c))
<1>1. FMul(FMul(a, b), c) = ((a * b * c) % P)
  BY MulModLeft DEF FMul
<1>2. FMul(a, FMul(b, c)) = ((((b * c) % P) * a) % P)
  BY PBounds DEF FMul
<1>3. ((((b * c) % P) * a) % P) = ((b * c * a) % P)
  BY MulModLeft
<1>4. QED
  BY <1>1, <1>2, <1>3

\* Multiplication distributes over addition.
LEMMA MulDistrib ==
    ASSUME NEW a \in Int, NEW b \in Int, NEW c \in Int
    PROVE  FMul(FAdd(a, b), c) = FAdd(FMul(a, c), FMul(b, c))
<1> DEFINE ac == a * c
           bc == b * c
<1>0. ac \in Int /\ bc \in Int /\ (bc % P) \in Int
  BY PBounds
<1>1. FMul(FAdd(a, b), c) = (((a + b) * c) % P)
  BY MulModLeft DEF FMul, FAdd
<1>2. (((ac % P) + (bc % P)) % P) = ((ac + (bc % P)) % P)
  BY <1>0, AddModLeft
<1>3. (((bc % P) + ac) % P) = ((bc + ac) % P)
  BY <1>0, AddModLeft
<1>4. QED
  BY <1>0, <1>1, <1>2, <1>3 DEF FAdd, FMul

\* 0 and 1 are the identities on residues.
LEMMA Identities ==
    ASSUME NEW x \in Fr
    PROVE  /\ FAdd(0, x) = x /\ FAdd(x, 0) = x
           /\ FMul(1, x) = x /\ FMul(x, 1) = x
BY ResidueFixed, FrInt DEF FAdd, FMul

\* field_t::invert: a non-zero element times its inverse is 1.
LEMMA InverseCancels ==
    ASSUME NEW a \in Fr \ {0}
    PROVE  FInv(a) \in Fr /\ FMul(a, FInv(a)) = 1
<1>1. \E b \in Fr : (a * b) % P = 1
  BY InverseAssumption
<1>2. QED
  BY <1>1 DEF FInv, FMul

-----------------------------------------------------------------------------
(* Congruence.  Cong(x, X) says the residue x stands for the integer X.   *)
(* The operations respect it, and two residues that stand for the same    *)
(* integer are equal, so a long expression of field operations can be     *)
(* compared with another through the integer polynomial they both stand   *)
(* for, whatever the order and grouping of their terms.                   *)

Cong(x, X) == \E k \in Int : x = X + k * P

\* A residue stands for the integer it reduces.
LEMMA CongResidueHelper ==
    ASSUME NEW x \in Int
    PROVE  Cong((x % P), x)
<1>1. PICK q \in Int : (x % P) = x - q * P
  BY ModQuotient
<1>2. (x % P) = x + (-q) * P /\ -q \in Int
  BY <1>1, PBounds
<1>3. QED
  BY <1>2 DEF Cong

LEMMA CongRefl ==
    ASSUME NEW x \in Int
    PROVE  Cong(x, x)
<1>1. x = x + 0 * P
  BY PBounds
<1>2. QED
  BY <1>1 DEF Cong

LEMMA CongAdd ==
    ASSUME NEW a \in Int, NEW b \in Int, NEW A \in Int, NEW B \in Int,
           Cong(a, A), Cong(b, B)
    PROVE  Cong(FAdd(a, b), A + B) /\ FAdd(a, b) \in Fr
<1>1. PICK k \in Int : a = A + k * P
  BY DEF Cong
<1>2. PICK j \in Int : b = B + j * P
  BY DEF Cong
<1>3. PICK q \in Int : ((a + b) % P) = (a + b) - q * P
  BY ModQuotient
<1>4. FAdd(a, b) = (A + B) + (k + j - q) * P /\ k + j - q \in Int
  BY <1>1, <1>2, <1>3, PBounds DEF FAdd
<1>5. QED
  BY <1>4, FieldType DEF Cong

LEMMA CongSub ==
    ASSUME NEW a \in Int, NEW b \in Int, NEW A \in Int, NEW B \in Int,
           Cong(a, A), Cong(b, B)
    PROVE  Cong(FSub(a, b), A - B) /\ FSub(a, b) \in Fr
<1>1. PICK k \in Int : a = A + k * P
  BY DEF Cong
<1>2. PICK j \in Int : b = B + j * P
  BY DEF Cong
<1>3. PICK q \in Int : ((a + (P - b)) % P) = (a + (P - b)) - q * P
  <2>1. a + (P - b) \in Int
    BY PBounds
  <2>2. QED
    BY <2>1, ModQuotient, Zenon
<1>4. FSub(a, b) = (A - B) + (k - j + 1 - q) * P /\ k - j + 1 - q \in Int
  BY <1>1, <1>2, <1>3, PBounds DEF FSub
<1>5. QED
  BY <1>4, FieldType DEF Cong

LEMMA CongMul ==
    ASSUME NEW a \in Int, NEW b \in Int, NEW A \in Int, NEW B \in Int,
           Cong(a, A), Cong(b, B)
    PROVE  Cong(FMul(a, b), A * B) /\ FMul(a, b) \in Fr
<1>1. PICK k \in Int : a = A + k * P
  BY DEF Cong
<1>2. PICK j \in Int : b = B + j * P
  BY DEF Cong
<1>3. PICK q \in Int : ((a * b) % P) = (a * b) - q * P
  BY ModQuotient
<1> DEFINE m == A * j + k * B + k * j * P - q
<1>4. a * b = A * B + (A * j + k * B + k * j * P) * P
  BY <1>1, <1>2, PBounds
<1>5. FMul(a, b) = A * B + m * P /\ m \in Int
  BY <1>3, <1>4, PBounds DEF FMul
<1>6. QED
  BY <1>5, FieldType DEF Cong

LEMMA CongSqr ==
    ASSUME NEW a \in Int, NEW A \in Int, Cong(a, A)
    PROVE  Cong(FSqr(a), A * A)
<1>1. FSqr(a) = FMul(a, a)
  BY DEF FSqr, FMul
<1>2. QED
  BY <1>1, CongMul

LEMMA CongConst ==
    ASSUME NEW a \in Int
    PROVE  Cong(FConst(a), a)
BY CongResidueHelper DEF FConst

\* Two residues that stand for the same integer are the same residue.
LEMMA CongUnique ==
    ASSUME NEW x \in Fr, NEW y \in Fr, NEW X \in Int, Cong(x, X), Cong(y, X)
    PROVE  x = y
<1>1. PICK k \in Int : x = X + k * P
  BY DEF Cong
<1>2. PICK j \in Int : y = X + j * P
  BY DEF Cong
<1>3. x - y = (k - j) * P
  BY <1>1, <1>2, PBounds, FrInt
<1>4. k - j = 0
  BY <1>3, PBounds DEF Fr
<1>5. QED
  BY <1>3, <1>4, PBounds, FrInt

\* x is a residue that stands for the integer X.  Stated with its types,
\* so that the lemmas below apply without side conditions.
Rep(x, X) == x \in Fr /\ X \in Int /\ Cong(x, X)

LEMMA RepAtom ==
    ASSUME NEW x \in Fr
    PROVE  Rep(x, x)
BY FrInt, CongRefl DEF Rep

LEMMA RepAdd ==
    ASSUME NEW a, NEW b, NEW A, NEW B, Rep(a, A), Rep(b, B)
    PROVE  Rep(FAdd(a, b), A + B)
<1>1. a \in Int /\ b \in Int /\ A \in Int /\ B \in Int /\ Cong(a, A) /\ Cong(b, B)
  BY FrInt DEF Rep
<1>2. A + B \in Int
  BY <1>1
<1>3. QED
  BY <1>1, <1>2, CongAdd DEF Rep

LEMMA RepSub ==
    ASSUME NEW a, NEW b, NEW A, NEW B, Rep(a, A), Rep(b, B)
    PROVE  Rep(FSub(a, b), A - B)
<1>1. a \in Int /\ b \in Int /\ A \in Int /\ B \in Int /\ Cong(a, A) /\ Cong(b, B)
  BY FrInt DEF Rep
<1>2. A - B \in Int
  BY <1>1
<1>3. QED
  BY <1>1, <1>2, CongSub DEF Rep

LEMMA RepMul ==
    ASSUME NEW a, NEW b, NEW A, NEW B, Rep(a, A), Rep(b, B)
    PROVE  Rep(FMul(a, b), A * B)
<1>1. a \in Int /\ b \in Int /\ A \in Int /\ B \in Int /\ Cong(a, A) /\ Cong(b, B)
  BY FrInt DEF Rep
<1>2. A * B \in Int
  BY <1>1
<1>3. QED
  BY <1>1, <1>2, CongMul DEF Rep

LEMMA RepConst ==
    ASSUME NEW k \in Int
    PROVE  Rep(FConst(k), k)
<1>1. FConst(k) \in Fr
  BY FieldType
<1>2. QED
  BY <1>1, CongConst DEF Rep

\* Residues that stand for integers congruent mod P are equal.
LEMMA RepCongEq ==
    ASSUME NEW x, NEW y, NEW X, NEW Y, Rep(x, X), Rep(y, Y),
           NEW m \in Int, X = Y + m * P
    PROVE  x = y
<1>1. Cong(x, Y)
  <2>1. PICK k \in Int : x = X + k * P
    BY DEF Rep, Cong
  <2>2. x = Y + (m + k) * P /\ m + k \in Int
    BY <2>1, PBounds DEF Rep
  <2>3. QED
    BY <2>2 DEF Cong
<1>2. QED
  BY <1>1, CongUnique DEF Rep

\* Residues that stand for equal integers are equal.
LEMMA RepEq ==
    ASSUME NEW x, NEW y, NEW X, NEW Y, Rep(x, X), Rep(y, Y), X = Y
    PROVE  x = y
BY CongUnique DEF Rep

LEMMA InverseType ==
    ASSUME NEW a \in Fr
    PROVE  FInv(a) \in Fr
<1>1. CASE a = 0
  BY <1>1, PBounds DEF FInv, Fr
<1>2. CASE a # 0
  BY <1>2, InverseCancels
<1>3. QED
  BY <1>1, <1>2
==============================================================================
