# TLA+ models of the Turbo PLONK arithmetic widget and the public-input delta

This directory is a verification development for the two C++ files under
`src/src/barretenberg/waffle/proof_system/public_inputs/public_inputs.cpp`
(which holds both `public_inputs.cpp`, lines 1-143, and
`turbo_arithmetic_widget.cpp`, lines 144-597). It has three kinds of file:

- TLA+ modules that model the code;
- TLC configurations that model-check those modules on small instances;
- TLAPS proof modules that prove, for every instance:
  - the main invariants of the parallel quotient loop;
  - that the widget's prover and verifier chains agree;
  - that the public-input delta is well typed, and is the ratio of the two products for every length of the input vector;
  - that the prover's and the verifier's forms of the arithmetic gate agree at every point, and so do the verifier's commitment scalars and the prover's linearisation and opening terms;
  - that the quad-extraction comment at lines 472-477 is wrong in every prime field above 7.

## The system

The files form part of a PLONK prover and verifier. These are the parts and how they interact:

| Part | Code | Role |
|---|---|---|
| Field arithmetic `fr` | outside `src/` | arithmetic mod the BN254 scalar prime |
| PublicInputBinder | `compute_public_input_delta`, 118-143 | the factor delta that rebalances the permutation product for the public inputs |
| ProverTurboArithmeticWidget | 159-428 | binds the selector polynomials of the proving key; adds the arithmetic gate to the quotient (an OpenMP loop over chunks of the large domain), adds `q_arith(z)` to the transcript, adds the gate to the linearisation polynomial r, and adds `q_arith` to the opening polynomial |
| VerifierTurboArithmeticWidget | 437-596 | adds the quad-extraction term to `t_eval`; adds `q_arith(z)` to the batch evaluation; pushes the selector commitments and their scalars for the multi-scalar multiplication |
| Transcript, ProvingKey, VerificationKey, EvaluationDomain | outside `src/` | the challenges and evaluations shared between widgets; the selector maps; the thread partition |
| `src/unnamed/part_000` | JavaScript | a Schnorr wasm example; not modelled (I/O glue) |

Every widget operation takes a chain value from the widget before it and returns
one for the widget after it. The prover's quotient and linearisation passes and
the verifier's quotient-evaluation and scalar passes advance `alpha_base`. The
prover's opening pass and the verifier's batch-evaluation and scalar passes
advance `nu_base`. The protocol is sound only if the prover side and the verifier
side compute the same identity and advance the chains alike.

## Modules

| Module | Models | State / actions |
|---|---|---|
| `Field` | `fr` (from the spec) | GF(P) for a small prime P: `FAdd`, `FSub`, `FMul`, `FSqr`, `FInv` (0 maps to 0, as Fermat inversion does), `FPow` |
| `FieldLemmas` | proofs about `Field` | the algebra the other proofs cite: remainder lemmas, closure, commutativity, associativity, distributivity, identities, and inverses |
| `TurboArithmetic` | the gate identities, 294-482 | operators only; each code path that evaluates the gate is its own operator: `ArithmeticGate`, `QuadExtraction`, `QuotientPointTerm`, `LinearRowTerm` and `QuotientEvalTerm` |
| `AtomicQuotient` | the contract of `compute_quotient_contribution` | `Contribute`: one step that adds the widget's term at every point and returns `alpha_base·alpha²` |
| `ParallelQuotient` | `compute_quotient_contribution`, 265-363 | see below; implements `AtomicQuotient` |
| `DeltaContract` | the contract of `compute_public_input_delta`, 118-143 | `Compute`: one step that returns, once, a delta that is the ratio of the two row products; holds the constants and the arguments |
| `PublicInputs` | `compute_public_input_delta` | extends `DeltaContract`; see below |
| `WidgetRound` | one prover round and one verifier round through the widget | see below |
| `ParallelQuotientProofs`, `PublicInputsProofs`, `WidgetRoundProofs`, `TurboArithmeticProofs`, `VerifierScalarsProofs` | proofs | theorems about the module each one extends; see Proofs |
| `WidgetLifecycle` | constructors, copy/move constructors and both `operator=`, 159-263 | see below |

- **`ParallelQuotient`**
  - Variables:
    - `quotient_large`;
    - per thread, the loop index `i[j]`, a program counter and a scratch value `tmp[j]`;
    - the return value.
  - Actions:
    - `Load(j)` reads `quotient_large[i]`.
    - `Store(j)` writes the sum back and advances `i` (line 359, an `__add` that reads and writes the shared buffer).
    - `Return` fires once every thread is done.
- **`PublicInputs`**
  - Variables: `numerator`, `denominator`, `work_root`, the loop position, and `delta`.
  - Actions:
    - `LoopBody` is one iteration, lines 131-138.
    - `Return` is the inversion and product, lines 140-142.
- **`WidgetRound`**
  - Variables:
    - the selectors and wires as coefficient vectors;
    - the transcript;
    - the quotient, r and opening polynomials;
    - `t_eval` and `batch_eval`;
    - the verifier's points;
    - the chain values each operation returned.
  - Actions, in call order:
    1. `ProverQuotient`
    2. `AddEvaluations`
    3. `ProverTranscriptElements`
    4. `DeriveNu`
    5. `ProverLinear`
    6. `ProverOpening`
    7. `VerifierQuotientEval`
    8. `VerifierBatchEval`
    9. `VerifierScalarMult`
- **`WidgetLifecycle`**
  - State: for each widget, its key and the key whose polynomial each of its sixteen members holds.
  - Actions: `Construct`, `CopyConstruct` and `Assign`.

Abstractions, each chosen so that what the properties compare is kept:

- **Field.** The field is GF(11), not the 254-bit BN254 field. Montgomery form and coarse reduction are left out. Every result the code stores is fully reduced, and `TypeOK` checks exactly that.
- **Quotient.** `quotient_large` holds values on the coset of the large domain. In `WidgetRound` it is kept as the quotient's value at every field point, so the prover's quotient can be read at the challenge z. `ParallelQuotient` proves that the threaded loop equals this single update.
- **Commitments.** A commitment `[p]` is modelled as `p(Tau)`, for a setup secret Tau. This is the linear map through which the verifier's multi-scalar multiplication reproduces the prover's polynomials. The commitment to the zero polynomial is the point at infinity, which fails `g1::on_curve` and is skipped.
- **Transcript.** Challenges are nondeterministic choices from a small set. No hashing is modelled.
- **Selector lookups.** An absent name in `std::map::at` throws `std::out_of_range`. The state the throw leaves behind is kept: the pairs already pushed, or the members already reassigned.

## Runs

| Run | Checks | Shows |
|---|---|---|
| `parallel_quotient` (pass) | `TypeOK`, `QuotientCorrect`, `SlotsConsistent` | Three threads with two slots each, load and store interleaved in every order, give the sequential result. In every intermediate state each slot is untouched or updated exactly once, and each thread's scratch value is the slot it is updating. |
| `parallel_quotient_live` (pass) | `Termination` | Under weak fairness of every worker and of the master's return, the call always returns. |
| `public_input_delta` (pass) | `TypeOK`, `DeltaCorrect` | Over all inputs of length up to 2 and all β, γ in GF(11), with generators 3 and 10: whenever the closed-form denominator is nonzero, the loop's delta times that denominator equals the closed-form numerator, pairing input i with g^(i-1). |
| `widget_round` (pass) | `TypeOK`, `QuotientSplit`, `VerifierMirrorsProver`, `ChainsAgree` | Over two circuits, two witnesses and challenges in {2, 3, 5}: the quotient at z equals `t_eval + r(z)`; the verifier's points describe `linear_nu·r(Tau) + opening(Tau)` and `batch_eval = opening(z)`; and all passes return the same `alpha_base` and `nu_base`. |
| `delta_one_based` (violation) | `DeltaOneBased` | The code's delta is not the spec's 1-based delta of section 8. |
| `delta_degenerate` (violation) | `DegenerateAborts` | A zero denominator gives delta = 0, not the abort the spec demands. |
| `absent_commitment` (violation) | `ScalarMultCompletes` | A verification key without `Q_5` makes the verifier throw rather than skip, as the spec says it should. |
| `quad_comment` (violation) | `QuadZeroIffComment` | The quad term also vanishes at delta = 7/2, contrary to the comment at lines 472-477. |
| `widget_assignment` (violation) | `WidgetConsistent` | `operator=` looks up `q_1_fft` in `constraint_selectors`, so it throws after rebinding half of the widget to another key (a code bug). |

The bounds and why they suffice:

- **Parallel quotient.** Three threads of two slots let every thread interleave with two others, both inside its chunk and at chunk borders.
- **Public-input delta.**
  - Inputs of length 2 exercise the advance of `work_root`.
  - Generators 3 and 10 have orders 5 and 2, so the powers differ from 1.
  - GF(11) contains both degenerate denominators and nonzero ones.
- **Widget round.**
  - The circuits have nonzero q_5 and a q_arith that equals 2 at some z, so the quad term is active.
  - One circuit has q_5 = 0, so the on_curve skip fires.
  - The witnesses make w_4(z) non-boolean, so the q_5 term is active.
  - Each mutant listed in `PROJECT.json` shows that the instance is large enough to break its property.

**Fairness.** Only `LiveSpec` assumes fairness, and only `Termination` uses it:

- `WF_vars(Worker(j))` for each worker. OpenMP runs each worker on a thread of its own, which the OS keeps scheduling while it can run.
- `WF_vars(Return)` for the master passing the barrier.

The mutant `StoreNoAdvance` drops `++i`, and TLC then finds a fair behaviour that never returns. Every other property is a safety property.

## Proofs

`ParallelQuotientProofs` proves the following for every `NumThreads` and
`ThreadSize` in Nat \ {0} and every prime `P > 7`:

- `Spec => []TypeOK` (`TypeCorrect`);
- `Spec => []SlotsConsistent` (`SlotsAlwaysConsistent`);
- `Spec => []QuotientCorrect` (`ParallelMatchesSequential`).

**Why QuotientCorrect needs a stronger invariant.** `QuotientCorrect` is not inductive: it speaks only of the final state. The inductive invariant `IInv == TypeOK /\ SlotsConsistent` states four things:

1. Each thread's index stays within its chunk.
2. A thread between load and store holds the original value of its slot.
3. Every slot is either written, holding `QuotientIn + term`, or unwritten, holding `QuotientIn`.
4. The function has returned only when every thread is done.

**How the proof goes.**

- The step proof has one case per action.
- It rests on three lemmas about the partition:
  - `ChunksDisjoint`: no slot lies in two chunks, so one thread's store never changes a slot another thread reads.
  - `ChunkCover`: every slot lies in some chunk. It is proved by picking the quotient and remainder of k by `ThreadSize`.
  - `ChunkInDomain`: every chunk lies inside the large domain.
- A typing lemma for `PointTerm` supports the proof.
- At return, `ChunkCover` turns "every thread is done" into "every slot is written".

**Refinement.** `ImplementsAtomic` proves that the loop implements `AtomicQuotient` under the mapping `CallerView`, which shows the caller `QuotientIn` until the call returns and the buffer afterwards. It is a corollary of the invariants: at the return it says what `QuotientCorrect` says, so it is not checked as a separate run. It follows the standard refinement layout:

- The initial states map to `Atomic!Init`.
- Under `IInv`, every step maps to a `Contribute` step or a stutter of `<<CallerView, result>>` (`StepRefines`):
  - A worker's step runs only while `result = NoResult`. This is the fourth conjunct of `IInv`. So the caller's view does not change.
  - `Return` is the one `Contribute` step. The lemma `AllDoneCorrect` shows that once every worker is done, the buffer is the sequential one.
- `AtomicOperators` states that the instance's operators are the loop's.

**Widget round.** `WidgetRoundProofs` proves `Spec => []ChainsAgree` (`ChainsAlwaysAgree`) for every field, key, witness and transcript.

- **The inductive invariant `ChainInv`.**
  - It ranks the steps of the round.
  - Each returned value is `Absent` until its operation has run, and the expected chain value afterwards. The expected values are `alpha_base·alpha²` and `nu_base·nu`.
  - The scalar inputs never return when they throw.
- **Why it is inductive.**
  - The transcript's `alpha` is never rewritten.
  - Its `nu` is set before any operation that reads it.
  - A lemma, `QuietStep`, covers the steps that only change the transcript's other entries.

`NoStaleStore` proves the action property `LoadNotStale` (no store writes a sum built from a stale load). It follows from `SlotsConsistent`, which TLC checks, so it is not a run of its own. The argument:

- A worker between its load and its store holds the value it loaded (`IInv`, second conjunct).
- No other worker writes that slot, since the chunks are disjoint.
- So, by the lemma `StoreSeesSlot`, the slot still holds that value when the store completes.

**Field algebra.** `FieldLemmas` proves, for every `P` of `PAssumption`, that the `%`-based operations of `Field` behave as field operations. Every lemma works by naming the quotient: `x % P = x - q*P` for some integer q.

- `FInv` is `CHOOSE b : a*b % P = 1`. That every non-zero residue has such a b follows from P being prime, through Bezout's identity. That argument needs induction, so it is stated as `InverseAssumption` in `Field`. TLC evaluates the assumption on every run.
- `InverseCancels` derives from it that `FMul(a, FInv(a)) = 1`.

**Public-input delta.** `PublicInputsProofs` proves two theorems for every field, every pair of generators, and every length of the input vector:

- `Spec => []TypeOK` (`TypeCorrect`);
- `Spec => []DeltaIsRatio` (`DeltaAlwaysRatio`): the ratio fact that `DeltaCorrect` states, for every length.

The closed-form products are recursive functions, and the provers cannot unfold those. So `DeltaIsRatio` quantifies over every table `t` in `[0..L -> Fr]` that satisfies the defining recurrence, `t[0] = 1` and `t[m] = t[m-1]·term(m)`. There is exactly one such table, so this is the fact `DeltaCorrect` states; TLC checks `DeltaCorrect`, and the proof carries it to every input length.

The inductive invariant `AccInv` adds two facts:

- After `idx` iterations, `work_root`, `numerator` and `denominator` are entries `idx` of the power and product tables.
- A returned delta is `FInv(denominator)·numerator`, and it is returned only at `idx = L`.

`DeltaIsRatio` then follows by `InverseCancels`.

The loop also implements its contract, a corollary of the same invariant: `ImplementsContract` proves `Spec => ContractSpec`. `PublicInputs` extends `DeltaContract`, so the refinement mapping is the identity on the arguments and on `delta`; the accumulators and `idx` are hidden.

- The initial state is a `ContractInit` state: `delta = NoDelta`.
- Under `AccInv`, every step is a `Compute` step or a stutter of `<<args, delta>>`. `LoopBody` changes only the hidden accumulators. `Return` runs at `idx = L` with `delta = NoDelta`, and the lemma `ReturnRatio` shows that the value it returns satisfies `IsRatio`.

**Congruences.** Long field expressions are compared through `Rep(x, X)`: x is a residue and X an integer with x = X + kP. `RepAtom`, `RepAdd`, `RepSub`, `RepMul` and `RepConst` build such facts bottom-up along an expression, the integer identity between the two X's is then a polynomial identity that Z3 proves, and `RepEq` (or `RepCongEq`, for integers equal up to a multiple of P) turns it into an equality of residues. This avoids hundreds of associativity and distributivity steps.

**Arithmetic gate.** `TurboArithmeticProofs` proves `GatePathsAgree` for every prime field and every selector, wire and challenge value. At a point, the term `compute_quotient_contribution` adds equals the term `compute_linear_contribution` adds, with that point's evaluations, plus the term `compute_quotient_evaluation_contribution` adds. The proof uses the lemmas for associativity, commutativity and distributivity. It is the pointwise half of `QuotientSplit`. The other half is that evaluating at z is linear, which is a fact about the recursive `PolyEval`.

`QuadCommentFails`, in the same module, proves for every prime P > 7 that with q_arith = 2 the quad-extraction term vanishes at w_3 = 7/2, w_4 = 0, where delta = w_3 - 4 w_4 is neither 0 nor 1. The witness comes from `InverseCancels`, and the vanishing from the congruence method: the term stands for 2·d·(9d - 2d² - 7), and 2d = 7 + mP makes it a multiple of P. The `quad_comment` run shows the counterexample in GF(11); the theorem shows it is not an accident of that field.

**Verifier scalars.** `VerifierScalarsProofs` proves `ScalarsMatchProver` for every prime field, every selector value, challenge and transcript evaluation: the eight scalars `append_scalar_multiplication_inputs` pushes for the selector commitments, combined with the selector values, give `linear_nu` times the prover's linearisation term plus its opening term `q_arith·nu_base`. Since a commitment is a linear map, this is the pointwise half of `VerifierMirrorsProver`; the other half is again the linearity of `PolyEval`.

**What stays with TLC.**

- `DeltaCorrect` names the recursive `RowProduct`. Its equivalence with the table form needs induction over the length, which the installed provers cannot do. TLC checks both forms.
- The `TypeOK`, `QuotientSplit` and `VerifierMirrorsProver` of `WidgetRound` are about values of `PolyEval` and `FPow`. These are recursive functions, and proving their range or their linearity needs induction over data.
- `Termination` is a liveness property. It needs fairness and `ENABLED`, which are beyond the prover.

## Not modelled

- Field representation (Montgomery form, 4×64-bit limbs, coarse reduction).
- FFTs and domain sizing, beyond the thread partition.
- Transcript hashing.
- Curve arithmetic and pairings.
- The Schnorr JavaScript example.

## Planned next

- A model of `ITERATE_OVER_DOMAIN` for the linearisation and opening loops, instantiating the same partition argument.
- A verifier order-of-operations model, spanning more than one widget.
