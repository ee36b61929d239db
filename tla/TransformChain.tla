--------------------------- MODULE TransformChain ---------------------------
(***************************************************************************)
(* A transformation that is built step by step with translate(), rotate()  *)
(* and scale(), beside the product of the same steps.                      *)
(***************************************************************************)
EXTENDS AffineTransform

CONSTANTS
    Shifts, Factors,    \* what the steps translate and scale by
    MaxSteps

VARIABLES
    mTransform,
    product,            \* history: the steps as transformations, composed
    steps               \* history: their number

chainVars == <<mTransform, product, steps>>

ChainInit ==
    /\ mTransform = Identity
    /\ product = Identity
    /\ steps = 0

Step(result, factor) ==
    /\ steps < MaxSteps
    /\ steps' = steps + 1
    /\ mTransform' = result
    /\ product' = Compose(product, factor)

ChainNext ==
    \/ \E t \in Shifts : Step(Translate(mTransform, t), SetTranslation(t))
    \/ \E s \in Factors : Step(Scale(mTransform, s), SetScale(s))
    \/ \E r \in Turns : Step(Rotate(mTransform, r), SetRotation(r))

ChainSpec == ChainInit /\ [][ChainNext]_chainVars

-----------------------------------------------------------------------------

\* What the comments of the class say of the three functions ("Applies rotation
\* to this transformation") and of the constructor that composes: to apply a
\* step is to compose with it. rotate() does something else.
StepsCompose == mTransform = product
=============================================================================
