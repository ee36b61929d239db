--------------------------- MODULE AffineTransform ---------------------------
(***************************************************************************)
(* Transformations of the plane. Numbers are integers and angles quarter   *)
(* turns, so that sines and cosines are exact; an inverse is taken of      *)
(* transformations that neither stretch nor shrink areas, which is where   *)
(* it is exact, too.                                                       *)
(***************************************************************************)
EXTENDS Integers

Vector == Int \X Int
Transform == [a : Int, b : Int, c : Int, d : Int, tx : Int, ty : Int]

Turns == 0 .. 3
sinf(r) == CASE r = 0 -> 0 [] r = 1 -> 1 [] r = 2 -> 0 [] OTHER -> -1
cosf(r) == CASE r = 0 -> 1 [] r = 1 -> 0 [] r = 2 -> -1 [] OTHER -> 0

\* The set* functions, from the most general one.
SetTranslationRotationScale(t, r, s) ==
    [a |-> s[1] * cosf(r), b |-> s[1] * sinf(r),
     c |-> s[2] * (-sinf(r)), d |-> s[2] * cosf(r), tx |-> t[1], ty |-> t[2]]
SetTranslation(t) == [a |-> 1, b |-> 0, c |-> 0, d |-> 1, tx |-> t[1], ty |-> t[2]]
SetRotation(r) ==
    [a |-> cosf(r), b |-> sinf(r), c |-> -sinf(r), d |-> cosf(r), tx |-> 0, ty |-> 0]
SetScale(s) == [a |-> s[1], b |-> 0, c |-> 0, d |-> s[2], tx |-> 0, ty |-> 0]
Identity == SetTranslation(<<0, 0>>)

\* transform(): where a point goes.
Apply(T, v) == <<T.a * v[1] + T.c * v[2] + T.tx, T.b * v[1] + T.d * v[2] + T.ty>>

\* The constructor that takes a parent t1 and a transformation t2.
Compose(t1, t2) ==
    [a |-> t2.a * t1.a + t2.b * t1.c, b |-> t2.a * t1.b + t2.b * t1.d,
     c |-> t2.c * t1.a + t2.d * t1.c, d |-> t2.c * t1.b + t2.d * t1.d,
     tx |-> t2.tx * t1.a + t2.ty * t1.c + t1.tx, ty |-> t2.tx * t1.b + t2.ty * t1.d + t1.ty]

Translate(T, t) ==
    [a |-> T.a, b |-> T.b, c |-> T.c, d |-> T.d,
     tx |-> T.tx + (T.a * t[1] + T.c * t[2]), ty |-> T.ty + (T.b * t[1] + T.d * t[2])]

Scale(T, s) ==
    [a |-> T.a * s[1], b |-> T.b * s[1], c |-> T.c * s[2], d |-> T.d * s[2],
     tx |-> T.tx, ty |-> T.ty]

\* The four assignments are made one after the other: those of c and d read the
\* new a and b.
Rotate(T, r) ==
    LET a == T.a * cosf(r) + T.c * sinf(r)
        b == T.b * cosf(r) + T.d * sinf(r)
    IN [a |-> a, b |-> b,
        c |-> T.c * cosf(r) - a * sinf(r), d |-> T.d * cosf(r) - b * sinf(r),
        tx |-> T.tx, ty |-> T.ty]

Determinant(T) == T.a * T.d - T.b * T.c
Unimodular(T) == Determinant(T) \in {1, -1}

\* The code divides by the determinant; here it is its own reciprocal.
Inverted(T) ==
    LET det == Determinant(T) IN
    [a |-> T.d * det, b |-> -(T.b * det), c |-> -(T.c * det), d |-> T.a * det,
     tx |-> det * (T.c * T.ty - T.d * T.tx), ty |-> det * (T.b * T.tx - T.a * T.ty)]
=============================================================================
