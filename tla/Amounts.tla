------------------------------- MODULE Amounts -------------------------------
(***************************************************************************)
(* Decimal amounts, as the SDK compares them (amount-utils.ts,             *)
(* intent/constraints.ts) and as the backend turns them into base units    *)
(* (services/chains/solana/amount.ts).  A decimal string is the integer    *)
(* its digits spell and the number of digits after its point: "1.50" is    *)
(* [digits |-> 150, frac |-> 2].  A string that is no decimal has frac -1. *)
(***************************************************************************)
EXTENDS Integers

PowerOf10[n \in Nat] == IF n = 0 THEN 1 ELSE 10 * PowerOf10[n - 1]

Malformed == [digits |-> 0, frac |-> -1]

IsDecimal(a) == a.frac >= 0

\* A parsed value has no trailing zeros after its point.
ParseDecimal(a) ==
    LET s == CHOOSE s \in 0..a.frac :
                 /\ a.digits % PowerOf10[a.frac - s] = 0
                 /\ \A r \in 0..(s - 1) : a.digits % PowerOf10[a.frac - r] # 0
    IN  [int |-> a.digits \div PowerOf10[a.frac - s], scale |-> s]

Larger(m, n) == IF m >= n THEN m ELSE n

ScaleDecimal(d, scale) == d.int * PowerOf10[scale - d.scale]

CompareDecimals(a, b) ==
    LET scale == Larger(a.scale, b.scale)
        diff == ScaleDecimal(a, scale) - ScaleDecimal(b, scale)
    IN  IF diff = 0 THEN 0 ELSE IF diff > 0 THEN 1 ELSE -1

Abs(n) == IF n < 0 THEN -n ELSE n

WithinRelativeTolerance(expected, actual, tolerance) ==
    LET scale == Larger(expected.scale, actual.scale)
        e == ScaleDecimal(expected, scale)
        a == ScaleDecimal(actual, scale)
    IN  /\ tolerance.int >= 0
        /\ IF e = 0 THEN a = 0
           ELSE Abs(a - e) * PowerOf10[tolerance.scale] <= Abs(e) * tolerance.int

DefaultTolerance == [int |-> 1, scale |-> 4]

\* Base units written as a decimal of the token.
FormatUnits(units, decimals) == [digits |-> units, frac |-> decimals]

\* A constraint is a record: its field is eq, a plain value, or some of the bounds.
EvaluateConstraint(constraint, actual) ==
    LET Value(f) == constraint[f]
        Compared(f) == CompareDecimals(ParseDecimal(actual), ParseDecimal(Value(f)))
    IN  /\ IsDecimal(actual)
        /\ \A f \in DOMAIN constraint : IsDecimal(Value(f))
        /\ "eq" \in DOMAIN constraint =>
               WithinRelativeTolerance(ParseDecimal(Value("eq")), ParseDecimal(actual),
                                       DefaultTolerance)
        /\ "gte" \in DOMAIN constraint => Compared("gte") >= 0
        /\ "lte" \in DOMAIN constraint => Compared("lte") <= 0
        /\ "gt" \in DOMAIN constraint => Compared("gt") > 0
        /\ "lt" \in DOMAIN constraint => Compared("lt") < 0

\* A build wants a plain amount without a sign.
IsExactAmount(constraint) ==
    /\ DOMAIN constraint = {"eq"}
    /\ IsDecimal(constraint.eq)
    /\ constraint.eq.digits >= 0

\* More digits than the token has is an error, even if they are zeros.
FitsPrecision(a, decimals) == a.frac <= decimals

\* Faulty variant: the digits after the point are not filled up with zeros.
ToBaseUnitsUnpadded(a, decimals) == a.digits

ToBaseUnits(a, decimals) == a.digits * PowerOf10[decimals - a.frac]
==============================================================================
