--------------------------- MODULE SafeMathCalls ---------------------------
(***************************************************************************)
(* Checked arithmetic as contracts call it, with any operands.  A state is *)
(* one choice of operands, of which a function takes the first ones.       *)
(***************************************************************************)
EXTENDS SafeMath, Inputs

Operands(a, b, m) == [kind |-> "arithmetic", a |-> a, b |-> b, m |-> m]

CallsNext ==
    \/ input = Nothing /\ \E a, b, m \in Word : input' = Operands(a, b, m)
    \/ input # Nothing /\ input' = Nothing

CallsSpec == Init /\ [][CallsNext]_input

\* Checked arithmetic returns the exact integer, or reverts just when that is
\* not a word: sums, products, powers, roots, shifts, modular products and
\* inverses, and the signed operations (SafeMath.ts, SafeMathI128.ts).
ArithmeticIsExact ==
    input.kind = "arithmetic" =>
        /\ WordsExact(input.a, input.b)
        /\ input.b = 0 => RootAndShiftsExact(input.a)
        /\ ModularExact(input.a, input.b, input.m)
        /\ input.a < 2 * HalfRange /\ input.b < 2 * HalfRange =>
              SignedExact(input.a - HalfRange, input.b - HalfRange)
=============================================================================
