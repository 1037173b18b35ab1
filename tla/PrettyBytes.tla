----------------------------- MODULE PrettyBytes -----------------------------
(***************************************************************************)
(* pretty_bytes::prettyTo: the number a text such as 2M stands for, in an  *)
(* unsigned type of limited width.  A text is the number its digits spell  *)
(* and its suffix; the suffix "?" stands for whatever the regular          *)
(* expression does not match.                                              *)
(***************************************************************************)
EXTENDS Integers

CONSTANTS
  Base,       \* BASE, 1024 in the code
  Word,       \* 2^w, more than Base^5; 2^64 for the programs of the repository
  MaxNumber   \* bound on the numbers spelt

Exponent == [none |-> 0, K |-> 1, M |-> 2, G |-> 3, T |-> 4, P |-> 5]

VARIABLES text, pc, result

vars == <<text, pc, result>>

\* Mutant of power: an odd exponent is rounded down.
powerEven(x, p) ==
  LET f[q \in 0 .. p] == IF q = 0 THEN 1 ELSE IF q = 1 THEN x ELSE (f[q \div 2] * f[q \div 2]) % Word
  IN  f[p]

\* x to the power of p by squaring.
power(x, p) ==
  LET f[q \in 0 .. p] == IF q = 0 THEN 1
                         ELSE IF q = 1 THEN x
                         ELSE LET square == (f[q \div 2] * f[q \div 2]) % Word
                              IN  IF q % 2 = 0 THEN square ELSE (x * square) % Word
  IN  f[p]

Init ==
  /\ text \in [number : 0 .. MaxNumber, suffix : DOMAIN Exponent \cup {"?"}]
  /\ pc = "match" /\ result = 0

NoMatch == pc = "match" /\ text.suffix = "?" /\ pc' = "threw" /\ UNCHANGED <<text, result>>

\* A number too large for the type is read as the type's maximum; the stream's failure is
\* not looked at.
Read ==
  /\ pc = "match" /\ text.suffix # "?"
  /\ result' = IF text.number < Word THEN text.number ELSE Word - 1
  /\ pc' = "scale"
  /\ UNCHANGED text

Scale ==
  /\ pc = "scale"
  /\ result' = (result * power(Base, Exponent[text.suffix])) % Word
  /\ pc' = "returned"
  /\ UNCHANGED text

Next == NoMatch \/ Read \/ Scale

Spec == Init /\ [][Next]_vars
-----------------------------------------------------------------------------
\* What a suffix stands for: the powers of the base.
Unit == [none |-> 1, K |-> Base, M |-> Base * Base, G |-> Base * Base * Base,
         T |-> Base * Base * Base * Base, P |-> Base * Base * Base * Base * Base]

\* A text whose value fits the type is converted to it, with every suffix and up to the
\* last value that fits.  (Beyond it the result wraps, without an error.)
ConversionIsExact ==
  pc = "returned" =>
    LET value == text.number * Unit[text.suffix] IN value < Word => result = value

=============================================================================
