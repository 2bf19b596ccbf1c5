------------------------------- MODULE Hlc -------------------------------
(***************************************************************************)
(* The hybrid logical clock as pure functions (hlc.go).  A clock is a pair *)
(* of a wall-clock reading in milliseconds and a counter of LogicalSize    *)
(* values (2^16 in the code).  A timestamp is the fixed-width hexadecimal  *)
(* text of the pair, which is compared as text: what matters of it is its  *)
(* place in that order, a natural number.                                  *)
(***************************************************************************)
EXTENDS Naturals

CONSTANT LogicalSize

ASSUME LogicalAssumption == LogicalSize \in Nat /\ LogicalSize > 1

Clock == [physical : Nat, logical : 0 .. LogicalSize - 1]

\* newHLC
Zero == [physical |-> 0, logical |-> 0]

\* encodeHLC
Encode(c) == c.physical * LogicalSize + c.logical

\* (mutant) the counter wraps and the physical part is left alone.
NextLogicalWraps(c) == [c EXCEPT !.logical = (@ + 1) % LogicalSize]

\* (mutant) the counter never wraps.
NextLogicalNoWrap(c) == [c EXCEPT !.logical = @ + 1]

\* logical++, with the overflow into the physical part.
NextLogical(c) ==
  IF c.logical + 1 = LogicalSize
  THEN [physical |-> c.physical + 1, logical |-> 0]
  ELSE [c EXCEPT !.logical = @ + 1]

\* Now: the clock whose timestamp is issued when the wall clock shows `wall`.
Tick(c, wall) ==
  IF wall > c.physical THEN [physical |-> wall, logical |-> 0] ELSE NextLogical(c)

\* Observe: the clock once it has seen the remote clock r.
Merge(c, r) ==
  CASE r.physical > c.physical -> r
    [] r.physical = c.physical /\ r.logical > c.logical -> [c EXCEPT !.logical = r.logical]
    [] OTHER -> c
=============================================================================
