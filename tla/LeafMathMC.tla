------------------------------ MODULE LeafMathMC ------------------------------
(***************************************************************************)
(* LeafCases with the one property that is about bits.                     *)
(***************************************************************************)
EXTENDS LeafCases, Bitwise

(* Where the slot count is a power of two the code masks the band; the     *)
(* remainder is the same number.                                           *)
MaskIsRemainder ==
  LET need  == Place(req)
      count == leaf \div need
  IN  need <= leaf /\ (count & (count - 1)) = 0 =>
        Offset(band, need) = (band & (count - 1)) * need
=============================================================================
