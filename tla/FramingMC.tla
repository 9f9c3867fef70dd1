------------------------------ MODULE FramingMC ------------------------------
(* Bytes of three bits.  The short bodies combine to checksums that are ESC, CR,
   LF or none of them; in the long ones the fourth byte is any of the three, and
   what is before it may end with its own checksum. *)
EXTENDS Framing
MCBits == 0 .. 2
MCESC == {2}
MCCR == {0}
MCLF == {1}
Short == {<<{0, 1, 2}, last>> : last \in {{0, 1, 2}, {1, 2}, {0, 2}, {0, 1}}}
Long ==
  {<<b[1], b[2], b[3], count, {0, 1}>> :
     b \in [1 .. 3 -> {{}, {0, 1, 2}}], count \in {MCESC, MCCR, MCLF}}
MCBodies == Short \cup Long
MCDamages == SUBSET MCBits
=============================================================================
