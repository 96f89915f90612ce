------------------------- MODULE CompressedTransform ------------------------
(***************************************************************************)
(* Transforms as the GPU gets them (CompressedTransform.h).  A component   *)
(* of a rotation, a float from -1 to 1, is the integer n for n / Unit; one *)
(* of the three that are compressed, i, stands for all.  Position and      *)
(* scale are copied and left out.                                          *)
(***************************************************************************)
EXTENDS Integers

CONSTANT Unit  \* the scale: Unit stands for 1.0

ASSUME UnitAssumption == Unit \in Nat \ {0}

UINT16_MAX == 65535

Rotation == [w : -Unit .. Unit, i : -Unit .. Unit]

\* compressFloat(): fmod(value * 0.5 + 0.5, 1) * UINT16_MAX, truncated
CompressFloat(n) == (((n + Unit) % (2 * Unit)) * UINT16_MAX) \div (2 * Unit)

\* decompressFloat(), as a multiple of 1 / UINT16_MAX
DecompressFloat(c) == 2 * c - UINT16_MAX

\* the version and the sign of w share 16 bits; the version keeps ten of them
Compressed(rot, version) ==
  [ver |-> version % 2 ^ 10, positive |-> rot.w > 0, quat |-> CompressFloat(rot.i)]

\* the value that is restored is at most one step, 2 / UINT16_MAX, too small
Restores(c, n) == n * UINT16_MAX - DecompressFloat(c) * Unit \in 0 .. 2 * Unit - 1
=============================================================================
