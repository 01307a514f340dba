\* A zone of seven units, with pages of two and banks of four, and a table of four
\* segments: small enough to fill.
SPECIFICATION Spec
CONSTANTS
  MaxBlocks = 4
  Bank = 4
  Page = 2
  RamBase = 3
  RamTop = 10
  Kinds = {"Code"}
  Owners = {"p"}
  Sizes = {1, 2, 4}
INVARIANT HeldDisjoint
