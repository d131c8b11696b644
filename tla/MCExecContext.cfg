SPECIFICATION ContextSpec
CONSTANTS
  Regs = {r1, r2}
  Numbers = {0, 1}
  Types = {int, float}
  NoValue = NoValue
  Bases = {var}
  MaxDisp = 2
  MaxLength = 2
INVARIANTS InverseExact MemoryDisjoint MemoryInverseSound
