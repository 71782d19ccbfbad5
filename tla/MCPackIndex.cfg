\* All shapes with Nu, Nt, Nv in 1..2, Nk, Nj, Ni in 1..3, starts in 0..1.
CONSTANTS
  MaxComp = 2
  MaxCells = 3
  MaxStart = 1
  Zero = Zero
  Garbage = Garbage
SPECIFICATION Spec
INVARIANT TypeOK
INVARIANT PackRowMajor
