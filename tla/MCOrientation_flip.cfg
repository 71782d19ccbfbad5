\* Every signed permutation, built in every order, on 3x3x3 blocks.
CONSTANTS
  NCells = 3
  MaxComp = 1
SPECIFICATION Spec
INVARIANT TransformMatchesOrientation
