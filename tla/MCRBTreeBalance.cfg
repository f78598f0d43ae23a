CONSTANTS
  Keys = {1, 2, 3, 4, 5, 6}
SPECIFICATION TreeSpec
INVARIANTS IsBalanced
