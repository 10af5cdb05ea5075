SPECIFICATION AccountsSpec
CONSTANTS
  People = {ana, bia, caio}
  Slots = {s1, s2}
SYMMETRY Alike
PROPERTY OwnerStays
