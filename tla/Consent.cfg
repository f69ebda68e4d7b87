SPECIFICATION Spec
CONSTANTS
  Samples = {1, 2, 3, 9}
  Lifetime = 2
  MaxSafe = 8
  None = None
  Nodes = {n1, n2}
  Contents <- MCContents
  MaxBytes = 2
  MaxChanges = 2
  MaxAdmitted = 2
SYMMETRY ConsentSymmetry
PROPERTY AdmitsOneVersion
PROPERTY DeadStaysDead
