CONSTANTS
  c1 = c1
  m1 = m1
  m2 = m2
  Absent = Absent
  Change <- MCChange
  Remover <- MCRemover
  Session <- MCSession
  Dashed <- MCDashed
  Assignment <- MCAssignment
  MaxCommits = 2

SPECIFICATION Spec

INVARIANTS
  TypeOK
  OneToOne
PROPERTIES
  WorkKept

SYMMETRY MCSymmetry
