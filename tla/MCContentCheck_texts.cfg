CONSTANTS
  c1 = c1
  c2 = c2
  Checks = {c1, c2}
  t1 = t1
  t2 = t2
  t3 = t3
  Unset = Unset
  Texts <- MCTexts
  Findings <- MCFindings
  Tables <- MCTables
  Labels <- MCLabels
  Knows <- MCKnows
  Length <- MCLength
SPECIFICATION FairSpec
INVARIANTS
  IInv
  PassedInEveryPart
  DescribedByOneTable
PROPERTIES
  LockServed
