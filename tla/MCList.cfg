CONSTANTS
  L1 = L1
  L2 = L2
  E1 = E1
  E2 = E2
  E3 = E3
  Null = Null
  NoList = NoList
  Lists <- MCLists
  Ents <- MCEnts
  NoStr = NoStr
  StrLen <- MCStrLen
  BufSizes = {1, 2, 3, 4}
  SizeBits = 8
  StaleRemove = FALSE
SPECIFICATION Spec
SYMMETRY ListSymmetry
INVARIANT TypeOK
INVARIANT NumEntsMatchesReachable
INVARIANT LinksConsistent
INVARIANT TraversalVisitsStayers
INVARIANT CatMatchesReference
PROPERTY IterYieldsMember
PROPERTY ListRefinesSeq
