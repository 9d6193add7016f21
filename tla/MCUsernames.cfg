SPECIFICATION NamesSpec
CONSTANTS
  ann = ann
  bob = bob
  cyn = cyn
  g1 = g1
  r1 = r1
  Users = {ann, bob, cyn}
  Groups = {g1}
  Owner <- MCOwner
  Texts <- MCTexts
  NameChars <- MCNameChars
  LowerCase <- MCLowerCase
  MaxSearchResults = 1
  Requests = {r1}
SYMMETRY MCSymmetry
INVARIANTS
  SearchIsByPrefix
PROPERTIES
  AddedMembersBoreTheName
