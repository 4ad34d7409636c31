SPECIFICATION Spec
CONSTANTS
  o1 = o1
  o2 = o2
  a1 = a1
  s1 = s1
  s2 = s2
  u1 = u1
  Owners <- MCOwners
  Assets <- MCAssets
  Services <- MCServices
  Users <- MCUsers
  AssetOf <- MCAssetOf
  FirstOwner <- MCFirstOwner
  OwnerOf <- MCOwnerOf
  Uploading = {s1}
  Stamps = {t1, t2}
  Live = Live
  Requests = {r1, r2, r3, r4}
  NoRow = NoRow
SYMMETRY Symmetry
INVARIANTS
  TitleFrozen
PROPERTIES
  RestoredTogether
  CascadeSparesPurged
  OwnerTakesAll
