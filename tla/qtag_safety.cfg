SPECIFICATION Spec
CONSTANTS
  None = None
  Assets = {a1, a2}
  Orders = {o1, o2}
  Sessions = {s1, s2}
  Chips = {u1}
  Keys = {}
  Edits = {"READY_FOR_ENCODING"}
  Calls = {c1, c2}
  MaxGrants = 1
INVARIANTS
  ReservedTogether
  ActivatedIsComplete
  TagsAreTrue
  OneOrderPerAsset
SYMMETRY Alike
