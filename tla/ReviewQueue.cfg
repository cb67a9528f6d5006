SPECIFICATION Spec
CONSTANTS
  d1 = d1  d2 = d2  ann = ann  bob = bob  m1 = m1
  NoOne = NoOne  Someone = Someone  Torn = Torn
  Docs <- TwoDocs
  Reviewers <- TwoReviewers
  Measurements <- OneMeasurement
  MaxRows = 2
  MaxEdits = 1
SYMMETRY Symmetric
INVARIANTS
  OneOpenRow
  ClaimedWorkIsAnnotated
PROPERTY ReviewsAreNeverLost
CHECK_DEADLOCK FALSE
