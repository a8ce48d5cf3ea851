CONSTANTS
  Wish = {"w1", "w2", "w3"}
  NoWish = "no wish"
  Mconfig = {"m1", "m2", "m3"}
  Faulty = {"m3"}
  Rejected <- MCRejected
  Inconsistent <- MCInconsistent
  Raising <- MCRaising
  Missing = Missing
  Empty = Empty
SPECIFICATION Spec
INVARIANTS
  FailureStopsBob
