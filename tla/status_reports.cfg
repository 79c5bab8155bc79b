SPECIFICATION FairSpec
CONSTANTS
  Workers = {w1, w2}
  Main = w1
  Reports = {r1, r2}
  Configurations <- Written
INVARIANT CollectorHasLibrary
PROPERTIES LibraryStays ImplementsChannel
