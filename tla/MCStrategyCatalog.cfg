CONSTANTS
  momentum1 = momentum1
  momentum2 = momentum2
  other1 = other1
  own = own
  foreign = foreign
  r1 = r1
  c1 = c1
  low = low
  high = high
  r2 = r2
  None = None
  Versions <- MCVersions
  StrategyOf <- MCStrategyOf
  Rules <- MCRules
  MeaningOf <- MCMeaningOf
  Offers <- MCOffers
  Events <- MCEvents
  Vectors <- MCVectors
  FactsOf <- MCFactsOf
  AsofOf <- MCAsofOf
  Recorders <- MCRecorders
  ScopeOf <- MCScopeOf
  Identities = {backtest}
  Files <- MCFiles
  OwnerOf <- MCOwnerOf
  Contents = {c1, c2}
  MaxTime = 1
CONSTRAINT MCBound
SYMMETRY MCSymmetry
SPECIFICATION CatalogSpec
INVARIANT CatalogTypeOK
INVARIANT SignalsReproducible
PROPERTY DecisionIsStable
INVARIANT AnswersAreStored
PROPERTY ArtifactOfItsCall
