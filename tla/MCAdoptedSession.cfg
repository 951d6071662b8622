CONSTANTS
  Hook = {h1, h2}
  Take = {t1}
  MaxOffers = 2
  MaxEscapes = 1
  MaxRestarts = 1
SPECIFICATION SpecOfEither
INVARIANTS OneOfferOnce NothingStacksInOrder AskingHasAnAsk
PROPERTIES TakeoverSparesTheTurn OnlyAGateRevives
SYMMETRY Symmetry
