CONSTANTS
  NoRow = NoRow
  Rows <- TwoRows
  Scenes <- AllScenes
  InFlight <- Flights
SPECIFICATION Spec
INVARIANT TypeOK
INVARIANT ListShowsOwnWrites
INVARIANT RequestsNameTheirRow
PROPERTY RejectClosesItsOwn
