SPECIFICATION Spec
CONSTANTS
  BandOrder <- Bands
  BandHeight <- Height
  DefaultRects <- NewRects
  TextEditable = {"label"}
  Sample <- TwoLabels
  SettingsChoices <- OnOff
  Deltas <- Moves
  Points <- Corners
  PanelValues <- Negative
  Texts = {"typed"}
  Threshold = 1
  MaxEdits = 2
  None = None
INVARIANTS TypeOK GestureIsOneStep OppositeCornerStays
PROPERTIES GesturesStayOnPage ToolsDoAsNamed
