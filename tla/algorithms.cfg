\* Every sequence of tags with up to three cells and two <tr> (a cell outside a
\* row opens one more), in order or not; every two texts of up to four characters,
\* of which three are compared; up to eleven pages in up to six requests.
SPECIFICATION Spec
CONSTANTS
  MaxCells = 3
  MaxRows = 2
  CellTags <- Tags
  Readings <- ShortTexts
  Space = " "
  MaxCompared = 3
  PageCounts = {1, 2, 3, 4, 5, 7, 11}
  Concurrencies <- Settings
INVARIANTS TextSurvives SpansPointHome DistanceIsEdits AgreementIsExact ShardsAreFair
CHECK_DEADLOCK FALSE
