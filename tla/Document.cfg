SPECIFICATION Spec
CONSTANTS
  Ids = {a, b, c}
  Saved = {a}
  Tags = {drag}
  HistoryLimit = 2
  MaxEdits = 4
  MaxMoves = 3
  MaxSaves = 2
  None = None
INVARIANTS EditorShowsItsTemplate UndoIsChronological OneTemplatePerDocument
PROPERTIES UnsavedEditsSurvive
