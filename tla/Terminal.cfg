SPECIFICATION Spec
CONSTANTS
  Glyphs <- MCGlyphs
  Typists <- MCTypists
  Prompts <- MCPrompts
  Suggestions <- MCSuggestions
  Widths <- MCWidths
  Lines <- MCLines
  Empty <- MCEmpty
  Rows = 6
  maxLineLength = 3
  Gap = 1
  max = 2
 
PROPERTY HistoryIsLatest
CHECK_DEADLOCK FALSE
