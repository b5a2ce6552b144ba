\* Documents of one to three lines of two texts.
SPECIFICATION DiffSpec
CONSTANTS
  MaximumDiffLines = 8
  MaximumInputLines = 6
  Texts = {1, 2}
  MaxLines = 3
CHECK_DEADLOCK FALSE
INVARIANT DiffLeads
