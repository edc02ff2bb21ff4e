SPECIFICATION BitmapSpec
CONSTANTS
    MAX_CELL_BITS = 5
    MaxIndex = 12
    EmptyCell = EmptyCell
INVARIANTS
    MarksAreExact
