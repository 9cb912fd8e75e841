\* Two pages and three edits: a write in flight, one that waits, and the other page's;
\* two fetches, of either page.
SPECIFICATION Spec
CONSTANTS
  Page = {p1, p2}
  MaxEdits = 3
  MaxGets = 2
  MaxFails = 1
SYMMETRY Symmetry
INVARIANT NewestPersistedLast
PROPERTY NoEditUndone
