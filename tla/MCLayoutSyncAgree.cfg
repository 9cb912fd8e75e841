\* Two edits, nothing fails, every event arrives, two fetches are out at a time.
SPECIFICATION FairSpec
CONSTANTS
  Page = {p1, p2}
  MaxEdits = 2
  MaxGets = 2
  MaxFails = 0
PROPERTY PagesAgree
