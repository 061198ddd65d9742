SPECIFICATION AccessSpec
CONSTANTS
  NumCourses = 3
  Titles = {x, y, z, w}
  Requests = {r1, r2}
  MaxRequests = 2
  Limit = 1
  Attachments = {file}
  Tasks = {t1, t2}
  MaxTasks = 3
  MaxFaults = 1
INVARIANTS WalkComplete TitlesUnique AccessBacked AttachmentsBacked
SYMMETRY Symmetry
CONSTRAINT OneInterest
CHECK_DEADLOCK FALSE
