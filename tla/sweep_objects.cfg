SPECIFICATION FairSpec
INVARIANT TypeOK
INVARIANT SweepExposes
PROPERTY ReportIsExact
PROPERTY ExposureFollows
PROPERTY DriftReported
CONSTANTS
  Absent = Absent
  Sessions = 1
  Dashboard = {1}
  Flagged = {1}
  Every = 2
  MaxFaults = 2
