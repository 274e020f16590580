SPECIFICATION CliSpec
CONSTANTS
  c1 = c1
  c2 = c2
  Absent = Absent
  Blank = Blank
  Ghost = Ghost
  Retries = 3
  Clis = {c1, c2}
PROPERTIES FirstSignalLetsTheRunEnd
