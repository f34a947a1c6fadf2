\* One task that runs cat.
SPECIFICATION CatSpec
CONSTANTS
  Threads = {t1}
  Length = 2
  Lengths = {3}
  MaxDrift = 0
PROPERTIES
  CatEnds
