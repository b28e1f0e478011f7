CONSTANTS
  d1 = d1  d2 = d2  g1 = g1  g2 = g2  g3 = g3
  b1 = b1  b2 = b2  b3 = b3  k1 = k1  k2 = k2
  nofile = nofile  nodir = nodir
  Dirs <- OneDir
  Names <- MCNames
  Files <- MCFiles
  Blocks <- MCBlocks
  Backings <- MCBackings
  NoFile <- nofile
  NoDir <- nodir
  NB = 1
  CreateFlags <- MCFlags
  CreateBacking <- MCBacking
  UB_ERASE = FALSE
SPECIFICATION SpecRace
PROPERTY NoUnlockedRace
