SPECIFICATION Spec
CONSTANTS
  p1 = p1 p2 = p2 p3 = p3
  i1 = i1 i2 = i2 i3 = i3
  n1 = n1 n2 = n2 n3 = n3
  id1 = id1 id2 = id2 id3 = id3
  Workers = {w1, w2}
  Paths <- OwnPaths
  NameOf <- OwnNameOf
  Inodes <- OwnInodes
  InodeOf <- OwnInodeOf
  BuildIdOf <- OwnBuildIdOf
  FileChoices <- OwnFiles
  FDs = {3, 4}
  NoPath = nopath
  NoBuildId = noid
  StripOnly = FALSE
  CheckOnly = FALSE
  SaveWithPath = FALSE
INVARIANTS TypeOK   
