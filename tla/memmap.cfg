SPECIFICATION Spec
CONSTANTS
  Objs = {1, 2}
  Files = {f1}
  Bytes = {0, 1}
  Zero = 0
  NoObj = NoObj
  NoFile = NoFile
  Threads = {t1, t2}
  Granule = 2
  MaxFile = 4
  MaxCalls = 3
  Offsets = {0, 2, 3}
  Contents <- MCContents
  Shapes <- MCShapes
  Mistied = FALSE
INVARIANTS TypeOK TiesFollowMemory CleanIsSaved
PROPERTIES ImplementsWriteBack
