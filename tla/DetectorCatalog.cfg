SPECIFICATION Spec
CONSTANTS
  c1 = c1
  c2 = c2
  burst = burst
  any = any
  half = half
  NoFile = NoFile
  Files <- MCFiles
  Contents <- MCContents
  Size <- MCSize
  Readable <- MCReadable
  Stated <- MCStated
  Shipped <- MCShipped
  Callers <- MCCallers
  MaxEdits = 2
INVARIANTS TypeOK StampMeansLoaded
PROPERTIES AnswersAreFresh CatchesUp
