SPECIFICATION Spec
CONSTANTS
  Q = 4
  MaxUri = 130
  MaxField = 130
  MaxCert = 16
  MaxPort = 65535
  MaxLabels = 4
  MaxName = 4
  Colon = 3
  Comma = 4
  Open = 5
  Close = 6
  Quote = 7
  Backslash = 8
  Newline = 9
  Control = 10
  LetterN = 2
  Tab = 12
  LetterT = 1
  DerSeq = 12
  NoCa = ""
  DefaultPort <- MCDefaultPort
  PortOf <- MCPortOf
  NameBytes <- MCNames
  RowBytes <- MCRowNames
  Blanks <- MCBlanks
  NameMarks <- MCMarks
  GoodLabels <- MCLabels
  Settings <- MCSettings
  Servers <- MCServers
  Asks <- MCAsks
  Others <- MCOthers
  Raw <- MCRaw
CHECK_DEADLOCK FALSE
INVARIANTS TypeOK EntriesAreFields LastFieldWins CutKeepsLogin EnrolmentWorks LoginMatches EndpointMatches CertificateMatches CertificatesWhole
PROPERTY LoopsMoveOn
