CONSTANTS
  Base = 32
  U8 = 1
  U16 = 1
  U24 = 1
  U32 = 1
  U48 = 1
  U64 = 1
  IvLen = 2
  TagLen = 1
  ContentTypes = {1, 2, 3}
  ApplicationData = 3
  RecordVersion = 3
  LegacyVersions = {1, 2}
  DtlsVersion = 2
  OcspType = 1
  NamedCurve = 3
  StatusRequest = 2
  SignatureAlgorithms = 5
  ForbiddenInRequest = {0, 3}
  ModernSchemes = {1, 2}
  Dot = 10
  Hyphen = 11
  Control = 12
  Star = 13
  UpperCase = 2
  LowerCase = 1
  MaxLabel = 3
  MaxOctets = 4
  TagBoolean = 1
  TagInteger = 2
  TagBits = 3
  TagOctets = 4
  TagNull = 5
  TagOid = 6
  TagUtf8 = 7
  TagPrintable = 8
  TagIa5 = 9
  TagSequence = 10
  TagSet = 11
  TagUtcTime = 12
  TagTime = 13
  TagImplicit = 14
  TagContext = 21
  MaxCertificate = 200
  MaxExtensions = 2
  MaxListed = 2
  BitsPerByte = 5
  NotUtf8 = 31
  UtcTimeLen = 2
  TimeLen = 3
  Zulu = 3
  Digits = {0, 1}
  OidCommonName = 1
  BasicConstraints = 2
  KeyUsage = 3
  SubjectAltName = 4
  CertificatePolicies = 5
  PolicyMappings = 6
  ExtendedKeyUsage = 7
  NameConstraints = 8
  PolicyConstraints = 9
  InhibitAnyPolicy = 10
  CrlDistributionPoints = 11
  AuthorityInfoAccess = 12
  Sign <- MCSign
  OidRsa = 13
  OidEc = 14
  OidP256 = 15
  OidX25519 = 16
  OidX448 = 17
  OidEd25519 = 18
  OidMlDsa = 19
  ScalarLen = 2
  X448Len = 3
  MlDsaLen = 4
  Order = 600
  Points <- MCPoints
  SmallModulus = 32
  ByteValues = 256
  Sextets = 64
  LineLen = 8
  Blank = "blank"
  ControlMark = "control"
  Aes = "aes"
  AesTweak = "aes tweak"
  Camellia = "camellia"
  Aria = "aria"
  Des = "des"
  BlockLen <- MCBlockLen
  Encipher <- MCEncipher
  Decipher <- MCDecipher
  CounterLen = 2
  Reduction <- MCReduction
  Feedback = 5
  CcmNonces = {1, 2}
  AadFlag = 16
  MacFlag = 4
  LongAad = 30
  LongAadMark <- MCLongAadMark
  UsizeLen = 2
  StreamLen = 2
  StreamBlock <- MCStreamBlock
  OneTimeMac <- MCOneTimeMac
  HashLen <- MCHashLen
  Hash <- MCHash
  DigestInfo <- MCDigestInfo
  MinPadding = 2
  PssZeros = 3
  PssTrailer = 28
  LimbBits = 3
  MinEntropy = 2
  ReseedInterval = 2
  Hmac <- MCHmac
  FirstKey <- MCFirstKey
  FirstValue <- MCFirstValue
  FastLens = {2, 3}
SPECIFICATION Spec
PROPERTIES RoundTrip OneEncoding NoncesDiffer ReassembledExactly HostnameExact ArithmeticExact
CHECK_DEADLOCK FALSE
