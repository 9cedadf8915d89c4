\* Six clients and their relatives.
CONSTANTS
  RandomLen = 2
  MaxRecorded = 160
  MaxRetained = 100
  AgentTokens <- Agents
  AgentFamily <- Truth
  HuffmanCode <- Huffman
  StaticTable <- Static
  MaxString = 16
  MaxHeaders = 12
  EntryOverhead = 32
  DefaultMax = 4096
  AbsoluteMax = 1048576
  PeerOverhead = 32
  PeerMax = 4096
  CipherNames = {4865, 4866, 4867, 49195, 49199, 47}
  BoringExtensions <- Boring
  BoringCiphers <- BoringDefault
  Scenes <- AllScenes
SPECIFICATION Spec
INVARIANTS
  TypeOK
  DecoderFollowsTheClient
  RotationKeepsJa4
  SameClientIsRecognised
  MismatchTellsTheTruth
  UpstreamHeadersAreOurs
  EmulationReproduces
  RowsShowTheClient
\* A connection ends.
CHECK_DEADLOCK FALSE
