\* Every command and way to fail, transfers that fail, links that go down.
SPECIFICATION FastbootSpec
CONSTANT MaxTransfers = 2
INVARIANTS
  FastbootTypeOK
  OneTransfer
  AnswerIsFirstVerdict
  DownloadIsWhole
PROPERTY ServesConnection
