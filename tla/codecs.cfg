SPECIFICATION Spec
CONSTANTS
  MaxText = 5
  MaxNested = 6
  MaxArray = 4
  MaxLexeme = 4
  MaxBase64 = 4
  MaxPieces = 4
  MaxHead = 7
  MaxHeaders = 3
  MaxLine = 6
  SparseSlack = 0
  MaxHeaderBytes = 6
  MaxHeaderCount = 1
  MaxBodyBytes = 3
  JsonTexts <- MCJsonTexts
  DecodeOptions <- MCDecodeOptions
  Heaps <- MCHeaps
  EncodeOptions <- MCEncodeOptions
  StringTexts <- MCStringTexts
  Contents <- MCContents
  NumberTexts <- MCNumberTexts
  Candidates <- MCCandidates
  Decimals <- MCDecimals
  Data <- MCData
  Texts64 <- MCTexts64
  HeadFragments <- MCHeadFragments
  Heads <- MCHeads
  RequestLines <- MCRequestLines
  EncodedTexts <- MCEncodedTexts
  RpcRequests <- MCRpcRequests
  Tokens <- MCTokens
  Comparisons <- MCComparisons
INVARIANTS DecodesTheGrammar TextReadsBack Base64IsExact HeadVerdict RpcTellsWhatHappened EqualIsIndistinguishable
CHECK_DEADLOCK FALSE
