SPECIFICATION Spec
CONSTANTS
  Messages <- MCMessages
  Arrivals <- MCArrivals
  MaxMessages = 3
  Events <- MCEvents
  MaxLine = 8
  DecodableAddresses <- MCDecodable
  Anonymous <- MCAnonymous
  UseExtranonce = TRUE
  Base = 210
  HashLen = 2
  MaxFramePayload = 2916
  MaxTarget = 100
  LeastDiff = 2
  Text <- MCText
  FirstChannelIDs <- MCFirstChannelIDs
  StratumDiffs = {1, 3}
  WalletOf <- MCWalletOf
INVARIANTS
  HandledAsSent
  AnswersEchoRequests
  SharesOnOpenChannel
  CreditedAsAuthorized
  GoodMinersStayConnected
CHECK_DEADLOCK FALSE
