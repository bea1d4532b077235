CONSTANTS
  MaxDepth = 6
  ConnectTimeout = 1
  Required <- MCRequired
  Large <- MCLarge
  ClientCapabilities = {"CAP_NT_SMBS"}
  MinMaxBufferSize = 2
  Credentials <- MCCredentials
  Uids = {0, 1}
  Blobs <- MCBlobs
  Challenges <- MCChallenges
SPECIFICATION FairSessionSpec
INVARIANTS CredentialsKept AnswersTheChallenge SessionEarned
PROPERTY HandshakeEnds
