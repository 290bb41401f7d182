SPECIFICATION FairSpec
CONSTANTS
  pay = pay
  otp = otp
  old = old
  lf = lf
  crlf = crlf
  Requests = {h1, h2}
  Bodies = {pay, otp, old}
  FormsOf <- MCFormsOf
  Verdict <- MCVerdict
  LegacyRaw <- MCPendingRaw
  LegacyTxns <- MCNone
  NoPrint = NoPrint
  Blank = Blank
  Free = Free
INVARIANTS IInv OncePerBody StatusMatchesBooks TruthfulReply
PROPERTIES HistoryKept ImplementsLedger EverySubmissionAnswered
