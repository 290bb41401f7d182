SPECIFICATION Spec
CONSTANTS
  pay = pay
  otp = otp
  old = old
  lf = lf
  crlf = crlf
  Requests = {h1, h2}
  Bodies = {pay, otp, old}
  FormsOf <- MCFormsOf
  Verdict <- MCVerdict
  LegacyRaw <- MCPendingRaw
  LegacyTxns <- MCNone
  NoPrint = NoPrint
  Blank = Blank
  Free = Free
INVARIANT NoStrandedPending
