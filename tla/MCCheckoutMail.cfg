SPECIFICATION FairMailSpec
CONSTANTS
  Registrations = {r1, r2, r3}
  Allowed = {r1, r2}
  Workers = {w1, w2}
  NoJob = NoJob
  MaxFaults = 2
  Unmailable = {r2}
  MaxAttempts = 2
  MaxMailFaults = 1
INVARIANTS AtMostOneOrder CreatedIsPayable CopiesAreBounded MailedIsPayable PauseHasCause
PROPERTIES LateAnswerIsKept KeepsPromise EveryAttemptIsTold
