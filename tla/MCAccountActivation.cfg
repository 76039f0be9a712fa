SPECIFICATION Spec
CONSTANTS
  c1 = c1
  c2 = c2
  s1 = s1
  s2 = s2
  None = None
  Cadastros = {c1, c2}
  Subjects = {s1, s2}
  Emails <- MCEmails
  EmailOf <- MCEmailOf
SYMMETRY MCSymmetry
INVARIANTS BindingsAgree NoneStranded
PROPERTY KeepsActivationPromise
CHECK_DEADLOCK FALSE
