\* three accounts (two controllers, one, none), three controllers, one
\* member name (old and new member sets equal or not), one --addresses entry
CONSTANTS
  a1 = a1
  a2 = a2
  a3 = a3
  c1 = c1
  c2 = c2
  c3 = c3
  m1 = m1
  Accounts <- MCAccounts
  Controllers <- MCControllers
  Members <- MCMembers
  Owner <- MCOwner
  MaxTokens = 1
SPECIFICATION Spec
INVARIANT AddressesParsedWithoutPanic
