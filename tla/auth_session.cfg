SPECIFICATION Spec
CONSTANTS
  Requests = {first}
  Mixes <- MCRegister
  Bearer <- MCBearer
  Name <- MCName
  Email <- MCEmail
  Usernames = {"n"}
  Emails = {"a", "b"}
  MayFail = FALSE
  MaxRedeliveries = 0
  first = first
  second = second
  third = third
INVARIANT
  RegistrationOpensSession
