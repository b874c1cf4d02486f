\* Two workers and two people; the game signs in, out, and asks for its data.
CONSTANTS
  Persons = {p1, p2}
  Blocks = {b1, b2}
  Queries = {"token", "token_utf16", "picture", "msa_token"}
  Texts <- SomeTexts
  Calls = {"AddDefaultUserSilently", "AddDefaultUserAllowingUI", "AddByIdWithUi", "SignOut", "ResolvePrivilege", "token", "token_utf16", "picture", "msa_token"}
  MaxUsers = 2
  MaxHandles = 2
  MaxTokens = 1
  MaxCalls = 3
SPECIFICATION Spec
INVARIANTS
  UsersFindable
  ListenersQuiet
  SignOutSettles
  ResultReady
SYMMETRY Symmetry
CHECK_DEADLOCK FALSE
