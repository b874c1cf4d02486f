\* Two workers and every request; the license or a key beside any other.
CONSTANTS
  Clients = {c1, c2}
  Requests = {"license", "products", "entitled_products", "associated_products", "collections_id", "purchase_id", "license_token", "xsts_token", "msa_token", "user_info", "interactive_sign_in", "gamer_picture", "resolve_product_id"}
  Environments = {
    {"socket_path", "preloaded", "__wine_unix_call_dispatcher", "endpoint"},
    {"socket_path", "builtin", "__wine_unix_call"},
    {"socket_path", "preloaded", "endpoint"},
    {}}
  Published = {"license"}
  TOKEN_AND_SIGNATURE_RETRIES = 2
  MaxIds = 2
  Blocks = {b1}
  NoBlock = NoBlock
SPECIFICATION FewSpec
INVARIANTS
  AnswerIsOwn
  ParkedReclaimed
  HonestAnswers
  ResultIsOwn
PROPERTY
  RequestsEnd
CHECK_DEADLOCK FALSE
