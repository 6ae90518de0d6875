SPECIFICATION ClaimsSpec
CONSTANTS
  Apps = {forms}
  Ranks = {admin}
  Issuers = {i1}
INVARIANT PasskeyServicesLikeLogin
