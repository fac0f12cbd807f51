SPECIFICATION Spec
CONSTANTS
  head = head
  body = body
  extra = extra
  other = other
  user = user
  Lines = {head, body, extra, other, user}
  Templates <- Versions
  UserLines = {user}
  Override <- TypedContents
  MaxLines = 3
  MaxEdits = 2
  MaxReleases = 2
  MaxFailures = 1
PROPERTIES UserLinesSurviveRefresh LaterGenerateKeepsTheFile RefreshSettles
