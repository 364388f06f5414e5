SPECIFICATION Spec
CONSTANTS
  admin = admin  analyst = analyst
  alert = alert
  r1 = r1  r2 = r2
  Users <- Staff
  Admins <- OneAdmin
  Alerts <- OneAlert
  Requests <- Two
  Fields <- Editable
  Texts <- TwoTexts
  Reasons <- OneReason
  Null = Null
SYMMETRY Symmetry
PROPERTIES
  StaleRequestsFail
