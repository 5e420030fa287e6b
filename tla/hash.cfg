SPECIFICATION Spec
CONSTANTS
  Files = 2
  Texts <- MCTexts
  Roles <- MCRoles
  Values <- MCValues
PROPERTY RollsExactlyOnChange
