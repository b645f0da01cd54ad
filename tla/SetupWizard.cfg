SPECIFICATION Spec
CONSTANTS
  Tabs = {t1}
  ValidTokens = {jwt}
  NoToken = none
CHECK_DEADLOCK FALSE
PROPERTY WizardFinishes
