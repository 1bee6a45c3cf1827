SPECIFICATION Spec
CONSTANTS
  Tabs = {t1}
  Window = Window
  Proxies = {tor}
  Direct = Direct
  Calls = {c1}
  Nobody = Nobody
  MaxPending = 2
PROPERTY
  ReportedEverywhere
