SPECIFICATION MCSpec
CONSTANTS
  Tabs = {t1, t2}
  Window = Window
  Proxies = {tor}
  Direct = Direct
  Calls = {c1, c2}
  Nobody = Nobody
  MaxPending = 2
  UITabs = {w1, w2}
  Urls = {u1, u2}
  Blank = Blank
  Typed = Typed
  UIActs = 3
  Clears = {d1, d2}
  BrowsingActs = 5
  DialogActs = 5
INVARIANTS
  DialogsAreHonest
  
PROPERTIES
  TabsAreSound
  BrowserSettles
  ClearingIsSound
  
