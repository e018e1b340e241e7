CONSTANTS
    tab1 = tab1
    tab2 = tab2
    home = home
    first = first
    second = second
    Tabs = {tab1,tab2}
    Browsers = {home}
    BrowserOf <- InOneBrowser
    EditsOf <- EachItsOwn
    Full = {}
    MaxRevision = 1
    MaxUpsets = 1
SPECIFICATION Spec
INVARIANTS EditsKept
PROPERTIES SavedEditsStay
CHECK_DEADLOCK FALSE
