CONSTANTS
    tab1 = tab1
    tab2 = tab2
    home = home
    first = first
    second = second
    Tabs = {tab1}
    Browsers = {home}
    BrowserOf <- InOneBrowser
    EditsOf <- EachItsOwn
    Full = {home}
    MaxRevision = 1
    MaxUpsets = 2
SPECIFICATION Spec
INVARIANTS RenewalKeepsDraft
CHECK_DEADLOCK FALSE
