\* A group that is restarted as it should be, and three processes of one name
\* that are launched and end at any time.
CONSTANTS
    a1 = a1
    b1 = b1
    a2 = a2
    b2 = b2
    u1 = u1
    u2 = u2
    u3 = u3
    group = group
    None = None
    Processes = {a1, b1, a2, b2}
    Names = {group}
    NameOf <- MCNameOf
    ContextSize = 2
    Uris = {u1, u2, u3}
    Launches <- MCLaunches
SPECIFICATION FairSpec
INVARIANTS TypeOK VAddrsUnique BooksAreRight FindsItself
PROPERTIES GroupForms
\* The processes end, and a surplus one may wait for ever.
CHECK_DEADLOCK FALSE
