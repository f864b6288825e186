SPECIFICATION FairSpec
CONSTANTS
 Clients = {1, 2, 3}
 Hosts = {h1, h2}
 Fds = {4, 5, 6, 7}
 MaxLines = 3
 Refused = TRUE
 NONE = NONE
INVARIANTS DescriptorsOwned LoggedBeforeAnswered
PROPERTIES ConnectsToOwnHost RequestsAnswered
CHECK_DEADLOCK FALSE
