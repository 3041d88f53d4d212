\* Two writes and two requests of each page: an answer can be overtaken.
SPECIFICATION NameSpec
CONSTANTS
    LastVersion = 2
    MaxRequests = 2
PROPERTIES NamesDoNotGoBack
\* The user stops pressing and every request has ended.
CHECK_DEADLOCK FALSE
