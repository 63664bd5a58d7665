CONSTANTS
    Calls = {1, 2}
    Poll = 0
    Template = {"displayLock", "sabbathMode"}
    PAT_PRIORITY_FIELDS = {}
    Writable = {"displayLock", "sabbathMode"}
    Experimental = {}
    Values = {1, 2}
    Unknown = 0
SPECIFICATION TemplateSpec
PROPERTIES
    NothingIsUndone
