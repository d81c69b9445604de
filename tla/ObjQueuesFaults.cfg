SPECIFICATION FairFaultSpec
CONSTANTS
    importer = importer
    global = global
    phone = phone
    tracker = tracker
    tags = tags
    NoObj = NoObj
    Objs = {o1, o2}
    TimedObjs = {o1, o2}
    Payloads = {p1}
    Workers = {phone, tags}
    Importers = {importer}
    Renamers = {phone}
    Modules <- OneModules
    QueueNames <- OneQueueNames
    ModuleOf <- OneModuleOf
    Publish <- One
    Subscribers <- OneSubscribers
    MaxImports = 1
    MaxSends = 1
PROPERTIES
    EventuallyUntracked
CHECK_DEADLOCK FALSE
