SPECIFICATION FairSpec
CONSTANTS
    importer = importer
    global = global
    phone = phone
    tracker = tracker
    tags = tags
    NoObj = NoObj
    Objs = {o1}
    TimedObjs = {}
    Payloads = {p1}
    Workers = {global, phone, tracker, tags}
    Importers = {importer}
    Renamers = {}
    Modules <- MCModules
    QueueNames <- MCQueueNames
    ModuleOf <- MCModuleOf
    Publish <- MCPublish
    Subscribers <- MCSubscribers
    MaxImports = 1
    MaxSends = 1
INVARIANTS
    TypeOK
    EntriesJustified
    NoWorkForgotten
PROPERTIES
    HandoverSpec
    EventuallySynced
CHECK_DEADLOCK FALSE
