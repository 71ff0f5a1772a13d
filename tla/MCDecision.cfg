SPECIFICATION Spec
CONSTANTS
    Cases <- MCCases
    Files <- MCFiles
INVARIANTS
    HeloOnlyEscalates
    NoCheckNeverDrives
    ReplyCodeMatchesVerb
    StricterIsNeverMilder
    AcceptedTemplateIsFilled
    RenderIsSimultaneous
    OneReplyPerRequest
    LogTellsTheReply
    AcceptedConfigServes
    OmittedSectionsActAsEmpty
\* One decision, or one load, is the whole behaviour.
CHECK_DEADLOCK FALSE
