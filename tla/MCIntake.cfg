SPECIFICATION Spec
CONSTANTS
    IpAddr <- MCIpAddr
    Readings <- MCReadings
    Entries <- MCEntries
    Clients <- MCClients
    Locals <- MCLocals
    StampDays <- MCStampDays
    Days <- MCDays
    Secrets <- MCSecrets
    Configs <- MCConfigs
INVARIANTS
    ReadsWhatWasMeant
    EmptyIsNotMissing
    CaseNeverMatters
    FileAndInlineAgree
    EntryCoversItsSubtree
    UnwrapsToTheOriginal
    GenuineIsUnwrapped
    OthersFallBack
    OnlyConfiguredSecrets
\* One step of a request is the whole behaviour.
CHECK_DEADLOCK FALSE
