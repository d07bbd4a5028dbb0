CONSTANTS
    mail = mail
    phone = phone
    newMail = newMail
    newPhone = newPhone
    Contacts <- MCContacts
    Phones <- MCPhones
    Registered <- MCRegistered
    MaxAttempts = 1
    Casts <- MCCasts
    Requester = mail
    Creator = phone
    Known <- MCKnown
    Completed = 1
    Threshold = 2
    MinRating = 3
    Window = 2
    ReportThreshold = 2
    Posted <- MCPosted
    MinSample = 1
    TopSuccessful = 1
    Nobody = Nobody
    Stored <- MCStored
    Preset <- MCPreset
    Unset = Unset
    flag = flag
    fee = fee
    oldDevice = oldDevice
    newDevice = newDevice
    FirstDevice = oldDevice
    NoDevice = NoDevice
    FlagThreshold = 2
    Parties <- MCRegistered
SPECIFICATION Spec
INVARIANTS
    ClosedHasNoSession
    ReplayEndsFamily
    OneSessionACode
    RevealTogether
    BadgeAgrees
    ThresholdsFlag
    NoticesReach
    BadgeToldOnce
    SettingsAgree
    ConsentCoversText
CHECK_DEADLOCK FALSE
