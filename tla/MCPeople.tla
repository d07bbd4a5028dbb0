------------------------------ MODULE MCPeople ------------------------------
(* Four contacts, two of them with accounts; the casts are small enough to *)
(* be explored whole and each brings one kind of race about.               *)
EXTENDS People, TLC

CONSTANTS mail, phone, newMail, newPhone, flag, fee, oldDevice, newDevice

MCContacts == {mail, phone, newMail, newPhone}
MCPhones == {phone, newPhone}
MCRegistered == {mail, phone}
MCKnown == <<3>>

MCSessions == {
    << Work("login", mail, 0), Work("refresh", mail, 1), Work("refresh", mail, 1),
       Work("refresh", mail, 2), Work("logout", mail, 2) >>,
    << Work("login", mail, 0), Work("refresh", mail, 1), Work("block", mail, 0), Work("block", mail, 0) >>,
    << Work("login", mail, 0), Work("refresh", mail, 1), Work("suspend", mail, 0),
       Work("sweep", mail, 0), Work("block", mail, 0) >> }

MCCodes == {
    << Work("sendLogin", phone, 0), Work("sendLogin", phone, 0), Work("verifyLogin", phone, 1),
       Work("verifyLogin", phone, 1), Work("verifyLogin", phone, 0) >>,
    << Work("sendRegister", newMail, 0), Work("sendRegister", newMail, 0),
       Work("verifyRegister", newMail, 1), Work("verifyRegister", newMail, 1),
       Work("verifyRegister", newMail, 0) >>,
    << Work("sendRegister", newPhone, 0), Work("verifyRegister", newPhone, 1),
       Work("verifyRegister", newPhone, 1) >> }

MCOpinions == {
    << Work("rate", mail, 1), Work("rate", phone, 5), Work("complete", phone, 0),
       Work("verdict", phone, 1) >>,
    << Work("rate", mail, 5), Work("complete", phone, 0), Work("complete", phone, 0),
       Work("verdict", phone, 0) >>,
    << Work("rate", mail, 5), Work("complete", phone, 0), Work("suspend", phone, 0),
       Work("verdict", phone, 0) >>,
    << Work("report", mail, 1), Work("report", mail, 2), Work("report", mail, 2),
       Work("dismiss", phone, 1), Work("toggle", phone, 0) >>,
    << Work("report", mail, 1), Work("report", mail, 2), Work("dismiss", phone, 1),
       Work("resolve", phone, 1) >> }

\* One request he posted, one he was given after another creator let it lapse,
\* one that is open.
MCPosted == <<
    [by |-> phone, last |-> mail, status |-> "RECORDING", reshot |-> FALSE, lapsed |-> FALSE, wrote |-> FALSE],
    [by |-> mail, last |-> phone, status |-> "RECORDING", reshot |-> FALSE, lapsed |-> FALSE, wrote |-> TRUE],
    [by |-> mail, last |-> mail, status |-> "PUBLISHED", reshot |-> FALSE, lapsed |-> TRUE, wrote |-> FALSE] >>

MCProfiles == {
    << Work("profile", phone, 1), Work("profile", phone, 0), Work("profile", phone, 1),
       Work("finish", phone, 2), Work("take", phone, 3), Work("verdict", phone, 1) >>,
    << Work("profile", phone, 1), Work("profile", phone, 0), Work("finish", mail, 1),
       Work("reshoot", phone, 2), Work("rate", mail, 5) >>,
    << Work("profile", phone, 1), Work("profile", phone, 1), Work("lapse", phone, 2),
       Work("take", phone, 2), Work("toggle", phone, 0) >>,
    << Work("profile", phone, 1), Work("profile", mail, 0), Work("withdraw", mail, 3),
       Work("report", mail, 1), Work("toggle", phone, 0) >> }

MCStored == [x \in {flag, fee} |-> IF x = flag THEN Unset ELSE 1]
MCPreset == << [key |-> flag, value |-> 2], [key |-> fee, value |-> 3] >>

MCSettings == {
    << Work("get", mail, flag), Work("set", mail, [key |-> flag, value |-> 4]), Work("preset", phone, 0) >>,
    << Work("get", mail, fee), Work("get", mail, fee), Work("preset", phone, 0),
       Work("direct", mail, [key |-> fee, value |-> Unset]) >> }

MCConsents == {
    << Work("look", mail, 0), Work("accept", mail, 0), Work("raise", phone, 2), Work("look", mail, 0),
       Work("accept", mail, 0), Work("raise", phone, 1), Work("look", phone, 0), Work("accept", phone, 0) >> }

MCNotices == {
    << Work("event", phone, 0), Work("event", phone, 0), Work("device", phone, newDevice), Work("mute", phone, 0) >>,
    << Work("export", mail, 0), Work("device", mail, newDevice), Work("tidy", mail, 0), Work("block", mail, 0) >>,
    << Work("say", mail, 1), Work("say", phone, 1), Work("say", mail, 1) >>,
    << Work("say", mail, 1), Work("say", phone, 0), Work("say", mail, 1) >> }

MCCasts == MCSessions \cup MCCodes \cup MCOpinions \cup MCProfiles \cup MCSettings \cup MCConsents
           \cup MCNotices
=============================================================================
