SPECIFICATION SessionSpec
CONSTANTS
    ann = ann
    bob = bob
    cem = cem
    NoOne = NoOne
    Accounts <- MCAccounts
    Registered <- MCRegistered
    Admins <- MCAdmins
    MaxClicks = 3
INVARIANTS
    ShellMatchesSession
    AdminPageIsGuarded
PROPERTIES
    FormsComeBack
    SignInLeadsBack
CHECK_DEADLOCK FALSE
