SPECIFICATION PickerSpec
CONSTANTS
    Offered <- MCOffered
    OAuth <- MCOAuth
    Keyed <- MCKeyed
    Profiles <- MCProfiles
    Wire <- MCWire
    Models <- MCModels
    Default <- MCDefault
    Efforts <- MCEfforts
    MaxLoads = 1
    MaxLogins = 1
\* The system stops: the app may have ended with an exception, or the user be idle
\* at the bounds.
CHECK_DEADLOCK FALSE
INVARIANT LoginBeforeSwitch
