\* A supply, which its disconnect makes safe, and a gas controller, which it does not
\* (devices/alicat/driver.py).
SPECIFICATION Spec
CONSTANTS
    Devices = {supply, mfc}
    SafeOnDisconnect = {supply}
    Watched = {supply}
    Home = Home
    Screen = Screen
    Nobody = Nobody
    MaxHung = 1
PROPERTIES
    CloseAccountsForAll
    ClosingEnds
CHECK_DEADLOCK FALSE
