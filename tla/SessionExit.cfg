\* A supply, which its disconnect makes safe, and a gas controller, which it does not
\* (devices/alicat/driver.py).
SPECIFICATION Spec
CONSTANTS
    Devices = {supply, mfc}
    SafeOnDisconnect = {supply}
    Watched = {supply, mfc}
    Home = Home
    Screen = Screen
    Nobody = Nobody
    MaxHung = 0
PROPERTY
    ExitLeavesAllSafe
CHECK_DEADLOCK FALSE
